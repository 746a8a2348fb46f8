---------------------------- MODULE PendingQuestions ----------------------------
(***************************************************************************)
(* What a chat session still owes (run_chat_turn in                        *)
(* ai_tool/chat_interface/agent_turn.py): the questions it has asked the   *)
(* user, the goal it can continue, and whether the goal handoff is out.    *)
(* Every message of the user is one step: packets are read, an entry       *)
(* branch restores or starts a goal, the dispatch answers, and the fields  *)
(* of the session are rewritten from the result.                           *)
(***************************************************************************)
CONSTANTS Mission, None

ASSUME MissionAssumption == None \notin Mission

VARIABLES
  asked,         \* the mission of the packet of each awaited answer
  continuation,  \* the mission of goal_continuation_resume
  issued,        \* session_has_production_handoff
  turn,          \* ghost: what the last message was taken for
  started        \* ghost: the last message started a new Goal

questionVars == <<asked, continuation, issued, turn, started>>

Question == {"decision_change", "boundary", "grill", "goal_completion", "requirement", "production"}

(* What takes a message in place of a question.                            *)
Interruption == {"help", "command", "clarification", "unrestored", "handoff"}

QuestionTypeOK ==
  /\ asked \in [Question -> Mission \cup {None}]
  /\ continuation \in Mission \cup {None}
  /\ issued \in BOOLEAN /\ started \in BOOLEAN
  /\ turn \in Question \cup Interruption \cup {"none", "chat", "continue"}

QuestionInit ==
  /\ asked = [q \in Question |-> None]
  /\ continuation = None
  /\ issued = FALSE /\ turn = "none" /\ started = FALSE

-----------------------------------------------------------------------------
(* The end of the turn: what the result asks, and what it leaves of the    *)
(* continuation.                                                           *)

Pending(questions) == \E q \in questions : asked[q] # None

Ask(questions, m) == asked' = [q \in Question |-> IF q \in questions THEN m ELSE None]

AskNothing == Ask({}, None)

(* A packet of another mission is kept, unless the turn restored it.       *)
SaveContinuation(m) ==
  continuation' = IF turn' # "continue" /\ continuation # None THEN continuation ELSE m

(* mutant: a question for the human does not hold back the others          *)
AllDue == {{}, {"grill"}, {"goal_completion"}, {"boundary"}, {"grill", "boundary"}}

(* _chat_turn: boundary questions wait for the human's other answers.      *)
DueQuestions == {{}, {"grill"}, {"goal_completion"}, {"boundary"}}

(* The result of _chat_turn for a mission; a goal to continue is offered   *)
(* only if nothing is asked, and a result without one withdraws it.        *)
FinishChat(m) ==
  /\ UNCHANGED issued
  /\ \/ /\ \E questions \in DueQuestions : Ask(questions, m)
        /\ continuation' = None
     \/ AskNothing /\ SaveContinuation(m)

(* _boundary_grill_post_apply_reroute.  A session hands off once.          *)
Reroute(m) ==
  \/ Ask({"boundary"}, m) /\ continuation' = None /\ UNCHANGED issued
  \/ AskNothing /\ continuation' = None /\ UNCHANGED issued
  \/ AskNothing /\ issued /\ SaveContinuation(m) /\ UNCHANGED issued
  \/ AskNothing /\ ~ issued /\ issued' = TRUE /\ UNCHANGED continuation

(* _production_grill_phase1_turn: the next question, or the handoff.       *)
AskProduction(m) ==
  /\ Ask({"production"}, m) \/ AskNothing
  /\ UNCHANGED <<continuation, issued>>

-----------------------------------------------------------------------------
(* The messages.                                                           *)

(* /h changes nothing in the session.                                      *)
Help == turn' = "help" /\ started' = FALSE /\ UNCHANGED <<asked, continuation, issued>>

(* /goal alone and /run; the result of a /run that executed is that of     *)
(* _chat_turn.                                                             *)
Command ==
  /\ turn' = "command" /\ started' = FALSE
  /\ \/ AskNothing /\ UNCHANGED <<continuation, issued>>
     \/ \E m \in Mission : FinishChat(m)

(* is_explicit_production_handoff_trigger; the pipeline can be refused.    *)
HandOff ==
  /\ ~ Pending({"grill", "goal_completion", "boundary", "decision_change"})
  /\ turn' = "handoff" /\ started' = FALSE
  /\ AskNothing /\ UNCHANGED continuation
  /\ issued' \in {issued, TRUE}

(* is_explicit_continuation_trigger while a continuation is awaited.       *)
Continues ==
  continuation # None /\ ~ Pending({"grill", "goal_completion", "boundary", "decision_change"})

(* restore_orchestrator_from_goal_continuation; with a requirement still   *)
(* open its question is asked instead, and if it cannot be put into words  *)
(* an ordinary chat turn follows.                                          *)
Continue ==
  /\ Continues /\ ~ Pending({"production", "requirement"})
  /\ started' = FALSE
  /\ \/ turn' = "continue" /\ FinishChat(continuation)
     \/ turn' = "chat" /\ Ask({"requirement"}, continuation) /\ UNCHANGED <<continuation, issued>>
     \/ turn' = "chat" /\ AskNothing /\ continuation' = None /\ UNCHANGED issued

(* The packet is invalid, or its graph cannot be restored.                 *)
FailContinue ==
  /\ Continues
  /\ turn' = "unrestored" /\ started' = FALSE
  /\ AskNothing /\ UNCHANGED <<continuation, issued>>

(* _blocks_new_goal_seed, after the branches of the grill and of the       *)
(* completion.                                                             *)
MaySeed == ~ Pending({"grill", "goal_completion", "requirement", "production"})

(* decompose_requirements is not READY: this answer goes before all others.*)
Clarify ==
  /\ MaySeed
  /\ turn' = "clarification" /\ started' = FALSE
  /\ AskNothing /\ UNCHANGED <<continuation, issued>>

(* The branch that starts a goal is taken for the text of a reply, too; a  *)
(* requirement question or a spec it produced is dropped by the dispatch.  *)
Reply(q) ==
  /\ Pending({q})
  /\ q \in {"requirement", "production", "boundary"} => ~ Pending({"decision_change"})
  /\ turn' = q
  /\ started' \in IF MaySeed THEN BOOLEAN ELSE {FALSE}

(* Defer, or keep or confirm.                                              *)
ReplyDecision ==
  /\ Reply("decision_change")
  /\ \/ Ask({"decision_change"}, asked["decision_change"]) /\ UNCHANGED <<continuation, issued>>
     \/ Reroute(asked["decision_change"])

ReplyBoundary ==
  /\ Reply("boundary")
  /\ \/ Ask({"decision_change"}, asked["boundary"]) /\ UNCHANGED <<continuation, issued>>
     \/ Reroute(asked["boundary"])

ReplyGrill == Reply("grill") /\ FinishChat(asked["grill"])

ReplyCompletion ==
  /\ Reply("goal_completion")
  /\ AskNothing /\ UNCHANGED <<continuation, issued>>

ReplyProduction == Reply("production") /\ AskProduction(asked["production"])

(* The last requirement starts the production questions, unless a          *)
(* continuation is awaited, of whatever mission.                           *)
ReplyRequirement ==
  /\ Reply("requirement")
  /\ \/ Ask({"requirement"}, asked["requirement"]) /\ UNCHANGED <<continuation, issued>>
     \/ AskNothing /\ UNCHANGED <<continuation, issued>>
     \/ continuation = None /\ AskProduction(asked["requirement"])

(* mutant: a new message is taken for a new request, asked or not          *)
Free == TRUE

NothingAsked == ~ Pending(Question)

(* A new goal: its requirements are asked for or do not hold, its spec is  *)
(* formed, or it runs.                                                     *)
StartGoal ==
  /\ NothingAsked /\ turn' = "chat"
  /\ \E m \in Mission :
       \/ started' = FALSE /\ Ask({"requirement"}, m) /\ UNCHANGED <<continuation, issued>>
       \/ started' = FALSE /\ AskNothing /\ UNCHANGED <<continuation, issued>>
       \/ started' = TRUE /\ AskProduction(m)
       \/ started' = TRUE /\ FinishChat(m)

(* A chat without a goal withdraws the continuation; a development request *)
(* becomes a spec proposal.                                                *)
Chat ==
  /\ NothingAsked /\ turn' = "chat" /\ started' = FALSE
  /\ AskNothing /\ continuation' \in {continuation, None} /\ UNCHANGED issued

QuestionNext ==
  \/ Help \/ Command \/ HandOff \/ Continue \/ FailContinue \/ Clarify
  \/ ReplyDecision \/ ReplyBoundary \/ ReplyGrill \/ ReplyCompletion
  \/ ReplyProduction \/ ReplyRequirement \/ StartGoal \/ Chat

QuestionSpec == QuestionInit /\ [][QuestionNext]_questionVars

-----------------------------------------------------------------------------
(* Properties.                                                             *)

(* A session never waits for two answers at once, so a reply is never      *)
(* taken for the answer to another question (run_chat_turn, _chat_turn).   *)
OneQuestion ==
  \A p, q \in Question : asked[p] # None /\ asked[q] # None => p = q

(* A question leaves the session only by a reply to it, by a command, a    *)
(* handoff, a failed restore or a clarification, never because an ordinary *)
(* chat turn takes the message (the dispatch of run_chat_turn).            *)
NotTalkedOver ==
  [][\A q \in Question : asked[q] # None /\ asked'[q] = None => turn' \in {q} \cup Interruption]_questionVars

(* "Pending reply / continuation execution must not start a new Goal."     *)
(* (_blocks_new_goal_seed)                                                 *)
ReplyStartsNoGoal == turn \in Question => ~ started

=============================================================================
