------------------------------- MODULE MCServer -------------------------------
(***************************************************************************)
(* The parts of the chat server that its request threads share, side by    *)
(* side: the activity row, the session file, the test batches and the      *)
(* mission store.  They share no variable, so the behaviours of the server *)
(* are those of its parts, each of which TLC explores alone: part is the   *)
(* one that runs.                                                          *)
(***************************************************************************)
EXTENDS TurnActivity, SessionFile, TestBatches, MissionStore, TLC

VARIABLE part

Alone(name, action, others) == part = name /\ action /\ UNCHANGED <<others, part>>

ServerInit ==
  /\ part \in {"activity", "session", "batches", "mission"}
  /\ Init /\ SessionInit /\ BatchInit /\ MissionInit
  /\ part # "session" => file = AbsentFile

ServerNext ==
  \/ Alone("activity", Next, <<sessionVars, batchVars, missionVars>>)
  \/ Alone("session", SessionNext, <<vars, batchVars, missionVars>>)
  \/ Alone("batches", BatchNext, <<vars, sessionVars, missionVars>>)
  \/ Alone("mission", MissionNext, <<vars, sessionVars, batchVars>>)

ServerSpec == ServerInit /\ [][ServerNext]_<<part, vars, sessionVars, batchVars, missionVars>>

(* Every variable of the four parts has its type.                          *)
ServerTypeOK == TypeOK /\ SessionTypeOK /\ BatchTypeOK /\ MissionTypeOK

(* A chat turn records one execution, so both have one name.               *)
Symmetry == Permutations(Turn)

=============================================================================
