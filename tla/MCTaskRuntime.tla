-------------------------- MODULE MCTaskRuntime --------------------------
(***************************************************************************)
(* Instances of TaskRuntime for TLC.                                       *)
(***************************************************************************)
EXTENDS TaskRuntime, TLC

(* The shape of every graph the orchestrator builds: the other goals are   *)
(* children of the root.                                                   *)
Rooted == \A g \in goals : parent[g] = (IF g = Root THEN NoGoal ELSE Root)

(* Completion does not read evidence_ids: TaskCompletion leaves them empty. *)
Unlinked == \A t \in Task : evidenceIds[t] = {}

(* Claims and the gate read one task and no seeding: TaskClaims has one    *)
(* task, with at most one condition, in a graph that is not seeded, and an *)
(* evidence record that supports every condition or none.                  *)
ObservationGraph ==
  /\ ~ seeded
  /\ \A t \in tasks : Cardinality(conditions[t]) <= 1
  /\ \A e \in Evidence : supports[e] \in {{}, Condition}

EvidenceSymmetry == Permutations(Evidence)

CompletionShape == Rooted /\ Unlinked

=============================================================================
