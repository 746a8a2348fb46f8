----------------------- MODULE MCDecisionPropagation -----------------------
(***************************************************************************)
(* Instances of DecisionPropagation for TLC.                               *)
(***************************************************************************)
EXTENDS DecisionPropagation

BaseTask == 1..BaseTasks

Graph(D, P) ==
  [deps     |-> [t \in Task |-> IF t \in BaseTask THEN D[t] ELSE {}],
   premises |-> [t \in Task |-> IF t \in BaseTask THEN P[t] ELSE {}]]

Premises == [BaseTask -> SUBSET Key]

(* Every depends_on among the seeded tasks in which a task depends on      *)
(* earlier ones, with every choice of the tasks that rest on a decision.   *)
OrderedGraphs ==
  {Graph(D, P) : D \in {E \in [BaseTask -> SUBSET BaseTask] :
                          \A t \in BaseTask : E[t] \subseteq 1..(t - 1)},
                 P \in Premises}

(* The chain in which every task depends on the next one.                  *)
ReversedChains ==
  {Graph([t \in BaseTask |-> {t + 1} \cap BaseTask], P) : P \in Premises}

SeededGraphs == OrderedGraphs \cup ReversedChains

(* Task 3 depends on task 1; tasks 1 and 2 rest on a decision.             *)
ForkedGraphs ==
  {Graph([t \in BaseTask |-> IF t = 3 THEN {1} ELSE {}],
         [t \in BaseTask |-> IF t = 3 THEN {} ELSE Key])}

=============================================================================
