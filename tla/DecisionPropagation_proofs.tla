--------------------- MODULE DecisionPropagation_proofs ---------------------
(***************************************************************************)
(* What TLAPS proves about DecisionPropagation for every seeded graph,     *)
(* every number of tasks, decisions and waves, and every verdict: the      *)
(* graph stays acyclic, supersession is one-to-one, nothing depends on a   *)
(* superseded task, the turn never points at one, tasks with stale         *)
(* premises stay blocked, no change set comes back, a run has fewer waves  *)
(* than seeded tasks, and, when max_waves allows that many, every task     *)
(* that depends on a successor is judged against the replacement.          *)
(***************************************************************************)
EXTENDS DecisionPropagation, FiniteSetTheorems, WellFoundedInduction, TLAPS

(* The graph is well-formed, and ids that are not in use are blank.        *)
GraphOK ==
  /\ count \in Nat /\ BaseTasks <= count /\ count <= MaxTasks
  /\ deps \in [Task -> SUBSET tasks]
  /\ status \in [Task -> Status]
  /\ origin \in [Task -> {"base", "corrective", "replacement"}]
  /\ source \in [Task -> Task \cup {None}]
  /\ supersededBy \in [Task -> Task \cup {None}]
  /\ current \in tasks

Blank ==
  \A t \in Task : t > count =>
    /\ status[t] = "pending" /\ origin[t] = "base"
    /\ source[t] = None /\ supersededBy[t] = None

(* The inductive invariant: to revive no superseded task, the steps that   *)
(* change a status rely on CurrentNotSuperseded; acyclicity is needed for  *)
(* itself only.                                                            *)
GraphInv ==
  /\ GraphOK
  /\ Blank
  /\ LineageSound
  /\ NoDependencyOnSuperseded
  /\ CurrentNotSuperseded
  /\ DependenciesAcyclic

-----------------------------------------------------------------------------
(* Redirecting the dependents of t to a new task with the dependencies of  *)
(* t keeps a graph acyclic: in a set of tasks that has no minimal element, *)
(* the new task can be replaced by t.                                      *)
LEMMA TwinAcyclic ==
  ASSUME NEW n \in Nat, NEW t \in 1..n, NEW D, NEW E,
         \A u \in 1..n : D[u] \subseteq 1..n,
         Acyclic(D, 1..n),
         E[n + 1] = D[t] \ {t},
         \A u \in 1..n : E[u] = Redirected(D[u], t, n + 1)
  PROVE  Acyclic(E, 1..(n + 1))
<1>1. SUFFICES ASSUME NEW X \in SUBSET (1..(n + 1)), X # {}
               PROVE  \E u \in X : E[u] \cap X = {}
  BY <1>1 DEF Acyclic
<1> DEFINE twin(u) == IF u = n + 1 THEN t ELSE u
           Y == {twin(u) : u \in X}
<1>2. \A u \in X : twin(u) \in 1..n
  OBVIOUS
<1>3. Y \in SUBSET (1..n) /\ Y # {}
  BY <1>1, <1>2
<1>4. PICK m \in Y : D[m] \cap Y = {}
  BY <1>3 DEF Acyclic
<1>5. PICK u \in X : twin(u) = m
  BY <1>4
<1>6. ASSUME NEW x \in E[u] \cap X PROVE FALSE
  <2>1. twin(x) \in Y
    BY <1>6
  <2>2. CASE u = n + 1
    <3>1. m = t /\ x \in D[t]
      BY <2>2, <1>5, <1>6
    <3>2. x \in 1..n
      BY <3>1
    <3>3. twin(x) = x
      BY <3>2
    <3> QED BY <3>1, <3>3, <2>1, <1>4
  <2>3. CASE u # n + 1
    <3>1. m = u /\ u \in 1..n /\ x \in Redirected(D[m], t, n + 1)
      BY <2>3, <1>5, <1>6, <1>2
    <3>2. CASE x = n + 1
      <4>1. n + 1 \notin D[m]
        BY <3>1
      <4>2. t \in D[m]
        BY <3>1, <3>2, <4>1 DEF Redirected
      <4> QED BY <4>2, <3>2, <2>1, <1>4
    <3>3. CASE x # n + 1
      <4>1. x \in D[m]
        BY <3>1, <3>3 DEF Redirected
      <4> QED BY <4>1, <3>3, <2>1, <1>4
    <3> QED BY <3>2, <3>3
  <2> QED BY <2>2, <2>3
<1> QED BY <1>6

-----------------------------------------------------------------------------
(* What every successor does to the graph.                                 *)
LEMMA SuccessorGraph ==
  ASSUME GraphInv, NEW t \in tasks,
         NEW who \in {"corrective", "replacement"},
         AddSuccessor(t, count + 1, who)
  PROVE  /\ count' = count + 1 /\ count + 1 \in Task
         /\ count' \in Nat /\ BaseTasks <= count' /\ count' <= MaxTasks
         /\ tasks' = tasks \cup {count + 1}
         /\ deps' \in [Task -> SUBSET (tasks')]
         /\ origin' \in [Task -> {"base", "corrective", "replacement"}]
         /\ source' \in [Task -> Task \cup {None}]
         /\ DependenciesAcyclic'
         /\ \A u \in tasks : t \notin deps'[u]
         /\ \A u \in tasks' : \A d \in deps'[u] : d = count + 1 \/ d \in tasks \ {t}
<1> USE PropagationAssumption
<1> DEFINE new == count + 1
<1>1. count \in Nat /\ count < MaxTasks /\ count' = new /\ new \in Task /\ BaseTasks <= count
  BY DEF AddSuccessor, GraphInv, GraphOK, Task
<1>2. tasks' = tasks \cup {new} /\ tasks \subseteq Task /\ new \notin tasks
  BY <1>1 DEF tasks, Task
<1>3. deps' = [u \in Task |-> IF u = new THEN deps[t] \ {t}
                              ELSE Redirected(deps[u], t, new)]
  BY DEF AddSuccessor
<1>4. \A u \in Task : deps[u] \subseteq tasks
  BY DEF GraphInv, GraphOK
<1>5. \A u \in Task : deps'[u] \subseteq tasks'
  BY <1>2, <1>3, <1>4 DEF Redirected
<1>6. deps' \in [Task -> SUBSET (tasks')]
  BY <1>3, <1>5
<1>7. \A u \in tasks : t \notin deps'[u] /\ \A d \in deps'[u] : d = new \/ d \in tasks \ {t}
  BY <1>1, <1>2, <1>3, <1>4 DEF Redirected
<1>8. \A d \in deps'[new] : d \in tasks \ {t}
  BY <1>1, <1>2, <1>3, <1>4
<1>9. Acyclic(deps', tasks')
  <2>1. \A u \in 1..count : deps[u] \subseteq 1..count
    BY <1>2, <1>4 DEF tasks
  <2>2. Acyclic(deps, 1..count)
    BY DEF GraphInv, DependenciesAcyclic, tasks
  <2>3. deps'[count + 1] = deps[t] \ {t}
    BY <1>1, <1>3
  <2>4. \A u \in 1..count : deps'[u] = Redirected(deps[u], t, count + 1)
    BY <1>1, <1>2, <1>3 DEF tasks
  <2>5. Acyclic(deps', 1..(count + 1))
    BY <1>1, <2>1, <2>2, <2>3, <2>4, TwinAcyclic DEF tasks
  <2> QED BY <1>1, <2>5 DEF tasks
<1>10. /\ origin' \in [Task -> {"base", "corrective", "replacement"}]
       /\ source' \in [Task -> Task \cup {None}]
  BY <1>2 DEF AddSuccessor, GraphInv, GraphOK
<1> QED
  BY <1>1, <1>2, <1>6, <1>7, <1>8, <1>9, <1>10 DEF DependenciesAcyclic

LEMMA CorrectiveKeeps ==
  ASSUME GraphInv, NEW t, AddCorrective(t, count + 1)
  PROVE  GraphInv'
<1> DEFINE new == count + 1
<1>0. t \in tasks /\ AddSuccessor(t, new, "corrective") /\ ~ CorrectiveExists(t)
  BY DEF AddCorrective, Correctable
<1>1. /\ count' = new /\ new \in Task
      /\ count' \in Nat /\ BaseTasks <= count' /\ count' <= MaxTasks
      /\ tasks' = tasks \cup {new}
      /\ deps' \in [Task -> SUBSET (tasks')]
      /\ origin' \in [Task -> {"base", "corrective", "replacement"}]
      /\ source' \in [Task -> Task \cup {None}]
      /\ DependenciesAcyclic'
      /\ \A u \in tasks : t \notin deps'[u]
      /\ \A u \in tasks' : \A d \in deps'[u] : d = new \/ d \in tasks \ {t}
  BY <1>0, SuccessorGraph
<1>2. /\ origin' = [origin EXCEPT ![new] = "corrective"]
      /\ source' = [source EXCEPT ![new] = t]
      /\ UNCHANGED <<supersededBy, status, current>>
  BY <1>0 DEF AddCorrective, AddSuccessor
<1>3. GraphOK /\ Blank /\ LineageSound /\ NoDependencyOnSuperseded /\ CurrentNotSuperseded
  BY DEF GraphInv
<1>4. count \in Nat /\ new \notin tasks /\ tasks \subseteq Task
  BY <1>1, <1>3, PropagationAssumption DEF GraphOK, tasks, Task
<1>5. GraphOK'
  BY <1>1, <1>2, <1>3 DEF GraphOK
<1>6. Blank'
  BY <1>1, <1>2, <1>3, <1>4 DEF Blank, GraphOK, Task
<1>7. supersededBy[new] = None /\ status[new] = "pending"
  BY <1>1, <1>3, <1>4 DEF Blank, Task
<1>8. NoDependencyOnSuperseded'
  <2> SUFFICES ASSUME NEW u \in tasks', NEW d \in deps'[u]
               PROVE  supersededBy[d] = None
    BY <1>2 DEF NoDependencyOnSuperseded, Superseded
  <2>1. CASE d = new
    BY <2>1, <1>7
  <2>2. CASE d \in deps[u] /\ u \in tasks
    BY <2>2, <1>3 DEF NoDependencyOnSuperseded, Superseded
  <2>3. CASE d \in deps[t]
    BY <2>3, <1>0, <1>3 DEF NoDependencyOnSuperseded, Superseded
  <2>4. d = new \/ (d \in deps[u] /\ u \in tasks) \/ d \in deps[t]
    BY <1>0, <1>1, <1>4 DEF AddSuccessor, Redirected
  <2> QED BY <2>1, <2>2, <2>3, <2>4
<1>9. CurrentNotSuperseded'
  BY <1>2, <1>3 DEF CurrentNotSuperseded, Superseded
<1>10. LineageSound'
  <2>1. ASSUME NEW u \in tasks'
        PROVE  /\ status'[u] = "cancelled" <=> Superseded(u)'
               /\ Superseded(u)' => /\ supersededBy'[u] \in (u + 1)..count'
                                    /\ origin'[supersededBy'[u]] = "replacement"
                                    /\ source'[supersededBy'[u]] = u
    <3>1. CASE u = new
      BY <3>1, <1>2, <1>7 DEF Superseded
    <3>2. CASE u \in tasks /\ supersededBy[u] # None
      <4>1. /\ supersededBy[u] \in (u + 1)..count
            /\ origin[supersededBy[u]] = "replacement"
            /\ source[supersededBy[u]] = u
            /\ status[u] = "cancelled"
        BY <3>2, <1>3 DEF LineageSound, Superseded
      <4>2. supersededBy[u] \in tasks /\ supersededBy[u] # new
        BY <4>1, <3>2, <1>4 DEF tasks
      <4>3. origin'[supersededBy[u]] = "replacement" /\ source'[supersededBy[u]] = u
        BY <4>1, <4>2, <1>2, <1>3, <1>4 DEF GraphOK
      <4>4. supersededBy[u] \in (u + 1)..count'
        BY <4>1, <1>1, <1>4, <3>2 DEF tasks
      <4> QED BY <4>1, <4>3, <4>4, <1>2, <3>2 DEF Superseded
    <3>3. CASE u \in tasks /\ supersededBy[u] = None
      BY <3>3, <1>2, <1>3 DEF LineageSound, Superseded
    <3> QED BY <3>1, <3>2, <3>3, <1>1
  <2>2. ASSUME NEW u \in tasks', NEW v \in tasks',
               origin'[u] = origin'[v], source'[u] = source'[v], source'[u] # None
        PROVE  u = v
    <3>1. \A w \in tasks : origin'[w] = origin[w] /\ source'[w] = source[w]
      BY <1>2, <1>3, <1>4 DEF GraphOK
    <3>2. origin'[new] = "corrective" /\ source'[new] = t
      BY <1>1, <1>2, <1>3 DEF GraphOK
    <3>3. \A w \in tasks : ~ (origin[w] = "corrective" /\ source[w] = t)
      BY <1>0 DEF CorrectiveExists
    <3>4. CASE u \in tasks /\ v \in tasks
      BY <3>1, <3>4, <2>2, <1>3 DEF LineageSound
    <3> QED BY <3>1, <3>2, <3>3, <3>4, <2>2, <1>1
  <2> QED BY <2>1, <2>2 DEF LineageSound
<1> QED BY <1>1, <1>5, <1>6, <1>8, <1>9, <1>10 DEF GraphInv

(* A cancelled source that was current hands the turn to its replacement.  *)
LEMMA ReplacementKeeps ==
  ASSUME GraphInv, NEW t, AddReplacement(t, count + 1)
  PROVE  GraphInv'
<1> DEFINE new == count + 1
<1>0. t \in tasks /\ AddSuccessor(t, new, "replacement") /\ ~ ReplacementExists(t)
  BY DEF AddReplacement, Replaceable
<1>1. /\ count' = new /\ new \in Task
      /\ count' \in Nat /\ BaseTasks <= count' /\ count' <= MaxTasks
      /\ tasks' = tasks \cup {new}
      /\ deps' \in [Task -> SUBSET (tasks')]
      /\ origin' \in [Task -> {"base", "corrective", "replacement"}]
      /\ source' \in [Task -> Task \cup {None}]
      /\ DependenciesAcyclic'
      /\ \A u \in tasks : t \notin deps'[u]
      /\ \A u \in tasks' : \A d \in deps'[u] : d = new \/ d \in tasks \ {t}
  BY <1>0, SuccessorGraph
<1>2. /\ origin' = [origin EXCEPT ![new] = "replacement"]
      /\ source' = [source EXCEPT ![new] = t]
      /\ supersededBy' = [supersededBy EXCEPT ![t] = new]
      /\ status' = [status EXCEPT ![t] = "cancelled"]
      /\ current' = IF current = t THEN new ELSE current
  BY <1>0 DEF AddReplacement, AddSuccessor
<1>3. GraphOK /\ Blank /\ LineageSound /\ NoDependencyOnSuperseded /\ CurrentNotSuperseded
  BY DEF GraphInv
<1>4. /\ count \in Nat /\ new \notin tasks /\ tasks \subseteq Task /\ t # new
      /\ status[t] = "pending"
  BY <1>0, <1>1, <1>3, PropagationAssumption
     DEF GraphOK, tasks, Task, AddReplacement, Replaceable
<1>5. supersededBy[t] = None
  BY <1>0, <1>3, <1>4 DEF LineageSound, Superseded
<1>6. GraphOK'
  BY <1>0, <1>1, <1>2, <1>3, <1>4 DEF GraphOK, Status
<1>7. Blank'
  BY <1>0, <1>1, <1>2, <1>3, <1>4 DEF Blank, GraphOK, Task, tasks
<1>8. supersededBy'[new] = None /\ status'[new] = "pending"
  BY <1>1, <1>2, <1>3, <1>4 DEF Blank, GraphOK, Task
<1>9. \A d \in Task \ {t} : supersededBy'[d] = supersededBy[d] /\ status'[d] = status[d]
  BY <1>2, <1>3 DEF GraphOK
<1>10. NoDependencyOnSuperseded'
  <2> SUFFICES ASSUME NEW u \in tasks', NEW d \in deps'[u]
               PROVE  supersededBy'[d] = None
    BY DEF NoDependencyOnSuperseded, Superseded
  <2>1. CASE d = new
    BY <2>1, <1>8
  <2>2. CASE d \in tasks \ {t}
    <3>1. d \in deps[t] \/ (u \in tasks /\ d \in deps[u])
      BY <2>2, <1>0, <1>1, <1>4 DEF AddSuccessor, Redirected
    <3>2. supersededBy[d] = None
      BY <3>1, <1>0, <1>3 DEF NoDependencyOnSuperseded, Superseded
    <3> QED BY <3>2, <2>2, <1>4, <1>9
  <2> QED BY <2>1, <2>2, <1>1
<1>11. CurrentNotSuperseded'
  BY <1>2, <1>3, <1>4, <1>8, <1>9 DEF CurrentNotSuperseded, Superseded, GraphOK
<1>12. LineageSound'
  <2>1. ASSUME NEW u \in tasks'
        PROVE  /\ status'[u] = "cancelled" <=> Superseded(u)'
               /\ Superseded(u)' => /\ supersededBy'[u] \in (u + 1)..count'
                                    /\ origin'[supersededBy'[u]] = "replacement"
                                    /\ source'[supersededBy'[u]] = u
    <3>1. CASE u = new
      BY <3>1, <1>8 DEF Superseded
    <3>2. CASE u = t
      <4>1. status'[u] = "cancelled" /\ supersededBy'[u] = new
        BY <3>2, <1>0, <1>2, <1>3, <1>4 DEF GraphOK
      <4>2. origin'[new] = "replacement" /\ source'[new] = u
        BY <3>2, <1>1, <1>2, <1>3 DEF GraphOK
      <4>3. new \in (u + 1)..count' /\ new # None
        BY <3>2, <1>0, <1>1, <1>4 DEF tasks, None
      <4> QED BY <4>1, <4>2, <4>3 DEF Superseded
    <3>3. CASE u \in tasks /\ u # t /\ supersededBy[u] # None
      <4>1. /\ supersededBy[u] \in (u + 1)..count
            /\ origin[supersededBy[u]] = "replacement"
            /\ source[supersededBy[u]] = u
            /\ status[u] = "cancelled"
        BY <3>3, <1>3 DEF LineageSound, Superseded
      <4>2. supersededBy[u] \in tasks /\ supersededBy[u] # new
        BY <4>1, <3>3, <1>4 DEF tasks
      <4>3. origin'[supersededBy[u]] = "replacement" /\ source'[supersededBy[u]] = u
        BY <4>1, <4>2, <1>2, <1>3, <1>4 DEF GraphOK
      <4>4. supersededBy[u] \in (u + 1)..count'
        BY <4>1, <1>1, <1>4, <3>3 DEF tasks
      <4>5. supersededBy'[u] = supersededBy[u] /\ status'[u] = status[u]
        BY <3>3, <1>4, <1>9
      <4> QED BY <4>1, <4>3, <4>4, <4>5, <3>3 DEF Superseded
    <3>4. CASE u \in tasks /\ u # t /\ supersededBy[u] = None
      BY <3>4, <1>3, <1>4, <1>9 DEF LineageSound, Superseded
    <3> QED BY <3>1, <3>2, <3>3, <3>4, <1>1
  <2>2. ASSUME NEW u \in tasks', NEW v \in tasks',
               origin'[u] = origin'[v], source'[u] = source'[v], source'[u] # None
        PROVE  u = v
    <3>1. \A w \in tasks : origin'[w] = origin[w] /\ source'[w] = source[w]
      BY <1>2, <1>3, <1>4 DEF GraphOK
    <3>2. origin'[new] = "replacement" /\ source'[new] = t
      BY <1>1, <1>2, <1>3 DEF GraphOK
    <3>3. \A w \in tasks : ~ (origin[w] = "replacement" /\ source[w] = t)
      BY <1>0 DEF ReplacementExists
    <3>4. CASE u \in tasks /\ v \in tasks
      BY <3>1, <3>4, <2>2, <1>3 DEF LineageSound
    <3> QED BY <3>1, <3>2, <3>3, <3>4, <2>2, <1>1
  <2> QED BY <2>1, <2>2 DEF LineageSound
<1> QED BY <1>1, <1>6, <1>7, <1>10, <1>11, <1>12 DEF GraphInv

-----------------------------------------------------------------------------
(* The steps that leave the graph alone.                                   *)
LEMMA AdvancedOpen ==
  ASSUME GraphInv, NEW c \in Advanced
  PROVE  c \in tasks /\ ~ Superseded(c)
<1> DEFINE open  == {t \in tasks : status[t] # "complete" /\ ~ Blocked(t)}
           added == {t \in open : origin[t] # "base"}
<1>1. c \in First(added) \/ c \in First(open) \/ c = current
  BY DEF Advanced
<1>2. c \in open \/ c = current
  BY <1>1 DEF First
<1> QED BY <1>2 DEF Blocked, GraphInv, GraphOK, CurrentNotSuperseded

LEMMA WorkKeeps ==
  ASSUME GraphInv, UNCHANGED graphVars,
         current' \in tasks, ~ Superseded(current'),
         \/ UNCHANGED status
         \/ \E s \in {"in_progress", "complete"} : status' = [status EXCEPT ![current'] = s]
  PROVE  GraphInv'
<1>1. UNCHANGED <<count, deps, origin, source, supersededBy>> /\ tasks' = tasks
  BY DEF graphVars, tasks
<1>2. GraphOK /\ Blank /\ LineageSound /\ NoDependencyOnSuperseded /\ DependenciesAcyclic
  BY DEF GraphInv
<1>3. tasks \subseteq Task /\ \A t \in tasks : t <= count
  BY <1>2, PropagationAssumption DEF GraphOK, tasks, Task
<1>4. status' \in [Task -> Status]
  BY <1>2 DEF GraphOK, Status
<1>5. \A t \in Task : t > count => status'[t] = status[t]
  <2> SUFFICES ASSUME NEW t \in Task, t > count PROVE status'[t] = status[t]
    OBVIOUS
  <2>1. current' # t
    BY <1>2, <1>3, PropagationAssumption DEF GraphOK, Task
  <2> QED BY <2>1, <1>2 DEF GraphOK
<1>6. \A t \in tasks : status'[t] = "cancelled" <=> status[t] = "cancelled"
  BY <1>2, <1>3 DEF GraphOK, LineageSound, Superseded
<1>7. GraphOK' /\ Blank'
  BY <1>1, <1>2, <1>4, <1>5 DEF GraphOK, Blank
<1>8. LineageSound'
  BY <1>1, <1>2, <1>6 DEF LineageSound, Superseded
<1>9. NoDependencyOnSuperseded' /\ DependenciesAcyclic'
  BY <1>1, <1>2 DEF NoDependencyOnSuperseded, Superseded, DependenciesAcyclic, Acyclic
<1>10. CurrentNotSuperseded'
  BY <1>1 DEF CurrentNotSuperseded, Superseded
<1> QED BY <1>7, <1>8, <1>9, <1>10 DEF GraphInv

LEMMA IdleKeeps ==
  ASSUME GraphInv, UNCHANGED <<graphVars, status, current>>
  PROVE  GraphInv'
<1>1. current \in tasks /\ ~ Superseded(current)
  BY DEF GraphInv, GraphOK, CurrentNotSuperseded
<1>2. tasks' = tasks /\ UNCHANGED graphVars /\ UNCHANGED status /\ current' = current
  BY DEF graphVars, tasks
<1> QED BY <1>1, <1>2, WorkKeeps

-----------------------------------------------------------------------------
LEMMA GraphInvInit == Init => GraphInv
<1> SUFFICES ASSUME Init PROVE GraphInv
  OBVIOUS
<1> USE PropagationAssumption
<1>1. PICK g \in Graphs : deps = g.deps
  BY DEF Init
<1>2. count = BaseTasks /\ tasks = 1..BaseTasks /\ BaseTasks \in Nat /\ 1 \in tasks
  BY DEF Init, tasks
<1>3. deps \in [Task -> SUBSET tasks]
  <2>1. g.deps \in [Task -> SUBSET Task]
    BY <1>1
  <2>2. \A t \in Task : g.deps[t] \subseteq 1..BaseTasks
    BY <1>1
  <2> QED BY <1>1, <1>2, <2>1, <2>2
<1>4. GraphOK
  BY <1>2, <1>3 DEF GraphOK, Init, Status
<1>5. Blank
  BY <1>2 DEF Blank, Init
<1>6. tasks \subseteq Task
  BY <1>2 DEF Task
<1>7. LineageSound
  BY <1>6 DEF LineageSound, Init, Superseded
<1>8. NoDependencyOnSuperseded
  BY <1>3, <1>6 DEF NoDependencyOnSuperseded, Init, Superseded
<1>9. CurrentNotSuperseded
  BY <1>2, <1>6 DEF CurrentNotSuperseded, Init, Superseded
<1>10. DependenciesAcyclic
  BY <1>1, <1>2 DEF DependenciesAcyclic
<1> QED BY <1>4, <1>5, <1>7, <1>8, <1>9, <1>10 DEF GraphInv

LEMMA GraphInvStep == GraphInv /\ [Next]_vars => GraphInv'
<1> SUFFICES ASSUME GraphInv, [Next]_vars PROVE GraphInv'
  OBVIOUS
<1>c. current \in tasks /\ ~ Superseded(current)
  BY DEF GraphInv, GraphOK, CurrentNotSuperseded
<1>1. ASSUME NEW done \in BOOLEAN, Execute(done) PROVE GraphInv'
  BY <1>1, <1>c, WorkKeeps DEF Execute
<1>2. ASSUME NEW done \in BOOLEAN, FinishTurn(done) PROVE GraphInv'
  BY <1>2, <1>c, WorkKeeps DEF FinishTurn
<1>3. ASSUME NEW evidence \in BOOLEAN, Resume(evidence) PROVE GraphInv'
  BY <1>3, AdvancedOpen, WorkKeeps DEF Resume
<1>4. ASSUME NEW k \in Key, Supersede(k) PROVE GraphInv'
  BY <1>4, IdleKeeps DEF Supersede
<1>5. CASE Revalidate
  BY <1>5, IdleKeeps DEF Revalidate
<1>6. CASE Correct
  BY <1>6, CorrectiveKeeps DEF Correct
<1>7. CASE Corrected
  <2>1. current' \in tasks /\ ~ Superseded(current')
    BY <1>7, <1>c, AdvancedOpen DEF Corrected
  <2> QED BY <1>7, <2>1, WorkKeeps DEF Corrected
<1>8. CASE Replace
  BY <1>8, ReplacementKeeps DEF Replace
<1>9. CASE Replaced
  <2>1. current' \in tasks /\ ~ Superseded(current')
    BY <1>9, <1>c, AdvancedOpen DEF Replaced
  <2>2. UNCHANGED graphVars /\ UNCHANGED status
    BY <1>9 DEF Replaced
  <2> QED BY <2>1, <2>2, WorkKeeps
<1>10. CASE StopRun
  BY <1>10, IdleKeeps DEF StopRun, EndRun
<1>11. CASE Wave
  <2>1. UNCHANGED <<graphVars, status, current>>
    BY <1>11 DEF Wave
  <2> QED BY <2>1, IdleKeeps
<1>12. CASE Consume
  <2>1. PICK t : \/ AddReplacement(t, count + 1)
                 \/ AddCorrective(t, count + 1)
                 \/ UNCHANGED <<graphVars, status, current>>
    BY <1>12 DEF Consume
  <2> QED BY <2>1, CorrectiveKeeps, ReplacementKeeps, IdleKeeps
<1>13. CASE EndWave
  <2>1. UNCHANGED <<graphVars, status, current>>
    BY <1>13 DEF EndWave, EndRun
  <2> QED BY <2>1, IdleKeeps
<1>14. CASE UNCHANGED vars
  BY <1>14, IdleKeeps DEF vars
<1> QED
  BY <1>1, <1>2, <1>3, <1>4, <1>5, <1>6, <1>7, <1>8, <1>9, <1>10, <1>11, <1>12,
     <1>13, <1>14 DEF Next, Work, Handle

(* The invariant from which the next four theorems follow.                 *)
THEOREM GraphInvariant == Spec => []GraphInv
<1> QED BY GraphInvInit, GraphInvStep, PTL DEF Spec

(* depends_on never becomes cyclic: no sequence of correctives and         *)
(* replacements, on whatever graph the handoff seeded, makes two tasks     *)
(* wait for each other (redirect_depends_on).                              *)
THEOREM DependenciesStayAcyclic == Spec => []DependenciesAcyclic
<1>1. GraphInv => DependenciesAcyclic
  BY DEF GraphInv
<1> QED BY <1>1, GraphInvariant, PTL

(* No task is left waiting for a superseded one (redirect_depends_on with  *)
(* build_pending_replacement_task).                                        *)
THEOREM SupersededNotDependedOn == Spec => []NoDependencyOnSuperseded
<1>1. GraphInv => NoDependencyOnSuperseded
  BY DEF GraphInv
<1> QED BY <1>1, GraphInvariant, PTL

(* Each cancelled task has one replacement, and no task two successors of  *)
(* a kind, whichever of the premise and the wave path made them            *)
(* (_corrective_exists, _pending_replacement_exists).                      *)
THEOREM SupersessionOneToOne == Spec => []LineageSound
<1>1. GraphInv => LineageSound
  BY DEF GraphInv
<1> QED BY <1>1, GraphInvariant, PTL

(* A turn never works on a superseded task (add_pending_replacement,       *)
(* advance_to_open_task).                                                  *)
THEOREM CurrentStaysActive == Spec => []CurrentNotSuperseded
<1>1. GraphInv => CurrentNotSuperseded
  BY DEF GraphInv
<1> QED BY <1>1, GraphInvariant, PTL

-----------------------------------------------------------------------------
(* A task with stale premises has a blocking outcome, except between the   *)
(* decision change and its revalidation; and a task that does not exist    *)
(* yet has no premises that could go stale.                                *)
StaleInv ==
  /\ premises \in [Task -> SUBSET Key]
  /\ unvalidated \in [Task -> SUBSET Key]
  /\ verdict \in [Task -> Outcome \cup {"none"}]
  /\ \A t \in Task : t > count => premises[t] = {} /\ unvalidated[t] = {}
  /\ \A t \in tasks : unvalidated[t] # {} =>
       verdict[t] \in Blocking \/ (pc = "revalidate" /\ verdict[t] = "none")

LEMMA StaleInvInit == Init => StaleInv
<1> SUFFICES ASSUME Init PROVE StaleInv
  OBVIOUS
<1> USE PropagationAssumption
<1>1. PICK g \in Graphs : premises = g.premises
  BY DEF Init
<1>2. g.premises \in [Task -> SUBSET Key]
  BY <1>1
<1>3. \A t \in Task : t > count => g.premises[t] = {}
  BY <1>1 DEF Init, Task
<1>4. tasks \subseteq Task
  BY DEF Init, tasks, Task
<1> QED BY <1>1, <1>2, <1>3, <1>4 DEF StaleInv, Init

(* A new task starts with the premises of its source, all validated.       *)
LEMMA StaleInvSuccessor ==
  ASSUME GraphInv, StaleInv, NEW t \in tasks, NEW who, AddSuccessor(t, count + 1, who),
         UNCHANGED <<unvalidated, verdict, pc>>
  PROVE  StaleInv'
<1> USE PropagationAssumption
<1>1. count \in Nat /\ count' = count + 1 /\ tasks \subseteq Task /\ count + 1 \in Task
  BY DEF GraphInv, GraphOK, AddSuccessor, tasks, Task
<1>2. tasks' = tasks \cup {count + 1}
  BY <1>1 DEF tasks
<1>3. premises' = [premises EXCEPT ![count + 1] = premises[t]]
  BY DEF AddSuccessor
<1>4. premises' \in [Task -> SUBSET Key]
  BY <1>1, <1>3 DEF StaleInv
<1>5. ASSUME NEW u \in Task, u > count' PROVE premises'[u] = {} /\ unvalidated'[u] = {}
  <2>1. u > count /\ u # count + 1
    BY <1>5, <1>1 DEF Task
  <2> QED BY <2>1, <1>3 DEF StaleInv
<1>6. unvalidated[count + 1] = {}
  BY <1>1 DEF StaleInv
<1> QED BY <1>2, <1>4, <1>5, <1>6 DEF StaleInv

LEMMA StaleInvIdle ==
  ASSUME StaleInv, UNCHANGED <<count, premises, unvalidated, verdict>>,
         pc = "revalidate" => pc' = "revalidate"
  PROVE  StaleInv'
<1>1. tasks' = tasks
  BY DEF tasks
<1> QED BY <1>1 DEF StaleInv

LEMMA StaleInvStep == GraphInv /\ StaleInv /\ [Next]_vars => StaleInv'
<1> SUFFICES ASSUME GraphInv, StaleInv, [Next]_vars PROVE StaleInv'
  OBVIOUS
<1>c. count \in Nat /\ tasks \subseteq Task /\ \A t \in tasks : ~ (t > count)
  BY PropagationAssumption DEF GraphInv, GraphOK, tasks, Task
<1>1. CASE Work
  BY <1>1, StaleInvIdle
     DEF Work, Execute, FinishTurn, Resume, graphVars, premiseVars, turnVars
<1>2. ASSUME NEW k \in Key, Supersede(k) PROVE StaleInv'
  <2>1. /\ pc' = "revalidate" /\ pc = "idle"
        /\ UNCHANGED <<count, premises>> /\ tasks' = tasks
    BY <1>2 DEF Supersede, graphVars, tasks
  <2>2. unvalidated' = [t \in Task |-> unvalidated[t] \cup ({k} \cap premises[t])]
    BY <1>2 DEF Supersede
  <2>3. verdict' = [t \in Task |-> RefreshedVerdict(t, k)]
    BY <1>2 DEF Supersede
  <2>4. unvalidated' \in [Task -> SUBSET Key]
    BY <2>2 DEF StaleInv
  <2>5. verdict' \in [Task -> Outcome \cup {"none"}]
    BY <2>3 DEF StaleInv, RefreshedVerdict
  <2>6. \A t \in Task : t > count => premises[t] = {} /\ unvalidated'[t] = {}
    BY <2>2 DEF StaleInv
  <2>7. ASSUME NEW t \in tasks, unvalidated'[t] # {}
        PROVE  verdict'[t] \in Blocking \/ verdict'[t] = "none"
    <3>1. CASE k \in premises[t]
      BY <3>1, <2>3, <1>c DEF RefreshedVerdict
    <3>2. CASE k \notin premises[t]
      <4>1. unvalidated[t] # {} /\ verdict'[t] = verdict[t]
        BY <3>2, <2>2, <2>3, <2>7, <1>c DEF RefreshedVerdict
      <4> QED BY <4>1, <2>1 DEF StaleInv
    <3> QED BY <3>1, <3>2
  <2> QED BY <2>1, <2>4, <2>5, <2>6, <2>7 DEF StaleInv
<1>3. CASE Revalidate
  <2> DEFINE stale == {t \in tasks : unvalidated[t] # {} /\ verdict[t] = "none"}
  <2>1. PICK o \in [stale -> Outcome] :
          /\ verdict' = [t \in Task |-> IF t \in stale THEN o[t] ELSE verdict[t]]
          /\ unvalidated' = [t \in Task |->
               IF t \in stale /\ o[t] = "still_valid" THEN {} ELSE unvalidated[t]]
    BY <1>3 DEF Revalidate
  <2>2. UNCHANGED <<count, premises>> /\ tasks' = tasks
    BY <1>3 DEF Revalidate, graphVars, tasks
  <2>3. verdict' \in [Task -> Outcome \cup {"none"}]
    BY <2>1 DEF StaleInv
  <2>4. unvalidated' \in [Task -> SUBSET Key]
    BY <2>1 DEF StaleInv
  <2>5. \A t \in Task : t > count => premises[t] = {} /\ unvalidated'[t] = {}
    BY <2>1 DEF StaleInv
  <2>6. ASSUME NEW t \in tasks, unvalidated'[t] # {} PROVE verdict'[t] \in Blocking
    <3>1. t \in Task /\ unvalidated[t] # {}
      BY <2>1, <2>6, <1>c
    <3>2. CASE t \in stale
      <4>1. o[t] \in Outcome /\ o[t] # "still_valid" /\ verdict'[t] = o[t]
        BY <3>1, <3>2, <2>1, <2>6
      <4> QED BY <4>1 DEF Outcome, Blocking, Corrective
    <3>3. CASE t \notin stale
      BY <3>1, <3>3, <2>1 DEF StaleInv
    <3> QED BY <3>2, <3>3
  <2> QED BY <2>2, <2>3, <2>4, <2>5, <2>6 DEF StaleInv
<1>4. CASE Correct
  BY <1>4, StaleInvSuccessor DEF Correct, AddCorrective, Correctable, premiseVars
<1>5. CASE Replace
  BY <1>5, StaleInvSuccessor DEF Replace, AddReplacement, Replaceable, premiseVars
<1>6. CASE Consume
  <2>1. UNCHANGED <<unvalidated, verdict, pc>>
    BY <1>6 DEF Consume, premiseVars
  <2>2. PICK t : \/ AddReplacement(t, count + 1)
                 \/ AddCorrective(t, count + 1)
                 \/ UNCHANGED graphVars
    BY <1>6 DEF Consume
  <2>3. CASE AddReplacement(t, count + 1)
    BY <2>1, <2>3, StaleInvSuccessor DEF AddReplacement, Replaceable
  <2>4. CASE AddCorrective(t, count + 1)
    BY <2>1, <2>4, StaleInvSuccessor DEF AddCorrective, Correctable
  <2>5. CASE UNCHANGED graphVars
    BY <2>1, <2>5, StaleInvIdle DEF graphVars
  <2> QED BY <2>2, <2>3, <2>4, <2>5
<1>7. CASE Corrected
  BY <1>7, StaleInvIdle DEF Corrected, graphVars, premiseVars
<1>8. CASE Replaced
  <2>1. UNCHANGED <<count, premises, unvalidated, verdict>> /\ pc = "replace"
    BY <1>8 DEF Replaced, graphVars, premiseVars
  <2> QED BY <2>1, StaleInvIdle
<1>9. CASE StopRun
  BY <1>9, StaleInvIdle DEF StopRun, EndRun, graphVars, premiseVars
<1>10. CASE Wave
  <2>1. UNCHANGED <<count, premises, unvalidated, verdict>> /\ pc = "wave"
    BY <1>10 DEF Wave, graphVars, premiseVars
  <2> QED BY <2>1, StaleInvIdle
<1>11. CASE EndWave
  <2>1. UNCHANGED <<count, premises, unvalidated, verdict>> /\ pc = "consume"
    BY <1>11 DEF EndWave, EndRun, graphVars, premiseVars
  <2> QED BY <2>1, StaleInvIdle
<1>12. CASE UNCHANGED vars
  BY <1>12, StaleInvIdle DEF vars, graphVars, premiseVars, turnVars
<1> QED
  BY <1>1, <1>2, <1>3, <1>4, <1>5, <1>6, <1>7, <1>8, <1>9, <1>10, <1>11, <1>12
     DEF Next, Handle

LEMMA StaleInvariant == Spec => []StaleInv
  BY GraphInvariant, StaleInvInit, StaleInvStep, PTL DEF Spec

(* Whatever decisions are superseded, in whatever order, and whatever the  *)
(* judge says, no open task runs on premises that are not validated        *)
(* (refresh_task_revalidation, run_premise_revalidations,                  *)
(* premise_blocks_execution).                                              *)
THEOREM StalePremisesBlock == Spec => []StaleTasksBlocked
<1>1. StaleInv => StaleTasksBlocked
  <2> SUFFICES ASSUME StaleInv, pc = "idle", NEW t \in tasks,
                      status[t] \in {"pending", "in_progress"}, unvalidated[t] # {}
               PROVE  Blocked(t)
    BY DEF StaleTasksBlocked
  <2>1. verdict[t] \in Blocking
    BY DEF StaleInv
  <2> QED BY <2>1 DEF Blocked, PremiseBlocked
<1> QED BY <1>1, StaleInvariant, PTL

-----------------------------------------------------------------------------
(* Induction over task ids, and functions that are defined along them.     *)

(* A set of task ids that contains every task whose later tasks it         *)
(* contains holds all of them, and the same with the earlier tasks:        *)
(* induction over the ids, with a set for the induction hypothesis.        *)
LEMMA LeastElement ==
  ASSUME NEW T, T \subseteq Nat, T # {}
  PROVE  \E x \in T : \A y \in T : x <= y
<1> DEFINE R == OpToRel(<, Nat)
<1>1. IsWellFoundedOn(R, Nat)
  BY NatLessThanWellFounded
<1>2. \A x, y \in Nat : x < y => <<x, y>> \in R
  BY DEF OpToRel
<1> HIDE DEF R
<1>3. PICK x \in T : \A y \in T : ~ (<<y, x>> \in R)
  BY <1>1, WFMin
<1>4. \A y \in T : ~ (y < x)
  BY <1>2, <1>3
<1> QED BY <1>3, <1>4

LEMMA AscendingInduction ==
  ASSUME NEW n \in Nat, NEW X,
         \A t \in 1..n : (\A u \in 1..(t - 1) : u \in X) => t \in X
  PROVE  \A t \in 1..n : t \in X
<1> DEFINE rest == (1..n) \ X
<1>1. SUFFICES ASSUME rest # {} PROVE FALSE
  OBVIOUS
<1>2. PICK t \in rest : \A u \in rest : t <= u
  <2>1. rest \subseteq Nat
    OBVIOUS
  <2> QED BY <1>1, <2>1, LeastElement
<1>3. \A u \in 1..(t - 1) : u \in X
  BY <1>2
<1> QED BY <1>2, <1>3

LEMMA DescendingInduction ==
  ASSUME NEW n \in Nat, NEW X,
         \A t \in 1..n : (\A u \in (t + 1)..n : u \in X) => t \in X
  PROVE  \A t \in 1..n : t \in X
<1> DEFINE rest == {t \in 1..n : n + 1 - t \notin X}
<1>1. SUFFICES ASSUME NEW t \in 1..n, t \notin X PROVE FALSE
  OBVIOUS
<1>2. n + 1 - t \in rest
  <2>1. n + 1 - (n + 1 - t) = t
    OBVIOUS
  <2> QED BY <2>1, <1>1
<1>3. PICK r \in rest : \A u \in rest : r <= u
  <2>1. rest \subseteq Nat
    OBVIOUS
  <2>2. rest # {}
    BY <1>2
  <2> QED BY <2>1, <2>2, LeastElement
<1>4. \A u \in (n + 1 - r + 1)..n : u \in X
  <2> SUFFICES ASSUME NEW u \in (n + 1 - r + 1)..n, u \notin X PROVE FALSE
    OBVIOUS
  <2>1. n + 1 - u \in 1..n /\ n + 1 - u < r /\ n + 1 - (n + 1 - u) = u
    BY <1>3
  <2> QED BY <2>1, <1>3
<1> QED BY <1>3, <1>4

LEMMA ForwardFunction ==
  ASSUME NEW n \in Nat, NEW S, \A t \in 1..n : S[t] # None => S[t] \in (t + 1)..n
  PROVE  \E f : f = [t \in 1..n |-> IF S[t] # None THEN f[S[t]] ELSE t]
<1> DEFINE On(k, f) == f = [t \in k..n |-> IF S[t] # None THEN f[S[t]] ELSE t]
           X == {k \in 1..n : \E f : On(k, f)}
<1>1. CASE n = 0
  <2>1. On(1, [t \in 1..n |-> t])
    BY <1>1
  <2> QED BY <2>1
<1>2. CASE n # 0
  <2>1. ASSUME NEW k \in 1..n, \A u \in (k + 1)..n : u \in X
        PROVE  k \in X
    <3>1. PICK g : On(k + 1, g)
      <4>1. CASE k = n
        <5>1. On(k + 1, [t \in (k + 1)..n |-> t])
          BY <4>1
        <5> QED BY <5>1
      <4>2. CASE k # n
        BY <4>2, <2>1
      <4> QED BY <4>1, <4>2
    <3> DEFINE f == [t \in k..n |-> IF t = k THEN IF S[k] # None THEN g[S[k]] ELSE k
                                    ELSE g[t]]
    <3>2. \A t \in (k + 1)..n : f[t] = g[t]
      OBVIOUS
    <3>3. ASSUME NEW t \in k..n
          PROVE  f[t] = IF S[t] # None THEN f[S[t]] ELSE t
      <4>1. S[t] # None => S[t] \in (k + 1)..n
        OBVIOUS
      <4>2. CASE t = k
        BY <4>1, <4>2, <3>2
      <4>3. CASE t # k
        <5>1. t \in (k + 1)..n
          BY <4>3
        <5>2. g[t] = IF S[t] # None THEN g[S[t]] ELSE t
          BY <5>1, <3>1
        <5> QED BY <5>1, <5>2, <4>1, <3>2
      <4> QED BY <4>2, <4>3
    <3>4. On(k, f)
      BY <3>3
    <3> QED BY <3>4
  <2>2. 1 \in X
    <3> HIDE DEF X
    <3>1. \A t \in 1..n : t \in X
      BY <2>1, DescendingInduction, Zenon
    <3> QED BY <3>1, <1>2
  <2> QED BY <2>2
<1> QED BY <1>1, <1>2

LEMMA BackwardFunction ==
  ASSUME NEW n \in Nat, NEW S, \A t \in 1..n : S[t] # None => S[t] \in 1..(t - 1)
  PROVE  \E f : f = [t \in 1..n |-> {t} \cup IF S[t] = None THEN {} ELSE f[S[t]]]
<1> DEFINE On(k, f) == f = [t \in 1..k |-> {t} \cup IF S[t] = None THEN {} ELSE f[S[t]]]
           X == {k \in 1..n : \E f : On(k, f)}
<1>1. CASE n = 0
  <2>1. On(n, [t \in 1..n |-> {}])
    BY <1>1
  <2> QED BY <2>1
<1>2. CASE n # 0
  <2>1. ASSUME NEW k \in 1..n, \A u \in 1..(k - 1) : u \in X
        PROVE  k \in X
    <3>1. PICK g : On(k - 1, g)
      <4>1. CASE k = 1
        <5>1. On(k - 1, [t \in 1..(k - 1) |-> {}])
          BY <4>1
        <5> QED BY <5>1
      <4>2. CASE k # 1
        <5> HIDE DEF X
        <5>0. k - 1 \in 1..(k - 1)
          BY <4>2
        <5>1. k - 1 \in X
          BY <5>0, <2>1
        <5> USE DEF X
        <5> QED BY <5>1
      <4> QED BY <4>1, <4>2
    <3> DEFINE f == [t \in 1..k |-> IF t = k
                       THEN {k} \cup IF S[k] = None THEN {} ELSE g[S[k]] ELSE g[t]]
    <3>2. \A t \in 1..(k - 1) : f[t] = g[t]
      OBVIOUS
    <3>3. ASSUME NEW t \in 1..k
          PROVE  f[t] = {t} \cup IF S[t] = None THEN {} ELSE f[S[t]]
      <4>1. S[t] # None => S[t] \in 1..(k - 1)
        OBVIOUS
      <4>2. CASE t = k
        BY <4>1, <4>2, <3>2
      <4>3. CASE t # k
        <5>1. t \in 1..(k - 1)
          BY <4>3
        <5>2. g[t] = {t} \cup IF S[t] = None THEN {} ELSE g[S[t]]
          BY <5>1, <3>1
        <5> QED BY <5>1, <5>2, <4>1, <3>2
      <4> QED BY <4>2, <4>3
    <3>4. On(k, f)
      BY <3>3
    <3> QED BY <3>4
  <2>2. n \in X
    <3> HIDE DEF X
    <3>1. \A t \in 1..n : t \in X
      BY <2>1, AscendingInduction, Zenon
    <3> QED BY <3>1, <1>2
  <2> QED BY <2>2
<1> QED BY <1>1, <1>2

-----------------------------------------------------------------------------
(* Lineage: the active successor of a task and the tasks it was made from. *)

LEMMA ActiveEquation ==
  ASSUME GraphInv
  PROVE  Active = [t \in Task |-> IF Superseded(t) THEN Active[supersededBy[t]] ELSE t]
<1>1. \A t \in 1..MaxTasks : supersededBy[t] # None => supersededBy[t] \in (t + 1)..MaxTasks
  <2> SUFFICES ASSUME NEW t \in 1..MaxTasks, supersededBy[t] # None
               PROVE  supersededBy[t] \in (t + 1)..MaxTasks
    OBVIOUS
  <2>1. t \in tasks
    BY PropagationAssumption DEF GraphInv, GraphOK, Blank, tasks, Task
  <2>2. supersededBy[t] \in (t + 1)..count
    BY <2>1 DEF GraphInv, LineageSound, Superseded
  <2> QED BY <2>2, PropagationAssumption DEF GraphInv, GraphOK
<1>2. \E f : f = [t \in 1..MaxTasks |->
                    IF supersededBy[t] # None THEN f[supersededBy[t]] ELSE t]
  <2>1. MaxTasks \in Nat
    BY PropagationAssumption
  <2> QED BY <1>1, <2>1, ForwardFunction, Zenon
<1>3. \E f : f = [t \in Task |-> IF Superseded(t) THEN f[supersededBy[t]] ELSE t]
  BY <1>2 DEF Task, Superseded
<1> QED BY <1>3, Zenon DEF Active

(* The source of a task is an earlier one.                                 *)
SourceEarlier ==
  \A t \in Task : source[t] # None => source[t] \in 1..(t - 1)

LEMMA LineageEquation ==
  ASSUME SourceEarlier
  PROVE  Lineage = [t \in Task |->
                      {t} \cup (IF source[t] = None THEN {} ELSE Lineage[source[t]])]
<1>1. \E f : f = [t \in 1..MaxTasks |->
                    {t} \cup IF source[t] = None THEN {} ELSE f[source[t]]]
  BY BackwardFunction, PropagationAssumption DEF SourceEarlier, Task
<1>2. \E f : f = [t \in Task |-> {t} \cup (IF source[t] = None THEN {} ELSE f[source[t]])]
  BY <1>1 DEF Task
<1> QED BY <1>2, Zenon DEF Lineage

(* Lineage leads from a task to a task that is not superseded, and not     *)
(* back; a task that is not superseded is its own active successor.        *)
LEMMA ActiveSound ==
  ASSUME GraphInv, NEW t \in tasks
  PROVE  /\ Active[t] \in tasks /\ t <= Active[t]
         /\ ~ Superseded(Active[t])
         /\ ~ Superseded(t) => Active[t] = t
<1> DEFINE X == {u \in tasks : /\ Active[u] \in tasks /\ u <= Active[u]
                               /\ ~ Superseded(Active[u])
                               /\ ~ Superseded(u) => Active[u] = u}
<1>1. count \in Nat /\ tasks \subseteq Task
  BY PropagationAssumption DEF GraphInv, GraphOK, tasks, Task
<1>2. \A u \in tasks : Active[u] = IF Superseded(u) THEN Active[supersededBy[u]] ELSE u
  BY <1>1, ActiveEquation
<1>3. ASSUME NEW u \in 1..count, \A v \in (u + 1)..count : v \in X
      PROVE  u \in X
  <2>1. u \in tasks
    BY DEF tasks
  <2>2. CASE ~ Superseded(u)
    BY <2>1, <2>2, <1>2 DEF tasks
  <2>3. CASE Superseded(u)
    <3>1. supersededBy[u] \in (u + 1)..count
      BY <2>1, <2>3 DEF GraphInv, LineageSound
    <3>2. supersededBy[u] \in X
      BY <3>1, <1>3
    <3>3. Active[u] = Active[supersededBy[u]]
      BY <2>1, <2>3, <1>2
    <3>4. u <= Active[u]
      <4>1. supersededBy[u] <= Active[supersededBy[u]] /\ Active[supersededBy[u]] \in 1..count
        BY <3>2 DEF tasks
      <4> QED BY <4>1, <3>1, <3>3, <1>1
    <3> QED BY <3>2, <3>3, <3>4, <2>1, <2>3
  <2> QED BY <2>2, <2>3
<1>4. \A u \in 1..count : u \in X
  <2> HIDE DEF X
  <2> QED BY <1>1, <1>3, DescendingInduction, Zenon
<1>5. t \in X
  <2> HIDE DEF X
  <2> QED BY <1>4 DEF tasks
<1> QED BY <1>5 DEF Superseded

-----------------------------------------------------------------------------
(* Types of what a turn computes with.                                     *)

(* A change names a task and a later one that takes its place.             *)
Replacing == {c \in tasks \X tasks : c[1] < c[2]}

VerdictOf == Outcome \cup {"no_wave", "pending"}

RunType ==
  [changes : SUBSET Replacing, processed : SUBSET SUBSET Replacing,
   visited : SUBSET (Task \X SUBSET Change), wave : Nat,
   rows : UNION {[D -> VerdictOf] : D \in SUBSET tasks},
   successors : SUBSET Replacing, held : SUBSET Task]

(* What a wave writes has its type, and what it works from, the changes    *)
(* with the successors consumed before, names existing tasks in the order  *)
(* they were made.                                                         *)
WaveTyped ==
  /\ upstream \in [Task -> SUBSET Change]
  /\ judged \in [Task -> SUBSET Change]
  /\ waveVerdict \in [Task -> VerdictOf]
  /\ guard \in [converged : BOOLEAN, held : SUBSET Task]
  /\ changes \in 0..MaxChanges
  /\ pc \in {"idle", "revalidate", "correct", "replace", "wave", "consume"}

ConsumedSound ==
  /\ consumed \in [Task -> [successor : Task \cup {None}, set : SUBSET Change]]
  /\ \A t \in Task : consumed[t].successor # None =>
       consumed[t].successor \in tasks /\ source[consumed[t].successor] = t

ChangesSound ==
  /\ SourceEarlier
  /\ ConsumedSound
  /\ rows \subseteq tasks
  /\ fresh \subseteq Replacing
  /\ run \in RunType

WaveInv == WaveTyped /\ ChangesSound

LEMMA TasksBelow ==
  ASSUME GraphInv
  PROVE  count \in Nat /\ count <= MaxTasks /\ MaxTasks \in Nat /\ tasks \subseteq Task
         /\ \A t \in tasks : t \in Nat /\ t <= count
  BY PropagationAssumption DEF GraphInv, GraphOK, tasks, Task

LEMMA NoRunTyped == NoRun \in RunType
<1>1. [t \in {} |-> "pending"] \in [{} -> VerdictOf]
  OBVIOUS
<1>2. {} \in SUBSET tasks
  OBVIOUS
<1>3. [t \in {} |-> "pending"] \in UNION {[D -> VerdictOf] : D \in SUBSET tasks}
  BY <1>1, <1>2
<1> QED BY <1>3 DEF NoRun, RunType

(* What lineage resolves names existing tasks in their order too.          *)
LEMMA ResolvedSound ==
  ASSUME GraphInv, NEW C \in SUBSET Replacing
  PROVE  Resolved(C) \subseteq Replacing
<1> SUFFICES ASSUME NEW e \in Resolved(C) PROVE e \in Replacing
  OBVIOUS
<1>1. PICK c \in C : e = <<c[1], Active[c[2]]>>
  BY DEF Resolved
<1>2. c[1] \in tasks /\ c[2] \in tasks /\ c[1] < c[2]
  BY DEF Replacing
<1>3. Active[c[2]] \in tasks /\ c[2] <= Active[c[2]]
  BY <1>2, ActiveSound
<1>4. c[1] < Active[c[2]]
  BY <1>2, <1>3, TasksBelow
<1> QED BY <1>1, <1>2, <1>3, <1>4 DEF Replacing

Downstream == {d \in tasks : ChangesFor(d, run.changes) # {}}

LEMMA ChangesForSubset ==
  ASSUME NEW d, NEW C
  PROVE  ChangesFor(d, C) \subseteq C
  BY DEF ChangesFor

(* What one wave does.                                                     *)
LEMMA WaveEffect ==
  ASSUME WaveInv, GraphInv, Wave
  PROVE  /\ pc = "wave" /\ ~ Stopped /\ pc' = "consume"
         /\ upstream' = [d \in Task |-> IF d \in Downstream
                            THEN upstream[d] \cup ChangesFor(d, run.changes) ELSE upstream[d]]
         /\ judged' \in [Task -> SUBSET Change]
         /\ waveVerdict' \in [Task -> VerdictOf]
         /\ rows' = Downstream
         /\ run' = [run EXCEPT !.processed = @ \cup {run.changes},
                               !.visited = @ \cup {<<d, ChangesFor(d, run.changes)>> : d \in Downstream},
                               !.rows = [d \in Downstream |-> waveVerdict'[d]],
                               !.successors = {}]
         /\ UNCHANGED <<graphVars, status, premiseVars, consumed, current, guard, changes, fresh>>
<1> DEFINE C == run.changes
           merged(d)  == upstream[d] \cup ChangesFor(d, C)
           kept(d)    == judged[d] = merged(d) /\ waveVerdict[d] \in Outcome
           held(d)    == IF kept(d) THEN waveVerdict[d] ELSE "pending"
           visit(d)   == <<d, ChangesFor(d, C)>>
           asked      == {d \in Downstream : /\ visit(d) \notin run.visited
                                             /\ ~ (kept(d) /\ judged[d] = ChangesFor(d, C))}
<1>1. /\ pc = "wave" /\ ~ Stopped /\ pc' = "consume"
      /\ UNCHANGED <<graphVars, status, premiseVars, consumed, current, guard, changes, fresh>>
  BY DEF Wave
<1>2. PICK o \in [asked -> Outcome] :
        /\ upstream' = [d \in Task |-> IF d \in Downstream THEN merged(d) ELSE upstream[d]]
        /\ judged' = [d \in Task |->
             IF d \in asked \/ (d \in Downstream /\ kept(d)) THEN merged(d)
             ELSE IF d \in Downstream THEN {} ELSE judged[d]]
        /\ waveVerdict' = [d \in Task |->
             IF d \in asked THEN o[d]
             ELSE IF d \in Downstream THEN held(d) ELSE waveVerdict[d]]
        /\ rows' = Downstream
        /\ run' = [run EXCEPT !.processed = @ \cup {C},
                              !.visited = @ \cup {visit(d) : d \in Downstream},
                              !.rows = [d \in Downstream |-> waveVerdict'[d]],
                              !.successors = {}]
  BY DEF Wave, Downstream
<1>3. C \subseteq Change
  BY TasksBelow DEF WaveInv, ChangesSound, RunType, Replacing, Change
<1>4. \A d \in Task : merged(d) \in SUBSET Change
  BY <1>3, ChangesForSubset DEF WaveInv, WaveTyped
<1>5. judged' \in [Task -> SUBSET Change]
  <2> HIDE DEF merged, kept, asked
  <2> QED BY <1>2, <1>4 DEF WaveInv, WaveTyped
<1>6. waveVerdict' \in [Task -> VerdictOf]
  <2>1. \A d \in Task : held(d) \in VerdictOf
    BY DEF VerdictOf
  <2> HIDE DEF held, kept, asked
  <2> QED BY <1>2, <2>1 DEF WaveInv, WaveTyped, VerdictOf
<1> QED BY <1>1, <1>2, <1>5, <1>6

LEMMA RunTypeGrows ==
  ASSUME tasks \subseteq tasks', run' = run, run \in RunType
  PROVE  run' \in (RunType)'
<1>1. Replacing \subseteq Replacing'
  BY DEF Replacing
<1>2. UNION {[D -> VerdictOf] : D \in SUBSET tasks} \subseteq UNION {[D -> VerdictOf] : D \in SUBSET tasks'}
  OBVIOUS
<1>3. VerdictOf' = VerdictOf /\ Change' = Change /\ Task' = Task
  BY DEF VerdictOf, Outcome, Change, Task
<1> QED BY <1>1, <1>2 DEF RunType, VerdictOf

(* What a new task adds: a change from its source to it.                   *)
LEMMA SuccessorSource ==
  ASSUME GraphInv, SourceEarlier, NEW t \in tasks, NEW who \in {"corrective", "replacement"},
         AddSuccessor(t, count + 1, who)
  PROVE  /\ SourceEarlier' /\ tasks \subseteq tasks' /\ Replacing \subseteq Replacing'
         /\ <<t, count + 1>> \in Replacing' /\ source'[count + 1] = t
         /\ count + 1 \in tasks' /\ count + 1 \notin tasks /\ tasks' = tasks \cup {count + 1}
         /\ \A u \in tasks : source'[u] = source[u]
<1>1. /\ tasks' = tasks \cup {count + 1} /\ count + 1 \in Task
      /\ source' \in [Task -> Task \cup {None}]
  BY SuccessorGraph
<1>2. source' = [source EXCEPT ![count + 1] = t]
  BY DEF AddSuccessor
<1>3. source \in [Task -> Task \cup {None}]
  BY DEF GraphInv, GraphOK
<1>4. count \in Nat /\ t <= count /\ t \in 1..count /\ count + 1 \notin tasks
  BY TasksBelow DEF tasks
<1>5. source'[count + 1] = t /\ \A u \in Task \ {count + 1} : source'[u] = source[u]
  BY <1>1, <1>2, <1>3
<1>6. SourceEarlier'
  BY <1>4, <1>5 DEF SourceEarlier
<1>7. \A u \in tasks : source'[u] = source[u]
  BY <1>4, <1>5, TasksBelow
<1>8. Replacing \subseteq Replacing'
  BY <1>1 DEF Replacing
<1>9. <<t, count + 1>> \in Replacing'
  BY <1>1, <1>4 DEF Replacing
<1> QED BY <1>1, <1>4, <1>5, <1>6, <1>7, <1>8, <1>9

LEMMA SuccessorConsumed ==
  ASSUME GraphInv, ChangesSound, NEW t \in tasks, NEW who \in {"corrective", "replacement"},
         AddSuccessor(t, count + 1, who), UNCHANGED consumed
  PROVE  ConsumedSound'
<1>1. tasks \subseteq tasks' /\ \A u \in tasks : source'[u] = source[u]
  BY SuccessorSource DEF ChangesSound
<1> QED BY <1>1 DEF ChangesSound, ConsumedSound, Change

(* Steps that leave the graph and the changes of the turn alone.           *)
LEMMA ChangesKept ==
  ASSUME ChangesSound, UNCHANGED <<count, source, consumed>>,
         rows' \subseteq tasks, fresh' \subseteq Replacing, run' \in RunType
  PROVE  ChangesSound'
<1>1. tasks' = tasks /\ Replacing' = Replacing
  BY DEF tasks, Replacing
<1>2. RunType' = RunType
  BY <1>1 DEF RunType, VerdictOf, Outcome, Change, Task
<1> QED BY <1>1, <1>2 DEF ChangesSound, SourceEarlier, ConsumedSound, Change

LEMMA ChangesAdded ==
  ASSUME GraphInv, ChangesSound, NEW t, NEW who \in {"corrective", "replacement"}, t \in tasks,
         AddSuccessor(t, count + 1, who), UNCHANGED <<consumed, rows, run>>,
         fresh' = fresh \cup {<<t, count + 1>>}
  PROVE  ChangesSound'
<1>1. /\ SourceEarlier' /\ tasks \subseteq tasks' /\ Replacing \subseteq Replacing'
      /\ <<t, count + 1>> \in Replacing'
  BY SuccessorSource DEF ChangesSound
<1>2. ConsumedSound'
  BY SuccessorConsumed
<1>3. run' \in RunType'
  BY <1>1, RunTypeGrows DEF ChangesSound
<1> QED BY <1>1, <1>2, <1>3 DEF ChangesSound

LEMMA WaveInvInit == Init => WaveInv
<1> SUFFICES ASSUME Init PROVE WaveInv
  OBVIOUS
<1>1. NoRun \in RunType
  BY NoRunTyped
<1>2. WaveTyped
  BY PropagationAssumption DEF WaveTyped, Init, VerdictOf
<1>3. ChangesSound
  BY <1>1 DEF ChangesSound, Init, SourceEarlier, ConsumedSound, NotConsumed, None
<1> QED BY <1>2, <1>3 DEF WaveInv

LEMMA HeldTyped ==
  ASSUME GraphInv, ChangesSound
  PROVE  Held \subseteq Task
<1>1. DOMAIN run.rows \subseteq tasks
  <2>1. PICK D \in SUBSET tasks : run.rows \in [D -> VerdictOf]
    BY DEF ChangesSound, RunType
  <2> QED BY <2>1
<1>2. \A d \in DOMAIN run.rows : Active[d] \in Task
  BY <1>1, ActiveSound, TasksBelow
<1> QED BY <1>2 DEF Held

LEMMA WaveTypedStep == GraphInv /\ WaveInv /\ [Next]_vars => WaveTyped'
<1> SUFFICES ASSUME GraphInv, WaveInv, [Next]_vars PROVE WaveTyped'
  OBVIOUS
<1> USE DEF WaveInv
<1>1. CASE Work
  BY <1>1 DEF Work, Execute, FinishTurn, Resume, WaveTyped, waveVars, turnVars, VerdictOf, Outcome, Change, Task
<1>2. ASSUME NEW k \in Key, Supersede(k) PROVE WaveTyped'
  <2>1. changes' \in 0..MaxChanges
    BY <1>2, PropagationAssumption DEF Supersede, WaveTyped
  <2> QED BY <1>2, <2>1 DEF Supersede, WaveTyped, waveVars, VerdictOf, Outcome, Change, Task
<1>3. CASE Revalidate \/ Correct \/ Corrected \/ Replace \/ Replaced
  BY <1>3 DEF Revalidate, Correct, Corrected, Replace, Replaced, WaveTyped, waveVars, VerdictOf, Outcome, Change, Task
<1>4. ASSUME NEW converged \in BOOLEAN, NEW held \in SUBSET Task, EndRun(converged, held)
      PROVE  WaveTyped'
  BY <1>4 DEF EndRun, WaveTyped, waveVars, VerdictOf, Outcome, Change, Task
<1>5. run.held \in SUBSET Task /\ Held \in SUBSET Task
  BY HeldTyped DEF ChangesSound, RunType
<1>6. CASE StopRun
  BY <1>4, <1>5, <1>6 DEF StopRun
<1>7. CASE Wave
  <2>1. /\ pc' = "consume" /\ UNCHANGED <<guard, changes>>
        /\ judged' \in [Task -> SUBSET Change] /\ waveVerdict' \in [Task -> VerdictOf]
    BY <1>7, WaveEffect
  <2>2. upstream' = [d \in Task |-> IF d \in Downstream
                       THEN upstream[d] \cup ChangesFor(d, run.changes) ELSE upstream[d]]
    BY <1>7, WaveEffect
  <2>3. run.changes \subseteq Change
    BY TasksBelow DEF ChangesSound, RunType, Replacing, Change
  <2>4. upstream' \in [Task -> SUBSET Change]
    BY <2>2, <2>3, ChangesForSubset DEF WaveTyped
  <2> QED BY <2>1, <2>4 DEF WaveTyped, VerdictOf, Outcome, Change, Task
<1>8. CASE Consume
  BY <1>8 DEF Consume, WaveTyped, VerdictOf, Outcome, Change, Task
<1>9. CASE EndWave
  <2>1. CASE NextChanges = {}
    BY <1>4, <1>5, <1>9, <2>1 DEF EndWave
  <2>2. CASE NextChanges # {}
    BY <1>9, <2>2 DEF EndWave, WaveTyped, waveVars, VerdictOf, Outcome, Change, Task
  <2> QED BY <2>1, <2>2
<1>10. CASE UNCHANGED vars
  BY <1>10 DEF vars, WaveTyped, waveVars, turnVars, VerdictOf, Outcome, Change, Task
<1> QED
  BY <1>1, <1>2, <1>3, <1>6, <1>7, <1>8, <1>9, <1>10 DEF Next, Handle

LEMMA ChangesSoundStep == GraphInv /\ WaveInv /\ [Next]_vars => ChangesSound'
<1> SUFFICES ASSUME GraphInv, WaveInv, [Next]_vars PROVE ChangesSound'
  OBVIOUS
<1>c. ChangesSound /\ rows \subseteq tasks /\ fresh \subseteq Replacing /\ run \in RunType
  BY DEF WaveInv, ChangesSound
<1>1. CASE UNCHANGED <<graphVars, consumed, rows, fresh, run>>
  BY <1>1, <1>c, ChangesKept DEF graphVars
<1>2. CASE Revalidate
  <2>1. rows' \subseteq tasks
    BY <1>2 DEF Revalidate
  <2> QED BY <1>2, <2>1, <1>c, ChangesKept DEF Revalidate, graphVars, waveVars
<1>3. CASE Correct
  BY <1>3, <1>c, ChangesAdded DEF Correct, AddCorrective, Correctable, waveVars
<1>4. CASE Replace
  BY <1>4, <1>c, ChangesAdded DEF Replace, AddReplacement, Replaceable, waveVars
<1>5. CASE Replaced
  <2>1. Resolved(fresh) \subseteq Replacing
    BY <1>c, ResolvedSound
  <2>2. [NoRun EXCEPT !.changes = Resolved(fresh)] \in RunType
    BY <2>1, NoRunTyped DEF RunType
  <2>3. run' \in RunType /\ rows' = {} /\ fresh' = {} /\ UNCHANGED <<count, source, consumed>>
    BY <1>5, <2>2, <1>c DEF Replaced, graphVars, waveVars
  <2> QED BY <2>3, <1>c, ChangesKept
<1>6. ASSUME NEW converged, NEW held, EndRun(converged, held) PROVE ChangesSound'
  BY <1>6, <1>c, NoRunTyped, ChangesKept DEF EndRun, graphVars, waveVars
<1>7. CASE StopRun
  BY <1>6, <1>7 DEF StopRun
<1>8. CASE Wave
  <2> DEFINE seen == {<<d, ChangesFor(d, run.changes)>> : d \in Downstream}
             verdicts == [d \in Downstream |-> waveVerdict'[d]]
  <2>1. run.changes \in SUBSET Replacing /\ run.changes \subseteq Change
    BY <1>c, TasksBelow DEF RunType, Replacing, Change
  <2>2. seen \subseteq Task \X SUBSET Change
    BY <2>1, ChangesForSubset, TasksBelow DEF Downstream
  <2>3. Downstream \in SUBSET tasks /\ verdicts \in [Downstream -> VerdictOf]
    BY <1>8, WaveEffect, TasksBelow DEF Downstream
  <2>4. verdicts \in UNION {[D -> VerdictOf] : D \in SUBSET tasks}
    BY <2>3
  <2>5. run' = [run EXCEPT !.processed = @ \cup {run.changes}, !.visited = @ \cup seen,
                           !.rows = verdicts, !.successors = {}]
    BY <1>8, WaveEffect
  <2>6. rows' = Downstream /\ UNCHANGED <<graphVars, consumed, fresh>>
    BY <1>8, WaveEffect
  <2> HIDE DEF seen, verdicts
  <2>7. run' \in RunType
    BY <2>1, <2>2, <2>4, <2>5, <1>c DEF RunType
  <2> QED BY <2>3, <2>6, <2>7, <1>c, ChangesKept DEF graphVars
<1>9. CASE Consume
  <2>1. PICK t \in First(rows) :
       /\ rows' = rows \ {t}
       /\ \/ /\ AddReplacement(t, count + 1) \/ AddCorrective(t, count + 1)
             /\ consumed' = [consumed EXCEPT ![t] = [successor |-> count + 1, set |-> judged[t]]]
             /\ run' = [run EXCEPT !.successors = @ \cup {<<t, count + 1>>}]
          \/ /\ consumed[t].successor # None
             /\ run' = [run EXCEPT !.successors = @ \cup {<<t, consumed[t].successor>>}]
             /\ UNCHANGED <<graphVars, status, current, consumed>>
          \/ UNCHANGED <<graphVars, status, current, consumed, run>>
    BY <1>9 DEF Consume
  <2>2. t \in tasks /\ t \in Task /\ fresh' = fresh
    BY <2>1, <1>9, <1>c, TasksBelow DEF First, Consume
  <2>3. CASE /\ AddReplacement(t, count + 1) \/ AddCorrective(t, count + 1)
             /\ consumed' = [consumed EXCEPT ![t] = [successor |-> count + 1, set |-> judged[t]]]
             /\ run' = [run EXCEPT !.successors = @ \cup {<<t, count + 1>>}]
    <3>1. PICK who \in {"corrective", "replacement"} : AddSuccessor(t, count + 1, who)
      BY <2>3 DEF AddReplacement, AddCorrective
    <3>2. /\ SourceEarlier' /\ tasks \subseteq tasks' /\ Replacing \subseteq Replacing'
          /\ <<t, count + 1>> \in Replacing' /\ source'[count + 1] = t
          /\ count + 1 \in tasks' /\ count + 1 \notin tasks
          /\ \A u \in tasks : source'[u] = source[u]
      BY <2>2, <3>1, <1>c, SuccessorSource DEF ChangesSound
    <3>3. run \in RunType'
      BY <1>c, <3>2 DEF RunType, VerdictOf, Outcome, Change, Task
    <3>4. run' \in RunType'
      BY <2>3, <3>2, <3>3 DEF RunType
    <3>5. count + 1 \in Task
      BY <3>1, <2>2, SuccessorGraph
    <3>6. consumed' \in [Task -> [successor : Task \cup {None}, set : SUBSET Change]]
      BY <2>3, <3>5, <1>c DEF ChangesSound, ConsumedSound, WaveInv, WaveTyped
    <3>7. ASSUME NEW u \in Task, consumed'[u].successor # None
          PROVE  consumed'[u].successor \in tasks' /\ source'[consumed'[u].successor] = u
      <4>1. CASE u = t
        BY <2>3, <3>2, <4>1, <1>c DEF ChangesSound, ConsumedSound
      <4>2. CASE u # t
        BY <2>3, <3>2, <3>7, <4>2, <1>c DEF ChangesSound, ConsumedSound
      <4> QED BY <4>1, <4>2
    <3>8. ConsumedSound'
      BY <3>6, <3>7 DEF ConsumedSound, Change
    <3> QED BY <2>1, <2>2, <3>2, <3>4, <3>8, <1>c DEF ChangesSound
  <2>4. CASE /\ consumed[t].successor # None
             /\ run' = [run EXCEPT !.successors = @ \cup {<<t, consumed[t].successor>>}]
             /\ UNCHANGED <<graphVars, status, current, consumed>>
    <3> DEFINE e == consumed[t].successor
    <3>1. e \in tasks /\ source[e] = t
      BY <2>2, <2>4, <1>c DEF ChangesSound, ConsumedSound
    <3>2. t \in 1..(e - 1)
      BY <2>2, <3>1, <1>c, TasksBelow DEF ChangesSound, SourceEarlier, None, tasks
    <3>3. <<t, e>> \in Replacing
      BY <2>2, <3>1, <3>2, TasksBelow DEF Replacing
    <3>4. run' \in RunType
      BY <2>4, <3>3, <1>c DEF RunType
    <3>5. rows' \subseteq tasks
      BY <2>1, <1>c
    <3> QED BY <2>2, <2>4, <3>4, <3>5, <1>c, ChangesKept DEF graphVars
  <2>5. CASE UNCHANGED <<graphVars, status, current, consumed, run>>
    BY <2>1, <2>2, <2>5, <1>c, ChangesKept DEF graphVars
  <2> QED BY <2>1, <2>3, <2>4, <2>5
<1>10. CASE EndWave
  <2>1. CASE NextChanges = {}
    BY <1>6, <1>10, <2>1 DEF EndWave
  <2>2. CASE NextChanges # {}
    <3>1. NextChanges \in SUBSET Replacing
      BY <1>c, ResolvedSound DEF NextChanges, RunType
    <3>2. run.held \cup Held \in SUBSET Task
      BY <1>c, HeldTyped DEF RunType
    <3>3. /\ run' = [run EXCEPT !.held = run.held \cup Held, !.changes = NextChanges, !.wave = @ + 1]
          /\ UNCHANGED <<graphVars, consumed, rows, fresh>>
      BY <1>10, <2>2 DEF EndWave, waveVars
    <3>4. run' \in RunType
      <4> DEFINE held == run.held \cup Held
                 next == NextChanges
                 wave == run.wave + 1
      <4>1. held \in SUBSET Task /\ next \in SUBSET Replacing /\ wave \in Nat
        BY <3>1, <3>2, <1>c DEF RunType
      <4>2. run' = [run EXCEPT !.held = held, !.changes = next, !.wave = wave]
        BY <3>3
      <4> HIDE DEF held, next, wave
      <4> QED BY <4>1, <4>2, <1>c DEF RunType
    <3> QED BY <3>3, <3>4, <1>c, ChangesKept DEF graphVars
  <2> QED BY <2>1, <2>2
<1>11. CASE Work
  BY <1>1, <1>11 DEF Work, Execute, FinishTurn, Resume, waveVars, turnVars
<1>12. CASE (\E k \in Key : Supersede(k)) \/ Corrected
  BY <1>1, <1>12 DEF Supersede, Corrected, waveVars
<1>13. CASE UNCHANGED vars
  BY <1>1, <1>13 DEF vars, waveVars, turnVars
<1> QED
  BY <1>2, <1>3, <1>4, <1>5, <1>7, <1>8, <1>9, <1>10, <1>11, <1>12, <1>13 DEF Next, Handle

LEMMA WaveInvariant == Spec => []WaveInv
<1>1. GraphInv /\ WaveInv /\ [Next]_vars => WaveInv'
  BY WaveTypedStep, ChangesSoundStep DEF WaveInv
<1> QED BY <1>1, WaveInvInit, GraphInvariant, PTL DEF Spec

(* Every variable keeps its type: ids name existing tasks, the changes of  *)
(* the turn are pairs of tasks, current_task_id is a task, and an outcome  *)
(* is one the code knows (run_task_change_propagation and the replans).    *)
THEOREM TypeCorrect == Spec => []TypeOK
<1>1. GraphInv /\ StaleInv /\ WaveInv => TypeOK
  <2> SUFFICES ASSUME GraphInv, StaleInv, WaveInv PROVE TypeOK
    OBVIOUS
  <2>1. fresh \subseteq Change
    BY TasksBelow DEF WaveInv, ChangesSound, Replacing, Change
  <2>2. count \in BaseTasks..MaxTasks
    BY PropagationAssumption DEF GraphInv, GraphOK
  <2> QED
    BY <2>1, <2>2 DEF TypeOK, GraphInv, GraphOK, StaleInv, WaveInv, WaveTyped,
       ChangesSound, ConsumedSound, VerdictOf
<1> QED BY <1>1, GraphInvariant, StaleInvariant, WaveInvariant, PTL

-----------------------------------------------------------------------------
(* Ranks: a successor has the rank of its source, a dependent a higher one. *)

(* An acyclic graph of n tasks can be ranked with the numbers below n so   *)
(* that a task ranks above what it depends on.                             *)
LEMMA AcyclicRanked ==
  ASSUME NEW n \in Nat \ {0}, NEW D, \A u \in 1..n : D[u] \subseteq 1..n, Acyclic(D, 1..n)
  PROVE  \E r \in [1..n -> 0..(n - 1)] : \A u \in 1..n : \A d \in D[u] : r[d] < r[u]
<1> DEFINE Ranked(S, r) == \A u \in S : D[u] \subseteq S /\ \A d \in D[u] : r[d] < r[u]
           Some(k) == \E S \in SUBSET (1..n) :
                        /\ Cardinality(S) = k
                        /\ \E r \in [S -> 0..(k - 1)] : Ranked(S, r)
           X == {k \in 1..n : Some(k)}
<1>1. /\ IsFiniteSet(1..n) /\ Cardinality(1..n) = n
      /\ \A S \in SUBSET (1..n) : IsFiniteSet(S) /\ (Cardinality(S) = n => S = 1..n)
  <2>1. 1 \in Int /\ n \in Int /\ n - 1 + 1 = n /\ ~ (1 > n)
    OBVIOUS
  <2>2. IsFiniteSet(1..n) /\ Cardinality(1..n) = n
    BY <2>1, FS_Interval
  <2> QED BY <2>2, FS_Subset
<1>2. ASSUME NEW k \in 1..n, \A j \in 1..(k - 1) : j \in X
      PROVE  k \in X
  <2>1. Some(k - 1)
    <3>1. CASE k = 1
      <4>1. Cardinality({}) = 0 /\ {} \in SUBSET (1..n)
        BY FS_EmptySet
      <4>2. [u \in {} |-> 0] \in [{} -> 0..(0 - 1)] /\ Ranked({}, [u \in {} |-> 0])
        OBVIOUS
      <4>3. Some(0)
        BY <4>1, <4>2
      <4> QED BY <3>1, <4>3
    <3>2. CASE k # 1
      <4>1. k - 1 \in 1..(k - 1)
        BY <3>2
      <4>2. k - 1 \in X
        <5> HIDE DEF X
        <5> QED BY <4>1, <1>2
      <4> QED BY <4>2
    <3> QED BY <3>1, <3>2
  <2>2. PICK S \in SUBSET (1..n) :
          /\ Cardinality(S) = k - 1
          /\ \E r \in [S -> 0..(k - 1 - 1)] : Ranked(S, r)
    BY <2>1
  <2>3. PICK r \in [S -> 0..(k - 1 - 1)] : Ranked(S, r)
    BY <2>2
  <2>4. (1..n) \ S # {}
    <3>1. S # 1..n
      BY <2>2, <1>1
    <3> QED BY <3>1
  <2>5. PICK m \in (1..n) \ S : D[m] \cap ((1..n) \ S) = {}
    BY <2>4 DEF Acyclic
  <2> DEFINE T == S \cup {m}
             q == [u \in T |-> IF u = m THEN k - 1 ELSE r[u]]
  <2>6. T \in SUBSET (1..n) /\ Cardinality(T) = k
    BY <2>2, <2>5, <1>1, FS_AddElement
  <2>7. q \in [T -> 0..(k - 1)]
    BY <2>3, <2>5
  <2>8. Ranked(T, q)
    <3> SUFFICES ASSUME NEW u \in T PROVE D[u] \subseteq S /\ \A d \in D[u] : q[d] < q[u]
      OBVIOUS
    <3>1. CASE u = m
      <4>1. D[u] \subseteq S
        BY <3>1, <2>5
      <4>2. \A d \in S : q[d] \in 0..(k - 1 - 1) /\ q[m] = k - 1
        BY <2>3, <2>5
      <4> QED BY <4>1, <4>2, <3>1
    <3>2. CASE u # m
      <4>1. u \in S /\ D[u] \subseteq S /\ \A d \in D[u] : r[d] < r[u]
        BY <3>2, <2>3
      <4>2. \A d \in S : q[d] = r[d]
        BY <2>5
      <4> QED BY <4>1, <4>2
    <3> QED BY <3>1, <3>2
  <2>9. Some(k)
    <3> HIDE DEF Ranked, T, q
    <3> QED BY <2>6, <2>7, <2>8
  <2> QED BY <2>9
<1>3. n \in X
  <2> HIDE DEF X
  <2>1. \A k \in 1..n : k \in X
    BY <1>2, AscendingInduction, Zenon
  <2> QED BY <2>1
<1>4. PICK S \in SUBSET (1..n) :
        Cardinality(S) = n /\ \E r \in [S -> 0..(n - 1)] : Ranked(S, r)
  BY <1>3
<1>5. S = 1..n
  BY <1>4, <1>1
<1> QED BY <1>4, <1>5

(* The rank of a task, kept by its successors.                             *)
Rank == [Task -> 0..(BaseTasks - 1)]

Ranks(r) ==
  /\ \A u \in tasks : \A d \in deps[u] : r[d] < r[u]
  /\ \A u \in tasks : source[u] # None => r[source[u]] = r[u]

LEMMA RanksInit ==
  ASSUME Init
  PROVE  \E r \in Rank : Ranks(r)
<1> USE PropagationAssumption
<1>1. PICK g \in Graphs : deps = g.deps
  BY DEF Init
<1>2. tasks = 1..BaseTasks /\ BaseTasks \in Nat \ {0} /\ 1..BaseTasks \subseteq Task
  BY DEF Init, tasks, Task
<1>3. /\ Acyclic(deps, 1..BaseTasks)
      /\ \A u \in 1..BaseTasks : deps[u] \subseteq 1..BaseTasks
  BY <1>1, <1>2
<1>4. PICK q \in [1..BaseTasks -> 0..(BaseTasks - 1)] :
        \A u \in 1..BaseTasks : \A d \in deps[u] : q[d] < q[u]
  BY <1>2, <1>3, AcyclicRanked
<1> DEFINE r == [t \in Task |-> IF t \in 1..BaseTasks THEN q[t] ELSE 0]
<1>5. r \in Rank
  BY <1>4 DEF Rank
<1>6. Ranks(r)
  BY <1>2, <1>3, <1>4 DEF Ranks, Init
<1> QED BY <1>5, <1>6

LEMMA RanksSuccessor ==
  ASSUME GraphInv, SourceEarlier, NEW t \in tasks, NEW who \in {"corrective", "replacement"},
         AddSuccessor(t, count + 1, who),
         NEW r \in Rank, Ranks(r)
  PROVE  \E q \in Rank : /\ Ranks(q)' /\ q[count + 1] = r[t]
                          /\ \A u \in tasks : q[u] = r[u]
<1> DEFINE new == count + 1
<1>0. PICK q : q = [r EXCEPT ![new] = r[t]]
  OBVIOUS
<1>1. /\ tasks' = tasks \cup {new} /\ new \notin tasks
      /\ source'[new] = t /\ \A u \in tasks : source'[u] = source[u]
  BY SuccessorSource
<1>2. tasks \subseteq Task /\ new \in Task
  BY TasksBelow, SuccessorGraph
<1>3. q \in Rank /\ q[new] = r[t] /\ \A u \in tasks : q[u] = r[u]
  BY <1>0, <1>1, <1>2 DEF Rank
<1>4. deps' = [u \in Task |-> IF u = new THEN deps[t] \ {t} ELSE Redirected(deps[u], t, new)]
  BY DEF AddSuccessor
<1>5. \A u \in tasks : deps[u] \subseteq tasks
  BY <1>2 DEF GraphInv, GraphOK
<1>6. ASSUME NEW u \in tasks', NEW d \in deps'[u] PROVE q[d] < q[u]
  <2>1. CASE u = new
    BY <2>1, <1>2, <1>3, <1>4, <1>5, <1>6 DEF Ranks
  <2>2. CASE u # new
    <3>1. u \in tasks /\ d \in Redirected(deps[u], t, new)
      BY <2>2, <1>1, <1>2, <1>4, <1>6
    <3>2. d \in deps[u] \/ (t \in deps[u] /\ d = new)
      BY <3>1 DEF Redirected
    <3>3. CASE d \in deps[u]
      BY <3>1, <3>3, <1>3, <1>5 DEF Ranks
    <3>4. CASE t \in deps[u] /\ d = new
      BY <3>1, <3>4, <1>3, <1>5 DEF Ranks
    <3> QED BY <3>2, <3>3, <3>4
  <2> QED BY <2>1, <2>2
<1>7. ASSUME NEW u \in tasks', source'[u] # None PROVE q[source'[u]] = q[u]
  <2>1. CASE u = new
    BY <2>1, <1>1, <1>3
  <2>2. CASE u # new
    <3>1. u \in tasks /\ source[u] # None /\ source'[u] = source[u]
      BY <2>2, <1>1, <1>7
    <3>2. u \in 1..count /\ source[u] \in 1..(u - 1) /\ count \in Nat
      BY <3>1, <1>2, TasksBelow DEF SourceEarlier, tasks
    <3>3. source[u] \in tasks
      BY <3>2 DEF tasks
    <3> QED BY <3>1, <3>3, <1>3 DEF Ranks
  <2> QED BY <2>1, <2>2
<1>8. Ranks(q)'
  BY <1>6, <1>7 DEF Ranks
<1> QED BY <1>3, <1>8

(* Lineage keeps the rank.                                                 *)
LEMMA ActiveRank ==
  ASSUME GraphInv, NEW r \in Rank, Ranks(r), NEW t \in tasks
  PROVE  r[Active[t]] = r[t]
<1> DEFINE X == {u \in tasks : r[Active[u]] = r[u]}
<1>1. count \in Nat /\ tasks \subseteq Task
  BY TasksBelow
<1>2. \A u \in tasks : Active[u] = IF Superseded(u) THEN Active[supersededBy[u]] ELSE u
  BY <1>1, ActiveEquation
<1>3. ASSUME NEW u \in 1..count, \A v \in (u + 1)..count : v \in X
      PROVE  u \in X
  <2>1. u \in tasks
    BY DEF tasks
  <2>2. CASE ~ Superseded(u)
    BY <2>1, <2>2, <1>2
  <2>3. CASE Superseded(u)
    <3>1. supersededBy[u] \in (u + 1)..count /\ source[supersededBy[u]] = u
      BY <2>1, <2>3 DEF GraphInv, LineageSound
    <3>2. supersededBy[u] \in X
      BY <3>1, <1>3
    <3>3. Active[u] = Active[supersededBy[u]]
      BY <2>1, <2>3, <1>2
    <3>4. u # None
      BY DEF None
    <3>5. r[supersededBy[u]] = r[u]
      BY <3>1, <3>2, <3>4 DEF Ranks
    <3> QED BY <3>2, <3>3, <3>5, <2>1
  <2> QED BY <2>2, <2>3
<1>4. \A u \in 1..count : u \in X
  <2> HIDE DEF X
  <2> QED BY <1>1, <1>3, DescendingInduction, Zenon
<1>5. t \in X
  <2> HIDE DEF X
  <2> QED BY <1>4 DEF tasks
<1> QED BY <1>5

-----------------------------------------------------------------------------
(* A run works its way up the ranks.                                       *)

(* The tasks whose changes the run has yet to look at, and the number of   *)
(* waves it has begun.                                                     *)
Ahead == IF pc = "wave" THEN {c[1] : c \in run.changes}
         ELSE rows \cup {c[1] : c \in run.successors}
Begun == IF pc = "wave" THEN run.wave ELSE run.wave + 1

(* Every change set that was processed has a change that ranks below all   *)
(* that is ahead, and each wave begun has raised what is ahead by a rank.  *)
RunRanked(r) ==
  /\ \A c \in fresh \cup run.changes \cup run.successors : r[c[1]] = r[c[2]]
  /\ pc = "wave" => run.changes # {}
  /\ pc \in {"wave", "consume"} =>
       /\ \A P \in run.processed : \E c \in P : \A x \in Ahead : r[c[1]] < r[x]
       /\ \A x \in Ahead : Begun <= r[x]

RankInv == \E r \in Rank : Ranks(r) /\ RunRanked(r)

LEMMA RanksKept ==
  ASSUME NEW r, Ranks(r), UNCHANGED <<count, deps, source>>
  PROVE  Ranks(r)'
<1>1. tasks' = tasks
  BY DEF tasks
<1> QED BY <1>1 DEF Ranks

LEMMA RankInvInit == Init => RankInv
<1> SUFFICES ASSUME Init PROVE RankInv
  OBVIOUS
<1>1. PICK r \in Rank : Ranks(r)
  BY RanksInit
<1>2. RunRanked(r)
  BY DEF RunRanked, Init, NoRun
<1> QED BY <1>1, <1>2 DEF RankInv

(* A task downstream of the changes ranks above one of them.               *)
LEMMA DownstreamAbove ==
  ASSUME GraphInv, NEW r \in Rank, Ranks(r), run \in RunType,
         \A c \in run.changes : r[c[1]] = r[c[2]], NEW d \in Downstream
  PROVE  \E c \in run.changes : r[c[1]] < r[d]
<1>1. PICK c \in ChangesFor(d, run.changes) : TRUE
  BY DEF Downstream
<1>2. c \in run.changes /\ c[1] \in tasks /\ c[2] \in tasks
  BY <1>1, ChangesForSubset DEF RunType, Replacing
<1>3. PICK t \in {c[1], Active[c[1]], c[2], Active[c[2]]} :
        \E u \in Dependents(t) : Active[u] = d
  BY <1>1 DEF ChangesFor
<1>4. PICK u \in Dependents(t) : Active[u] = d
  BY <1>3
<1>5. u \in tasks /\ t \in deps[u]
  BY <1>4 DEF Dependents
<1>6. r[t] = r[c[1]]
  BY <1>2, <1>3, ActiveRank
<1>7. r[t] < r[u]
  BY <1>5 DEF Ranks
<1>8. r[d] = r[u]
  BY <1>4, <1>5, ActiveRank
<1> QED BY <1>2, <1>6, <1>7, <1>8

LEMMA RanksWave ==
  ASSUME GraphInv, WaveInv, NEW r \in Rank, Ranks(r), RunRanked(r), Wave
  PROVE  RunRanked(r)'
<1>1. /\ pc = "wave" /\ pc' = "consume" /\ rows' = Downstream
      /\ run' = [run EXCEPT !.processed = @ \cup {run.changes},
                            !.visited = @ \cup {<<d, ChangesFor(d, run.changes)>> : d \in Downstream},
                            !.rows = [d \in Downstream |-> waveVerdict'[d]],
                            !.successors = {}]
      /\ fresh' = fresh
  BY WaveEffect
<1>2. run \in RunType /\ run.wave \in Nat /\ run.changes \subseteq Replacing
      /\ run.processed \in SUBSET SUBSET Replacing
  BY DEF WaveInv, ChangesSound, RunType
<1>3. /\ run'.processed = run.processed \cup {run.changes}
      /\ run'.changes = run.changes /\ run'.successors = {} /\ run'.wave = run.wave
  BY <1>1, <1>2 DEF RunType
<1>4. \A c \in Replacing : c[1] \in Task /\ r[c[1]] \in 0..(BaseTasks - 1)
  BY TasksBelow DEF Replacing, Rank
<1>r. BaseTasks \in Nat /\ \A d \in Downstream : d \in Task /\ r[d] \in 0..(BaseTasks - 1)
  BY TasksBelow, PropagationAssumption DEF Downstream, Rank
<1>5. PICK m \in run.changes : \A c \in run.changes : r[m[1]] <= r[c[1]]
  <2> DEFINE T == {r[c[1]] : c \in run.changes}
  <2>1. T \subseteq Nat
    BY <1>2, <1>4, <1>r
  <2>2. T # {}
    BY <1>1 DEF RunRanked
  <2>3. PICK x \in T : \A y \in T : x <= y
    BY <2>1, <2>2, LeastElement
  <2> QED BY <2>3
<1>6. ASSUME NEW d \in Downstream PROVE r[m[1]] < r[d]
  <2>1. \A c \in run.changes : r[c[1]] = r[c[2]]
    BY DEF RunRanked
  <2>2. PICK c \in run.changes : r[c[1]] < r[d]
    BY <2>1, <1>2, DownstreamAbove
  <2> QED BY <2>2, <1>2, <1>4, <1>5, <1>r
<1>7. Ahead' = Downstream /\ Begun' = run.wave + 1
  BY <1>1, <1>3 DEF Ahead, Begun
<1>8. m[1] \in Ahead /\ Begun = run.wave
  BY <1>1, <1>5 DEF Ahead, Begun
<1>9. ASSUME NEW P \in run'.processed
      PROVE  \E c \in P : \A x \in Downstream : r[c[1]] < r[x]
  <2>1. CASE P = run.changes
    BY <2>1, <1>5, <1>6
  <2>2. CASE P \in run.processed
    <3>1. PICK c \in P : r[c[1]] < r[m[1]]
      BY <2>2, <1>1, <1>8 DEF RunRanked
    <3>2. c \in Replacing
      BY <2>2, <1>2
    <3> QED BY <3>1, <3>2, <1>2, <1>4, <1>5, <1>6, <1>r
  <2> QED BY <2>1, <2>2, <1>3
<1>10. ASSUME NEW x \in Downstream PROVE run.wave + 1 <= r[x]
  <2>1. run.wave <= r[m[1]]
    BY <1>1, <1>8 DEF RunRanked
  <2>2. r[m[1]] < r[x]
    BY <1>6
  <2> QED BY <2>1, <2>2, <1>2, <1>4, <1>5, <1>r
<1>11. \A c \in (fresh \cup run.changes \cup run.successors)' : r[c[1]] = r[c[2]]
  BY <1>1, <1>3 DEF RunRanked
<1> QED BY <1>1, <1>7, <1>9, <1>10, <1>11 DEF RunRanked

(* Consuming the outcome of a task moves it from the rows to the sources   *)
(* of the successors, if it moves it at all.                               *)
LEMMA RanksConsume ==
  ASSUME GraphInv, WaveInv, RankInv, Consume
  PROVE  RankInv'
<1>1. PICK t \in First(rows) :
     /\ rows' = rows \ {t}
     /\ \/ /\ AddReplacement(t, count + 1) \/ AddCorrective(t, count + 1)
           /\ run' = [run EXCEPT !.successors = @ \cup {<<t, count + 1>>}]
        \/ /\ consumed[t].successor # None
           /\ run' = [run EXCEPT !.successors = @ \cup {<<t, consumed[t].successor>>}]
           /\ UNCHANGED graphVars
        \/ UNCHANGED <<graphVars, run>>
  BY DEF Consume
<1>2. pc = "consume" /\ pc' = "consume" /\ fresh' = fresh
  BY DEF Consume
<1>3. /\ rows \subseteq tasks /\ run \in RunType /\ fresh \subseteq Replacing
      /\ t \in tasks /\ t \in rows /\ t \in Task
  BY <1>1, TasksBelow DEF WaveInv, ChangesSound, First
<1>4. PICK r \in Rank : Ranks(r) /\ RunRanked(r)
  BY DEF RankInv
<1>5. /\ run.changes \subseteq Replacing /\ run.successors \subseteq Replacing
      /\ run.processed \subseteq SUBSET Replacing
      /\ \A c \in Replacing : c[1] \in tasks /\ c[2] \in tasks
  BY <1>3 DEF RunType, Replacing
<1>6. Ahead \subseteq tasks /\ Ahead = rows \cup {c[1] : c \in run.successors}
      /\ Begun = run.wave + 1
  BY <1>2, <1>3, <1>5 DEF Ahead, Begun
(* What holds of r holds of a ranking that agrees on the existing tasks.   *)
<1>7. ASSUME NEW q, \A u \in tasks : q[u] = r[u], NEW S,
             run' = [run EXCEPT !.successors = S],
             S = run.successors \/ \E e : S = run.successors \cup {<<t, e>>} /\ q[t] = q[e]
      PROVE  RunRanked(q)'
  <2>1. run'.successors = S /\ run'.changes = run.changes
        /\ run'.processed = run.processed /\ run'.wave = run.wave
    BY <1>3, <1>7 DEF RunType
  <2>2. Begun' = Begun /\ Ahead' \subseteq Ahead
    <3>1. Ahead' = (rows \ {t}) \cup {c[1] : c \in S}
      BY <1>1, <1>2, <2>1 DEF Ahead
    <3>2. {c[1] : c \in S} \subseteq {c[1] : c \in run.successors} \cup {t}
      BY <1>7
    <3> QED BY <3>1, <3>2, <1>2, <1>3, <1>6, <2>1 DEF Begun
  <2>3. \A c \in fresh' \cup run'.changes \cup run'.successors : q[c[1]] = q[c[2]]
    BY <1>2, <1>3, <1>4, <1>5, <1>7, <2>1 DEF RunRanked
  <2>4. ASSUME NEW P \in run'.processed PROVE \E c \in P : \A x \in Ahead' : q[c[1]] < q[x]
    <3>1. PICK c \in P : \A x \in Ahead : r[c[1]] < r[x]
      BY <1>2, <1>4, <2>1 DEF RunRanked
    <3>2. c[1] \in tasks
      BY <1>5, <2>1
    <3> QED BY <3>1, <3>2, <1>6, <1>7, <2>2
  <2>5. \A x \in Ahead' : Begun' <= q[x]
    BY <1>2, <1>4, <1>6, <1>7, <2>2 DEF RunRanked
  <2> QED BY <1>2, <2>3, <2>4, <2>5 DEF RunRanked
<1>8. CASE /\ AddReplacement(t, count + 1) \/ AddCorrective(t, count + 1)
           /\ run' = [run EXCEPT !.successors = @ \cup {<<t, count + 1>>}]
  <2>1. PICK who \in {"corrective", "replacement"} : AddSuccessor(t, count + 1, who)
    BY <1>8 DEF AddReplacement, AddCorrective
  <2>2. PICK q \in Rank : Ranks(q)' /\ q[count + 1] = r[t] /\ \A u \in tasks : q[u] = r[u]
    BY <1>3, <1>4, <2>1, RanksSuccessor DEF WaveInv, ChangesSound
  <2>3. RunRanked(q)'
    BY <1>3, <1>7, <1>8, <2>2
  <2> QED BY <2>2, <2>3 DEF RankInv
<1>9. CASE /\ consumed[t].successor # None
           /\ run' = [run EXCEPT !.successors = @ \cup {<<t, consumed[t].successor>>}]
           /\ UNCHANGED graphVars
  <2> DEFINE e == consumed[t].successor
  <2>1. e \in tasks /\ source[e] = t
    BY <1>3, <1>9 DEF WaveInv, ChangesSound, ConsumedSound
  <2>2. t # None
    BY <1>3 DEF tasks, None
  <2>3. r[e] = r[t]
    BY <1>4, <2>1, <2>2 DEF Ranks
  <2>4. RunRanked(r)'
    BY <1>7, <1>9, <2>3
  <2> QED BY <1>4, <1>9, <2>4, RanksKept DEF RankInv, graphVars
<1>10. CASE UNCHANGED <<graphVars, run>>
  <2>1. run' = [run EXCEPT !.successors = run.successors]
    BY <1>3, <1>10 DEF RunType
  <2>2. RunRanked(r)'
    BY <1>7, <2>1
  <2> QED BY <1>4, <1>10, <2>2, RanksKept DEF RankInv, graphVars
<1> QED BY <1>1, <1>8, <1>9, <1>10

LEMMA RunRankedQuiet ==
  ASSUME NEW r, RunRanked(r), UNCHANGED <<fresh, run>>, pc' \notin {"wave", "consume"}
  PROVE  RunRanked(r)'
  BY DEF RunRanked

(* Lineage keeps the rank of a change.                                     *)
LEMMA ResolvedRank ==
  ASSUME GraphInv, NEW r \in Rank, Ranks(r), NEW C \in SUBSET Replacing,
         \A c \in C : r[c[1]] = r[c[2]], NEW e \in Resolved(C)
  PROVE  r[e[1]] = r[e[2]] /\ \E c \in C : c[1] = e[1]
<1>1. PICK c \in C : e = <<c[1], Active[c[2]]>>
  BY DEF Resolved
<1>2. c[2] \in tasks
  BY DEF Replacing
<1> QED BY <1>1, <1>2, ActiveRank

LEMMA RanksReplaced ==
  ASSUME GraphInv, WaveInv, NEW r \in Rank, Ranks(r), RunRanked(r), Replaced
  PROVE  RunRanked(r)'
<1>1. fresh' = {} /\ rows' = {} /\ fresh \subseteq Replacing
  BY DEF Replaced, WaveInv, ChangesSound
<1>2. CASE fresh = {}
  <2>1. pc' = "idle" /\ UNCHANGED run
    BY <1>2 DEF Replaced
  <2> QED BY <1>1, <1>2, <2>1, RunRankedQuiet
<1>3. CASE fresh # {}
  <2>1. pc' = "wave" /\ run' = [NoRun EXCEPT !.changes = Resolved(fresh)]
    BY <1>3 DEF Replaced
  <2>2. /\ run'.changes = Resolved(fresh) /\ run'.successors = {}
        /\ run'.processed = {} /\ run'.wave = 0
    BY <2>1 DEF NoRun
  <2>3. \A c \in Resolved(fresh) : r[c[1]] = r[c[2]]
    BY <1>1, ResolvedRank DEF RunRanked
  <2>4. Resolved(fresh) # {}
    <3>1. PICK c \in fresh : TRUE
      BY <1>3
    <3>2. c[1] \in tasks /\ c[2] \in tasks /\ c[1] < c[2]
      BY <1>1 DEF Replacing
    <3>3. c[1] # Active[c[2]]
      BY <3>2, ActiveSound, TasksBelow
    <3> QED BY <3>3 DEF Resolved
  <2>5. Resolved(fresh) \subseteq Replacing
    BY <1>1, ResolvedSound
  <2>6. Ahead' = {c[1] : c \in Resolved(fresh)} /\ Begun' = 0
    BY <2>1, <2>2 DEF Ahead, Begun
  <2>7. \A x \in Ahead' : r[x] \in Nat
    BY <2>5, <2>6, TasksBelow, PropagationAssumption DEF Replacing, Rank
  <2>8. \A x \in Ahead' : Begun' <= r[x]
    BY <2>6, <2>7
  <2> QED BY <1>1, <2>2, <2>3, <2>4, <2>8 DEF RunRanked
<1> QED BY <1>2, <1>3

LEMMA RanksEndWave ==
  ASSUME GraphInv, WaveInv, NEW r \in Rank, Ranks(r), RunRanked(r), EndWave,
         NextChanges # {}
  PROVE  RunRanked(r)'
<1>1. /\ pc = "consume" /\ pc' = "wave" /\ fresh' = fresh /\ rows = {}
      /\ run' = [run EXCEPT !.held = run.held \cup Held, !.changes = NextChanges, !.wave = @ + 1]
  BY DEF EndWave
<1>2. run \in RunType
  BY DEF WaveInv, ChangesSound
<1>3. /\ run'.changes = NextChanges /\ run'.wave = run.wave + 1
      /\ run'.processed = run.processed /\ run'.successors = run.successors
  BY <1>1, <1>2 DEF RunType
<1>4. run.successors \in SUBSET Replacing /\ \A c \in run.successors : r[c[1]] = r[c[2]]
  BY <1>2 DEF RunRanked, RunType
<1>5. \A e \in NextChanges : r[e[1]] = r[e[2]] /\ \E c \in run.successors : c[1] = e[1]
  BY <1>4, ResolvedRank DEF NextChanges
<1>6. /\ Begun' = Begun /\ Ahead = {c[1] : c \in run.successors}
      /\ Ahead' = {c[1] : c \in NextChanges}
  BY <1>1, <1>3 DEF Ahead, Begun
<1>7. Ahead' \subseteq Ahead
  BY <1>5, <1>6
<1> QED BY <1>1, <1>3, <1>5, <1>6, <1>7 DEF RunRanked

LEMMA RankInvStep == GraphInv /\ WaveInv /\ RankInv /\ [Next]_vars => RankInv'
<1> SUFFICES ASSUME GraphInv, WaveInv, RankInv, [Next]_vars PROVE RankInv'
  OBVIOUS
<1>r. PICK r \in Rank : Ranks(r) /\ RunRanked(r)
  BY DEF RankInv
(* It is enough that a step which leaves the graph alone keeps r, and that *)
(* a new task extends it.                                                  *)
<1>k. ASSUME UNCHANGED graphVars, RunRanked(r)' PROVE RankInv'
  BY <1>k, <1>r, RanksKept DEF RankInv, graphVars
<1>1. CASE UNCHANGED <<graphVars, turnVars>>
  <2>1. Ahead' = Ahead /\ Begun' = Begun
    BY <1>1 DEF turnVars, Ahead, Begun
  <2> QED BY <1>1, <2>1, <1>k, <1>r DEF RunRanked, turnVars
<1>2. CASE UNCHANGED <<graphVars, fresh, run>> /\ pc' \in {"revalidate", "replace"}
  BY <1>2, <1>k, <1>r, RunRankedQuiet
<1>3. CASE Revalidate
  <2>1. UNCHANGED <<graphVars, run>> /\ fresh' = {} /\ pc' = "correct"
    BY <1>3 DEF Revalidate
  <2> QED BY <2>1, <1>k, <1>r DEF RunRanked
<1>4. ASSUME NEW t \in tasks, NEW who \in {"corrective", "replacement"},
             AddSuccessor(t, count + 1, who), UNCHANGED <<pc, run>>,
             pc \notin {"wave", "consume"}, fresh' = fresh \cup {<<t, count + 1>>}
      PROVE  RankInv'
  <2>1. PICK q \in Rank : Ranks(q)' /\ q[count + 1] = r[t] /\ \A u \in tasks : q[u] = r[u]
    BY <1>4, <1>r, RanksSuccessor DEF WaveInv, ChangesSound
  <2>2. fresh \cup run.changes \cup run.successors \subseteq Replacing
    BY DEF WaveInv, ChangesSound, RunType
  <2>3. \A c \in fresh \cup run.changes \cup run.successors : q[c[1]] = q[c[2]]
    BY <2>1, <2>2, <1>r DEF RunRanked, Replacing
  <2>4. q[t] = q[count + 1]
    BY <2>1
  <2>5. RunRanked(q)'
    BY <1>4, <2>3, <2>4 DEF RunRanked
  <2> QED BY <2>1, <2>5 DEF RankInv
<1>5. CASE Correct
  BY <1>4, <1>5 DEF Correct, AddCorrective, Correctable
<1>6. CASE Replace
  BY <1>4, <1>6 DEF Replace, AddReplacement, Replaceable
<1>7. CASE Replaced
  <2>1. UNCHANGED graphVars
    BY <1>7 DEF Replaced
  <2> QED BY <2>1, <1>7, <1>k, <1>r, RanksReplaced
<1>8. ASSUME NEW converged, NEW held, EndRun(converged, held) PROVE RankInv'
  <2>1. UNCHANGED <<graphVars, fresh>> /\ run' = NoRun /\ pc' = "idle"
    BY <1>8 DEF EndRun
  <2>2. run'.changes = {} /\ run'.successors = {}
    BY <2>1 DEF NoRun
  <2> QED BY <2>1, <2>2, <1>k, <1>r DEF RunRanked
<1>9. CASE StopRun
  BY <1>8, <1>9 DEF StopRun
<1>10. CASE Wave
  <2>1. UNCHANGED graphVars
    BY <1>10 DEF Wave
  <2> QED BY <2>1, <1>10, <1>k, <1>r, RanksWave
<1>11. CASE Consume
  BY <1>11, RanksConsume
<1>12. CASE EndWave
  <2>1. CASE NextChanges = {}
    BY <1>8, <1>12, <2>1 DEF EndWave
  <2>2. CASE NextChanges # {}
    <3>1. UNCHANGED graphVars
      BY <1>12, <2>2 DEF EndWave
    <3> QED BY <3>1, <1>12, <2>2, <1>k, <1>r, RanksEndWave
  <2> QED BY <2>1, <2>2
<1>13. CASE Work
  BY <1>1, <1>13 DEF Work, Execute, FinishTurn, Resume
<1>14. CASE (\E k \in Key : Supersede(k)) \/ Corrected
  BY <1>2, <1>14 DEF Supersede, Corrected
<1>15. CASE UNCHANGED vars
  BY <1>1, <1>15 DEF vars
<1> QED
  BY <1>3, <1>5, <1>6, <1>7, <1>9, <1>10, <1>11, <1>12, <1>13, <1>14, <1>15 DEF Next, Handle

LEMMA RankInvariant == Spec => []RankInv
  BY GraphInvariant, WaveInvariant, RankInvInit, RankInvStep, PTL DEF Spec

(* No change set comes back and a run has fewer waves than the handoff     *)
(* seeded tasks, whatever the seeded graph, the verdicts and the number of *)
(* decisions (run_task_change_propagation).                                *)
THEOREM RunsComeToRest == Spec => []PropagationConverges
<1>1. WaveInv /\ RankInv /\ GraphInv => PropagationConverges
  <2> SUFFICES ASSUME WaveInv, RankInv, GraphInv, pc = "wave"
               PROVE  run.changes \notin run.processed /\ run.wave < BaseTasks
    BY DEF PropagationConverges
  <2>1. PICK r \in Rank : RunRanked(r)
    BY DEF RankInv
  <2>2. /\ run.changes \subseteq Replacing /\ run.wave \in Nat
        /\ \A c \in Replacing : c[1] \in Task
    BY TasksBelow DEF WaveInv, ChangesSound, RunType, Replacing
  <2>3. \A c \in run.changes : r[c[1]] \in 0..(BaseTasks - 1)
    BY <2>2 DEF Rank
  <2>4. \A c \in run.changes : c[1] \in Ahead
    BY DEF Ahead
  <2>5. run.changes \notin run.processed
    <3>1. SUFFICES ASSUME run.changes \in run.processed PROVE FALSE
      OBVIOUS
    <3>2. PICK c \in run.changes : \A x \in Ahead : r[c[1]] < r[x]
      BY <2>1, <3>1 DEF RunRanked
    <3>3. r[c[1]] < r[c[1]]
      BY <3>2, <2>4
    <3> QED BY <3>3, <2>3
  <2>6. PICK c \in run.changes : TRUE
    BY <2>1 DEF RunRanked
  <2>7. run.wave <= r[c[1]]
    BY <2>1, <2>4 DEF RunRanked, Begun
  <2> QED BY <2>2, <2>3, <2>5, <2>7, PropagationAssumption
<1> QED BY <1>1, WaveInvariant, RankInvariant, GraphInvariant, PTL

LEMMA NotCutOff ==
  ASSUME MaxWaves >= BaseTasks, run \in RunType, PropagationConverges
  PROVE  ~ StopRun
<1>1. SUFFICES ASSUME pc = "wave", Stopped PROVE FALSE
  BY DEF StopRun
<1>2. run.wave \in Nat
  BY DEF RunType
<1>3. run.changes \notin run.processed /\ run.wave < BaseTasks
  BY <1>1 DEF PropagationConverges
<1>4. BaseTasks \in Nat /\ MaxWaves \in Nat
  BY PropagationAssumption
<1> QED BY <1>1, <1>2, <1>3, <1>4 DEF Stopped

(* With as many waves as seeded tasks no run is cut off, so the guard      *)
(* always reports a run that converged and execution is never refused for  *)
(* want of convergence (run_task_change_propagation with max_waves).       *)
THEOREM NoRunIsCutOff ==
  ASSUME MaxWaves >= BaseTasks
  PROVE  Spec => [](guard.converged)
<1> DEFINE Conv == guard.converged
<1>1. Init => Conv
  BY DEF Init
<1>2. WaveInv /\ PropagationConverges /\ Conv /\ [Next]_vars => Conv'
  <2> SUFFICES ASSUME WaveInv, PropagationConverges, Conv, [Next]_vars PROVE Conv'
    OBVIOUS
  <2>1. ~ StopRun
    BY NotCutOff DEF WaveInv, ChangesSound
  <2>2. CASE EndWave
    BY <2>2 DEF EndWave, EndRun
  <2>3. CASE Consume \/ Wave
    BY <2>3 DEF Consume, Wave
  <2>4. CASE Revalidate \/ Correct \/ Corrected \/ Replace \/ Replaced
    BY <2>4 DEF Revalidate, Correct, Corrected, Replace, Replaced
  <2>5. CASE Work \/ \E k \in Key : Supersede(k)
    BY <2>5 DEF Work, Execute, FinishTurn, Resume, Supersede
  <2>6. CASE UNCHANGED vars
    BY <2>6 DEF vars
  <2> QED BY <2>1, <2>2, <2>3, <2>4, <2>5, <2>6 DEF Next, Handle
<1>3. Spec => []Conv
  BY <1>1, <1>2, WaveInvariant, RunsComeToRest, PTL DEF Spec
<1> QED BY <1>3

-----------------------------------------------------------------------------
(* What a converged run leaves behind.                                     *)

(* The changes of the turn that their dependents have yet to be judged     *)
(* against.                                                                *)
Unsettled == IF pc = "wave" THEN run.changes
             ELSE IF pc = "consume" THEN run.successors
             ELSE IF pc \in {"correct", "replace"} THEN fresh ELSE {}

Examined(u, d) ==
  \/ <<source[d], d>> \in Unsettled
  \/ \E w \in Lineage[u] : <<source[d], d>> \in upstream[w]

ExamInv ==
  \A u \in tasks : \A d \in deps[u] :
    source[d] # None /\ ~ Superseded(u) => Examined(u, d)

(* A dependency on a successor is a change that lineage keeps, and one     *)
(* that concerns its dependent.                                            *)
LEMMA DependencyChange ==
  ASSUME GraphInv, SourceEarlier, NEW u \in tasks, NEW d \in deps[u], source[d] # None,
         ~ Superseded(u), NEW C, <<source[d], d>> \in C
  PROVE  <<source[d], d>> \in Resolved(C) /\ <<source[d], d>> \in ChangesFor(u, C)
<1> DEFINE c == <<source[d], d>>
<1>1. d \in tasks /\ ~ Superseded(d) /\ u \in Task /\ d \in Task
  BY TasksBelow DEF GraphInv, GraphOK, NoDependencyOnSuperseded
<1>2. Active[d] = d /\ Active[u] = u
  BY <1>1, ActiveSound
<1>3. source[d] # d
  BY <1>1, TasksBelow DEF SourceEarlier
<1>4. u \in Dependents(d)
  BY DEF Dependents
<1>5. c[1] = source[d] /\ c[2] = d /\ c = <<c[1], c[2]>>
  OBVIOUS
<1> HIDE DEF c
<1>6. c \in Resolved(C)
  BY <1>2, <1>3, <1>5 DEF Resolved, c
<1>7. c \in ChangesFor(u, C)
  BY <1>2, <1>4, <1>5 DEF ChangesFor, c
<1> QED BY <1>6, <1>7 DEF c

LEMMA OwnLineage ==
  ASSUME SourceEarlier, NEW u \in Task
  PROVE  u \in Lineage[u]
  BY LineageEquation

LEMMA LineageTasks ==
  ASSUME SourceEarlier, NEW u \in Task
  PROVE  Lineage[u] \subseteq Task
<1>1. \A v \in Task : Lineage[v] = {v} \cup (IF source[v] = None THEN {} ELSE Lineage[source[v]])
  BY LineageEquation
<1>2. PICK X : X = {v \in Task : Lineage[v] \subseteq Task}
  OBVIOUS
<1>3. ASSUME NEW v \in 1..MaxTasks, \A x \in 1..(v - 1) : x \in X
      PROVE  v \in X
  BY <1>1, <1>2, <1>3 DEF SourceEarlier, Task
<1>4. \A v \in 1..MaxTasks : v \in X
  <2>1. MaxTasks \in Nat
    BY PropagationAssumption
  <2> QED BY <2>1, <1>3, AscendingInduction, Zenon
<1> QED BY <1>2, <1>4 DEF Task

(* A new task leaves the lineage of the others as it was and continues     *)
(* that of its source.                                                     *)
LEMMA LineageSuccessor ==
  ASSUME GraphInv, SourceEarlier, NEW t \in tasks, NEW who \in {"corrective", "replacement"},
         AddSuccessor(t, count + 1, who)
  PROVE  /\ \A u \in tasks : Lineage'[u] = Lineage[u]
         /\ Lineage[t] \subseteq Lineage'[count + 1]
<1>1. /\ SourceEarlier' /\ tasks' = tasks \cup {count + 1} /\ count + 1 \notin tasks
      /\ source'[count + 1] = t /\ \A u \in tasks : source'[u] = source[u]
  BY SuccessorSource
<1>2. tasks \subseteq Task /\ count + 1 \in Task /\ count \in Nat
  BY TasksBelow, SuccessorGraph
<1>3. \A u \in Task : Lineage[u] = {u} \cup (IF source[u] = None THEN {} ELSE Lineage[source[u]])
  BY LineageEquation
<1>4. \A u \in Task : Lineage'[u] =
        {u} \cup (IF source'[u] = None THEN {} ELSE Lineage'[source'[u]])
  <2>1. \E f : f = [u \in 1..MaxTasks |->
                      {u} \cup IF source'[u] = None THEN {} ELSE f[source'[u]]]
    BY <1>1, BackwardFunction, PropagationAssumption DEF SourceEarlier, Task
  <2>2. \E f : f = [u \in Task |-> {u} \cup (IF source'[u] = None THEN {} ELSE f[source'[u]])]
    BY <2>1 DEF Task
  <2>3. Lineage' = [u \in Task |->
                      {u} \cup (IF source'[u] = None THEN {} ELSE Lineage'[source'[u]])]
    BY <2>2, Zenon DEF Lineage
  <2> QED BY <2>3
<1>5. PICK X : X = {u \in tasks : Lineage'[u] = Lineage[u]}
  OBVIOUS
<1>6. ASSUME NEW u \in 1..count, \A v \in 1..(u - 1) : v \in X
      PROVE  u \in X
  <2>1. u \in tasks /\ u \in Task /\ source'[u] = source[u]
    BY <1>1, <1>2 DEF tasks
  <2>2. source[u] # None => source[u] \in X
    BY <1>6, <2>1 DEF SourceEarlier
  <2>3. CASE source[u] = None
    <3>1. Lineage[u] = {u} /\ Lineage'[u] = {u}
      BY <2>1, <2>3, <1>3, <1>4
    <3> QED BY <2>1, <3>1, <1>5
  <2>4. CASE source[u] # None
    <3>1. Lineage[u] = {u} \cup Lineage[source[u]]
      BY <2>1, <2>4, <1>3
    <3>2. Lineage'[u] = {u} \cup Lineage'[source[u]]
      BY <2>1, <2>4, <1>4
    <3>3. Lineage'[source[u]] = Lineage[source[u]]
      BY <2>2, <2>4, <1>5
    <3> QED BY <2>1, <3>1, <3>2, <3>3, <1>5
  <2> QED BY <2>3, <2>4
<1>7. \A u \in 1..count : u \in X
  BY <1>2, <1>6, AscendingInduction, Zenon
<1>8. \A u \in tasks : Lineage'[u] = Lineage[u]
  BY <1>5, <1>7 DEF tasks
<1>9. t # None
  BY <1>2 DEF None, tasks
<1> QED BY <1>1, <1>2, <1>4, <1>8, <1>9

LEMMA ExamInvInit == Init => ExamInv
<1> SUFFICES ASSUME Init PROVE ExamInv
  OBVIOUS
<1>1. PICK g \in Graphs : deps = g.deps
  BY DEF Init
<1>2. \A u \in tasks : deps[u] \subseteq Task
  BY <1>1, PropagationAssumption DEF Init, tasks, Task
<1>3. \A d \in Task : source[d] = None
  BY DEF Init
<1> QED BY <1>2, <1>3 DEF ExamInv

(* A step that changes neither the graph nor the judgements keeps what is  *)
(* examined if it keeps the changes that a dependency still waits for.     *)
LEMMA ExaminedKept ==
  ASSUME ExamInv, UNCHANGED <<graphVars, upstream>>,
         \A u \in tasks : \A d \in deps[u] :
           /\ source[d] # None /\ ~ Superseded(u) /\ <<source[d], d>> \in Unsettled
           => <<source[d], d>> \in Unsettled'
  PROVE  ExamInv'
<1>1. tasks' = tasks /\ Lineage' = Lineage
  BY DEF graphVars, tasks, Lineage
<1> QED BY <1>1 DEF ExamInv, Examined, graphVars, Superseded

LEMMA ExaminedSuccessor ==
  ASSUME GraphInv, SourceEarlier, ExamInv,
         NEW t \in tasks, NEW who \in {"corrective", "replacement"},
         AddSuccessor(t, count + 1, who), ~ Superseded(t),
         \A u \in tasks : Superseded(u) => Superseded(u)',
         upstream' = upstream, Unsettled' = Unsettled \cup {<<t, count + 1>>}
  PROVE  ExamInv'
<1>1. /\ tasks' = tasks \cup {count + 1} /\ count + 1 \notin tasks
      /\ source'[count + 1] = t /\ \A u \in tasks : source'[u] = source[u]
  BY SuccessorSource
<1>2. tasks \subseteq Task /\ count + 1 \in Task
  BY TasksBelow, SuccessorGraph
<1>3. deps' = [u \in Task |-> IF u = count + 1 THEN deps[t] \ {t}
                              ELSE Redirected(deps[u], t, count + 1)]
  BY DEF AddSuccessor
<1>4. \A u \in tasks : Lineage'[u] = Lineage[u]
  BY LineageSuccessor
<1>5. Lineage[t] \subseteq Lineage'[count + 1]
  BY LineageSuccessor
<1>6. SUFFICES ASSUME NEW u \in tasks', NEW d \in deps'[u], source'[d] # None, ~ Superseded(u)'
               PROVE  \/ <<source'[d], d>> \in Unsettled'
                      \/ \E w \in Lineage'[u] : <<source'[d], d>> \in upstream'[w]
  BY DEF ExamInv, Examined
<1>7. CASE d = count + 1
  BY <1>1, <1>7
<1>8. CASE d # count + 1
  <2>1. PICK v \in tasks : /\ d \in deps[v] /\ ~ Superseded(v)
                           /\ Lineage[v] \subseteq Lineage'[u]
    <3>1. CASE u = count + 1
      BY <3>1, <1>3, <1>2, <1>5, <1>6
    <3>2. CASE u # count + 1
      <4>1. u \in tasks /\ ~ Superseded(u)
        BY <3>2, <1>1, <1>6
      <4>2. d \in deps[u]
        BY <4>1, <3>2, <1>2, <1>3, <1>6, <1>8 DEF Redirected
      <4> QED BY <4>1, <4>2, <1>4
    <3> QED BY <3>1, <3>2
  <2>2. d \in tasks /\ source'[d] = source[d]
    BY <2>1, <1>1, <1>2 DEF GraphInv, GraphOK
  <2>3. Examined(v, d)
    BY <2>1, <2>2, <1>6 DEF ExamInv
  <2> QED BY <2>1, <2>2, <2>3 DEF Examined
<1> QED BY <1>7, <1>8

(* A wave judges every dependent of a change against it.                   *)
LEMMA ExaminedWave ==
  ASSUME GraphInv, WaveInv, ExamInv, Wave
  PROVE  ExamInv'
<1>1. /\ pc = "wave" /\ UNCHANGED graphVars
      /\ upstream' = [d \in Task |-> IF d \in Downstream
                        THEN upstream[d] \cup ChangesFor(d, run.changes) ELSE upstream[d]]
  BY WaveEffect
<1>2. tasks' = tasks /\ Lineage' = Lineage /\ deps' = deps /\ source' = source
      /\ tasks \subseteq Task /\ SourceEarlier
  BY <1>1, TasksBelow DEF graphVars, tasks, Lineage, WaveInv, ChangesSound
<1>3. SUFFICES ASSUME NEW u \in tasks, NEW d \in deps[u], source[d] # None, ~ Superseded(u)
               PROVE  \E w \in Lineage[u] : <<source[d], d>> \in upstream'[w]
  BY <1>1, <1>2 DEF ExamInv, Examined, Superseded, graphVars
<1>4. CASE <<source[d], d>> \in run.changes
  <2>1. <<source[d], d>> \in ChangesFor(u, run.changes)
    BY <1>2, <1>3, <1>4, DependencyChange
  <2>2. u \in Downstream
    BY <2>1 DEF Downstream
  <2>3. u \in Lineage[u]
    BY <1>2, OwnLineage
  <2> QED BY <1>1, <1>2, <2>1, <2>2, <2>3
<1>5. CASE \E w \in Lineage[u] : <<source[d], d>> \in upstream[w]
  <2>1. PICK w \in Lineage[u] : <<source[d], d>> \in upstream[w]
    BY <1>5
  <2>2. CASE w \in Task
    BY <1>1, <2>1, <2>2
  <2>3. w \in Task
    BY <1>2, LineageTasks
  <2> QED BY <2>2, <2>3
<1>6. Unsettled = run.changes
  BY <1>1 DEF Unsettled
<1> QED BY <1>3, <1>4, <1>5, <1>6 DEF ExamInv, Examined

LEMMA ExamInvStep ==
  ASSUME MaxWaves >= BaseTasks
  PROVE  GraphInv /\ WaveInv /\ PropagationConverges /\ ExamInv /\ [Next]_vars => ExamInv'
<1> SUFFICES ASSUME GraphInv, WaveInv, PropagationConverges, ExamInv, [Next]_vars PROVE ExamInv'
  OBVIOUS
<1>s. SourceEarlier /\ run \in RunType
  BY DEF WaveInv, ChangesSound
<1>l. \A t \in tasks : status[t] \in {"pending", "complete"} => ~ Superseded(t)
  BY DEF GraphInv, LineageSound
(* Steps that settle nothing.                                              *)
<1>1. CASE UNCHANGED <<graphVars, upstream, turnVars>>
  BY <1>1, ExaminedKept DEF Unsettled, turnVars
<1>2. CASE (\E k \in Key : Supersede(k)) \/ Revalidate
  <2>1. UNCHANGED <<graphVars, upstream>> /\ Unsettled = {}
    BY <1>2 DEF Supersede, Revalidate, waveVars, Unsettled
  <2> QED BY <2>1, ExaminedKept
<1>3. CASE Corrected
  <2>1. UNCHANGED <<graphVars, upstream>> /\ Unsettled' = Unsettled
    BY <1>3 DEF Corrected, waveVars, Unsettled
  <2> QED BY <2>1, ExaminedKept
(* A new task.                                                             *)
<1>4. ASSUME NEW t, AddCorrective(t, count + 1) \/ AddReplacement(t, count + 1),
             upstream' = upstream, Unsettled' = Unsettled \cup {<<t, count + 1>>}
      PROVE  ExamInv'
  <2>1. t \in tasks /\ ~ Superseded(t)
    BY <1>4, <1>l DEF AddCorrective, AddReplacement, Correctable, Replaceable
  <2>2. PICK who \in {"corrective", "replacement"} : AddSuccessor(t, count + 1, who)
    BY <1>4 DEF AddReplacement, AddCorrective
  <2>3. \A u \in tasks : Superseded(u) => Superseded(u)'
    <3>1. CASE AddCorrective(t, count + 1)
      BY <3>1 DEF AddCorrective, Superseded
    <3>2. CASE AddReplacement(t, count + 1)
      <4>1. supersededBy' = [supersededBy EXCEPT ![t] = count + 1]
        BY <3>2 DEF AddReplacement
      <4>2. count + 1 # None /\ \A u \in tasks : u \in Task
        BY TasksBelow DEF None
      <4>3. supersededBy \in [Task -> Task \cup {None}]
        BY DEF GraphInv, GraphOK
      <4> QED BY <4>1, <4>2, <4>3 DEF Superseded
    <3> QED BY <1>4, <3>1, <3>2
  <2> QED BY <1>4, <1>s, <2>1, <2>2, <2>3, ExaminedSuccessor
<1>5. CASE Correct
  BY <1>4, <1>5 DEF Correct, waveVars, Unsettled
<1>6. CASE Replace
  BY <1>4, <1>6 DEF Replace, waveVars, Unsettled
<1>7. CASE Replaced
  <2>1. UNCHANGED <<graphVars, upstream>> /\ pc = "replace"
    BY <1>7 DEF Replaced, waveVars
  <2>2. CASE fresh = {}
    BY <2>1, <2>2, ExaminedKept DEF Unsettled
  <2>3. CASE fresh # {}
    <3>1. pc' = "wave" /\ run' = [NoRun EXCEPT !.changes = Resolved(fresh)]
      BY <1>7, <2>3 DEF Replaced
    <3>2. Unsettled = fresh /\ Unsettled' = Resolved(fresh)
      BY <2>1, <3>1 DEF Unsettled, NoRun
    <3>3. \A u \in tasks : \A d \in deps[u] :
            /\ source[d] # None /\ ~ Superseded(u) /\ <<source[d], d>> \in Unsettled
            => <<source[d], d>> \in Unsettled'
      BY <3>2, <1>s, DependencyChange
    <3> QED BY <2>1, <3>3, ExaminedKept
  <2> QED BY <2>2, <2>3
<1>8. ~ StopRun
  BY NotCutOff DEF WaveInv, ChangesSound
<1>9. CASE Wave
  BY <1>9, ExaminedWave
<1>10. CASE Consume
  <2>1. PICK t \in First(rows) :
     \/ /\ AddReplacement(t, count + 1) \/ AddCorrective(t, count + 1)
        /\ run' = [run EXCEPT !.successors = @ \cup {<<t, count + 1>>}]
     \/ /\ run' = [run EXCEPT !.successors = @ \cup {<<t, consumed[t].successor>>}]
        /\ UNCHANGED graphVars
     \/ UNCHANGED <<graphVars, run>>
    BY <1>10 DEF Consume
  <2>2. /\ pc = "consume" /\ pc' = "consume" /\ upstream' = upstream
        /\ Unsettled = run.successors /\ Unsettled' = run'.successors
    BY <1>10 DEF Consume, Unsettled
  <2>3. CASE /\ AddReplacement(t, count + 1) \/ AddCorrective(t, count + 1)
             /\ run' = [run EXCEPT !.successors = @ \cup {<<t, count + 1>>}]
    <3>1. run'.successors = run.successors \cup {<<t, count + 1>>}
      BY <2>3, <1>s DEF RunType
    <3> QED BY <1>4, <2>2, <2>3, <3>1
  <2>4. CASE /\ run' = [run EXCEPT !.successors = @ \cup {<<t, consumed[t].successor>>}]
             /\ UNCHANGED graphVars
    <3>1. run.successors \subseteq run'.successors
      BY <2>4, <1>s DEF RunType
    <3> QED BY <2>2, <2>4, <3>1, ExaminedKept
  <2>5. CASE UNCHANGED <<graphVars, run>>
    BY <2>2, <2>5, ExaminedKept
  <2> QED BY <2>1, <2>3, <2>4, <2>5
<1>11. CASE EndWave
  <2>1. UNCHANGED <<graphVars, upstream>> /\ Unsettled = run.successors
    BY <1>11 DEF EndWave, EndRun, waveVars, Unsettled
  <2>2. NextChanges # {} => Unsettled' = NextChanges
    <3>1. SUFFICES ASSUME NextChanges # {} PROVE Unsettled' = NextChanges
      OBVIOUS
    <3>2. pc' = "wave"
          /\ run' = [run EXCEPT !.held = run.held \cup Held, !.changes = NextChanges, !.wave = @ + 1]
      BY <1>11, <3>1 DEF EndWave
    <3>3. run'.changes = NextChanges
      BY <3>2, <1>s DEF RunType
    <3> QED BY <3>2, <3>3 DEF Unsettled
  <2>3. \A u \in tasks : \A d \in deps[u] :
          /\ source[d] # None /\ ~ Superseded(u) /\ <<source[d], d>> \in Unsettled
          => <<source[d], d>> \in NextChanges
    BY <2>1, <1>s, DependencyChange DEF NextChanges
  <2> QED BY <2>1, <2>2, <2>3, ExaminedKept
<1>12. CASE Work
  BY <1>1, <1>12 DEF Work, Execute, FinishTurn, Resume, waveVars
<1>13. CASE UNCHANGED vars
  BY <1>1, <1>13 DEF vars, waveVars
<1> QED
  BY <1>2, <1>3, <1>5, <1>6, <1>7, <1>8, <1>9, <1>10, <1>11, <1>12, <1>13 DEF Next, Handle

(* With as many waves as seeded tasks, a task that depends on a successor  *)
(* was judged against that replacement once the run is over, itself or the *)
(* task it was made from (run_task_change_propagation with max_waves).     *)
THEOREM DependentsAreExamined ==
  ASSUME MaxWaves >= BaseTasks
  PROVE  Spec => []ConvergedExaminesDependents
<1>1. GraphInv /\ WaveInv /\ PropagationConverges /\ ExamInv /\ [Next]_vars => ExamInv'
  BY ExamInvStep
<1>2. ExamInv => ConvergedExaminesDependents
  BY DEF ExamInv, Examined, ConvergedExaminesDependents, Unsettled
<1> QED
  BY <1>1, <1>2, ExamInvInit, GraphInvariant, WaveInvariant, RunsComeToRest, PTL DEF Spec
=============================================================================
