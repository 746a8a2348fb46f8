------------------------ MODULE DecisionPropagation ------------------------
(***************************************************************************)
(* What a turn does to the task graph when a Human Decision is superseded: *)
(* stale premises are judged again, completed tasks get a corrective task, *)
(* pending tasks are cancelled and replaced, and the change is propagated  *)
(* in waves to the tasks that depend on what was replaced                  *)
(* (ai_tool/human_decision_premise, decision_premise_revalidation,         *)
(* premise_corrective_replan, premise_pending_replacement,                 *)
(* task_upstream_supersession_revalidation, task_change_propagation_guard, *)
(* task_execution_guard and advance_to_open_task).                         *)
(*                                                                         *)
(* Task ids are numbers in the order of creation.  The verdicts of the     *)
(* model are arbitrary.  A decision is its key: a superseding decision is  *)
(* new, so the premises on that key stop being validated.                  *)
(***************************************************************************)
EXTENDS Naturals, FiniteSets

CONSTANTS
  Key,          \* decision keys
  BaseTasks,    \* number of tasks seeded from the handoff
  Graphs,       \* the seeded graphs: their depends_on and decision_premises
  MaxTasks,     \* bound on task ids
  MaxChanges,   \* bound on superseded decisions
  MaxWaves      \* max_waves

Task == 1..MaxTasks
None == 0

(* Every set of tasks out of S has one that depends on none of them.       *)
Acyclic(D, S) == \A X \in SUBSET S : X # {} => \E t \in X : D[t] \cap X = {}

ASSUME PropagationAssumption ==
  /\ BaseTasks \in Nat \ {0} /\ MaxTasks \in Nat /\ BaseTasks <= MaxTasks
  /\ MaxChanges \in Nat /\ MaxWaves \in Nat \ {0}
  /\ Graphs \subseteq [deps : [Task -> SUBSET Task], premises : [Task -> SUBSET Key]]
  /\ \A g \in Graphs :
       /\ Acyclic(g.deps, 1..BaseTasks)
       /\ \A t \in Task : IF t \in 1..BaseTasks THEN g.deps[t] \subseteq 1..BaseTasks
                           ELSE g.deps[t] = {} /\ g.premises[t] = {}

VARIABLES
  count,          \* the tasks of the runtime are 1..count
  deps,           \* depends_on
  status,
  origin,         \* the "source" field: who added the task
  source,         \* source_task_id
  supersededBy,   \* superseded_by_task_id
  premises,       \* keys of decision_premises
  unvalidated,    \* keys whose active decision is not the validated one
  verdict,        \* revalidation.premise_revalidation.outcome
  upstream,       \* upstream_supersession_wave.upstream_changes
  judged,         \* ... evaluated_against_change_set
  waveVerdict,    \* ... outcome; "no_wave" without a wave row
  consumed,       \* ... successor_change and the change set it consumed
  current,        \* current_task_id
  guard,          \* task_change_propagation_guard
  changes,        \* decisions superseded so far
  pc, rows, fresh, run  \* the turn that handles a superseded decision

graphVars   == <<count, deps, origin, source, supersededBy, premises>>
premiseVars == <<unvalidated, verdict>>
waveVars    == <<upstream, judged, waveVerdict, consumed>>
turnVars    == <<pc, rows, fresh, run>>
vars == <<graphVars, status, premiseVars, waveVars, current, guard, changes, turnVars>>

Status     == {"pending", "in_progress", "complete", "cancelled"}
(* "needs_revision" stands for both PREMISE_CORRECTIVE_OUTCOMES, which no   *)
(* operation tells apart.                                                  *)
Outcome    == {"still_valid", "needs_revision", "cannot_determine"}
Corrective == {"needs_revision"}
Blocking   == Corrective \cup {"cannot_determine"}
Change     == Task \X Task
NotConsumed == [successor |-> None, set |-> {}]

tasks == 1..count

(* The local variables of run_task_change_propagation.                     *)
NoRun == [changes |-> {}, processed |-> {}, visited |-> {}, wave |-> 0,
          rows |-> [t \in {} |-> "pending"], successors |-> {}, held |-> {}]

TypeOK ==
  /\ count \in BaseTasks..MaxTasks
  /\ deps \in [Task -> SUBSET tasks]
  /\ status \in [Task -> Status]
  /\ origin \in [Task -> {"base", "corrective", "replacement"}]
  /\ source \in [Task -> Task \cup {None}]
  /\ supersededBy \in [Task -> Task \cup {None}]
  /\ premises \in [Task -> SUBSET Key]
  /\ unvalidated \in [Task -> SUBSET Key]
  /\ verdict \in [Task -> Outcome \cup {"none"}]
  /\ upstream \in [Task -> SUBSET Change]
  /\ judged \in [Task -> SUBSET Change]
  /\ waveVerdict \in [Task -> Outcome \cup {"no_wave", "pending"}]
  /\ consumed \in [Task -> [successor : Task \cup {None}, set : SUBSET Change]]
  /\ current \in tasks
  /\ guard \in [converged : BOOLEAN, held : SUBSET Task]
  /\ changes \in 0..MaxChanges
  /\ pc \in {"idle", "revalidate", "correct", "replace", "wave", "consume"}
  /\ rows \subseteq tasks
  /\ fresh \subseteq Change

Init ==
  /\ count = BaseTasks
  /\ \E g \in Graphs : deps = g.deps /\ premises = g.premises
  /\ status = [t \in Task |-> "pending"]
  /\ origin = [t \in Task |-> "base"]
  /\ source = [t \in Task |-> None]
  /\ supersededBy = [t \in Task |-> None]
  /\ unvalidated = [t \in Task |-> {}]
  /\ verdict = [t \in Task |-> "none"]
  /\ upstream = [t \in Task |-> {}]
  /\ judged = [t \in Task |-> {}]
  /\ waveVerdict = [t \in Task |-> "no_wave"]
  /\ consumed = [t \in Task |-> NotConsumed]
  /\ current = 1
  /\ guard = [converged |-> TRUE, held |-> {}]
  /\ changes = 0
  /\ pc = "idle" /\ rows = {} /\ fresh = {} /\ run = NoRun

(* The first task of S in the order of creation, if there is one.          *)
First(S) == {t \in S : \A u \in S : t <= u}

-----------------------------------------------------------------------------
(* The guards that keep a task from being executed.                        *)

Superseded(t)      == supersededBy[t] # None
UpstreamBlocked(t) == waveVerdict[t] \notin {"no_wave", "still_valid"}
PremiseBlocked(t)  == /\ status[t] \in {"pending", "in_progress"}
                      /\ verdict[t] \in Blocking

Blocked(t) == Superseded(t) \/ UpstreamBlocked(t) \/ PremiseBlocked(t)

UnsetAdvanced ==  \* mutant: current_task_id is assigned when nothing is open
  LET open == {t \in tasks : status[t] # "complete" /\ ~ Blocked(t)}
  IN IF open # {} THEN First(open) ELSE {None}

UnguardedAdvanced ==  \* mutant: blocked tasks are not skipped
  LET open == {t \in tasks : status[t] # "complete"}
  IN IF open # {} THEN First(open) ELSE {current}

(* advance_to_open_task: the first task added by a replan, or else the     *)
(* first task, that is not complete and not blocked.                       *)
Advanced ==
  LET open  == {t \in tasks : status[t] # "complete" /\ ~ Blocked(t)}
      added == {t \in open : origin[t] # "base"}
  IN IF added # {} THEN First(added) ELSE IF open # {} THEN First(open) ELSE {current}

-----------------------------------------------------------------------------
(* Work between decisions.                                                 *)

(* A tool call of the current task: record_action puts the task in         *)
(* progress and evaluate_task may find its conditions satisfied.           *)
Execute(done) ==
  /\ pc = "idle"
  /\ guard.converged /\ ~ Blocked(current)
  /\ status' = [status EXCEPT ![current] = IF done THEN "complete" ELSE "in_progress"]
  /\ UNCHANGED <<graphVars, premiseVars, waveVars, current, guard, changes, turnVars>>

(* finish evaluates the current task at the end of every turn, also of a   *)
(* turn that the guards stopped.                                           *)
FinishTurn(done) ==
  /\ pc = "idle"
  /\ status[current] = "complete" => done
  /\ status' = [status EXCEPT ![current] = IF done THEN "complete" ELSE "in_progress"]
  /\ UNCHANGED <<graphVars, premiseVars, waveVars, current, guard, changes, turnVars>>

(* restore_orchestrator_from_goal_continuation and, with evidence to       *)
(* gather, apply_continuation_winner, which starts the open task.          *)
Resume(evidence) ==
  /\ pc = "idle"
  /\ current' \in Advanced
  /\ status' = IF evidence /\ status[current'] # "complete"
               THEN [status EXCEPT ![current'] = "in_progress"] ELSE status
  /\ UNCHANGED <<graphVars, premiseVars, waveVars, guard, changes, turnVars>>

-----------------------------------------------------------------------------
(* supersede_decision, then run_premise_revalidations.                     *)

(* refresh_task_revalidation after the active decision of k changed: the   *)
(* premises on k are stale, and a recorded outcome is kept only if it was  *)
(* reached against the decisions that are active now.                      *)
KeptVerdict(t, k) == verdict[t]  \* mutant: the outcome is always preserved

RefreshedVerdict(t, k) == IF k \in premises[t] THEN "none" ELSE verdict[t]

Supersede(k) ==
  /\ pc = "idle" /\ changes < MaxChanges
  /\ changes' = changes + 1
  /\ unvalidated' = [t \in Task |-> unvalidated[t] \cup ({k} \cap premises[t])]
  /\ verdict' = [t \in Task |-> RefreshedVerdict(t, k)]
  /\ pc' = "revalidate"
  /\ UNCHANGED <<graphVars, status, waveVars, current, guard, rows, fresh, run>>

(* Every stale task without a current outcome is judged; without any, the  *)
(* replans below work from the outcomes recorded earlier.                  *)
Revalidate ==
  /\ pc = "revalidate"
  /\ LET stale == {t \in tasks : unvalidated[t] # {} /\ verdict[t] = "none"}
     IN \E o \in [stale -> Outcome] :
          /\ verdict' = [t \in Task |-> IF t \in stale THEN o[t] ELSE verdict[t]]
          /\ unvalidated' = [t \in Task |->
               IF t \in stale /\ o[t] = "still_valid" THEN {} ELSE unvalidated[t]]
          /\ rows' = {t \in IF stale = {} THEN tasks ELSE stale : verdict'[t] \in Corrective}
  /\ fresh' = {}
  /\ pc' = "correct"
  /\ UNCHANGED <<graphVars, status, waveVars, current, guard, changes, run>>

-----------------------------------------------------------------------------
(* Corrective tasks and replacements.                                      *)

NothingExists(t) == FALSE  \* mutant: no check for an earlier successor

CorrectiveExists(t)  == \E u \in tasks : origin[u] = "corrective" /\ source[u] = t
ReplacementExists(t) == \E u \in tasks : origin[u] = "replacement" /\ source[u] = t

KeptDependency(D, old, new) == D \cup (IF old \in D THEN {new} ELSE {})  \* mutant
ReversedDependency(D, old, new) == (D \ {old}) \cup {new}  \* mutant: every task redirected

Redirected(D, old, new) == IF old \in D THEN (D \ {old}) \cup {new} ELSE D

(* The task added by `who` for t: it takes over what t depends on, and the *)
(* tasks that depend on t depend on it instead.                            *)
AddSuccessor(t, new, who) ==
  /\ count < MaxTasks
  /\ count' = new
  /\ deps' = [u \in Task |-> IF u = new THEN deps[t] \ {t}
                                        ELSE Redirected(deps[u], t, new)]
  /\ origin' = [origin EXCEPT ![new] = who]
  /\ source' = [source EXCEPT ![new] = t]
  /\ premises' = [premises EXCEPT ![new] = premises[t]]

Correctable(t) == t \in tasks /\ status[t] = "complete" /\ ~ CorrectiveExists(t)
Replaceable(t) == t \in tasks /\ status[t] = "pending" /\ ~ ReplacementExists(t)

(* add_premise_corrective_replan leaves the source as it is.               *)
AddCorrective(t, new) ==
  /\ Correctable(t)
  /\ AddSuccessor(t, new, "corrective")
  /\ UNCHANGED <<supersededBy, status, current>>

(* add_pending_replacement cancels the source and, if it was the current   *)
(* task, moves the turn to the replacement.                                *)
AddReplacement(t, new) ==
  /\ Replaceable(t)
  /\ AddSuccessor(t, new, "replacement")
  /\ supersededBy' = [supersededBy EXCEPT ![t] = new]
  /\ status' = [status EXCEPT ![t] = "cancelled"]
  /\ current' = IF current = t THEN new ELSE current

Correct ==
  /\ pc = "correct"
  /\ \E t \in First({u \in rows : Correctable(u)}) :
       AddCorrective(t, count + 1) /\ fresh' = fresh \cup {<<t, count + 1>>}
  /\ UNCHANGED <<premiseVars, waveVars, guard, changes, pc, rows, run>>

Corrected ==
  /\ pc = "correct"
  /\ {t \in rows : Correctable(t)} = {}
  /\ current' \in IF fresh # {} THEN Advanced ELSE {current}
  /\ pc' = "replace"
  /\ UNCHANGED <<graphVars, status, premiseVars, waveVars, guard, changes, rows, fresh, run>>

Replace ==
  /\ pc = "replace"
  /\ \E t \in First({u \in rows : Replaceable(u)}) :
       AddReplacement(t, count + 1) /\ fresh' = fresh \cup {<<t, count + 1>>}
  /\ UNCHANGED <<premiseVars, waveVars, guard, changes, pc, rows, run>>

(* The successor that lineage leads to; ids grow along it.                 *)
Active[t \in Task] == IF Superseded(t) THEN Active[supersededBy[t]] ELSE t

(* resolve_changes_for_propagation.                                        *)
Resolved(C) == {<<c[1], Active[c[2]]>> : c \in {d \in C : d[1] # Active[d[2]]}}

Replaced ==
  /\ pc = "replace"
  /\ {t \in rows : Replaceable(t)} = {}
  /\ current' \in IF \E c \in fresh : origin[c[2]] = "replacement" THEN Advanced ELSE {current}
  /\ rows' = {}
  /\ fresh' = {}
  /\ IF fresh = {} THEN pc' = "idle" /\ UNCHANGED run
     ELSE pc' = "wave" /\ run' = [NoRun EXCEPT !.changes = Resolved(fresh)]
  /\ UNCHANGED <<graphVars, status, premiseVars, waveVars, guard, changes>>

-----------------------------------------------------------------------------
(* run_task_change_propagation.                                            *)

UnbrokenEndRun(converged, held) ==  \* mutant: no break
  /\ guard' = [converged |-> converged, held |-> held]
  /\ UNCHANGED <<graphVars, status, premiseVars, waveVars, current, changes, turnVars>>

EndRun(converged, held) ==
  /\ guard' = [converged |-> converged, held |-> held]
  /\ pc' = "idle"
  /\ run' = NoRun
  /\ UNCHANGED <<graphVars, status, premiseVars, waveVars, current, changes, rows, fresh>>

(* max_waves_reached or repeated_change_set.                               *)
Stopped == run.wave >= MaxWaves \/ run.changes \in run.processed

StopRun ==
  /\ pc = "wave" /\ Stopped
  /\ EndRun(FALSE, run.held)

Dependents(t) == {u \in tasks : t \in deps[u]}

DirectChangesFor(d, C) ==  \* mutant: lookup by the replaced task only
  {c \in C : \E u \in Dependents(c[1]) : Active[u] = d}

(* changes_to_successor_rows with collect_downstream_wave_merges: the      *)
(* changes that concern the downstream task d.                             *)
ChangesFor(d, C) ==
  {c \in C : \E t \in {c[1], Active[c[1]], c[2], Active[c[2]]} :
               \E u \in Dependents(t) : Active[u] = d}

(* apply_wave_hold for every downstream task, then the evaluation of each: *)
(* one that was visited in this run or is judged against exactly these     *)
(* changes keeps its verdict, every other gets a new one.                  *)
Wave ==
  /\ pc = "wave" /\ ~ Stopped
  /\ LET C == run.changes
         downstream == {d \in tasks : ChangesFor(d, C) # {}}
         merged(d)  == upstream[d] \cup ChangesFor(d, C)
         kept(d)    == judged[d] = merged(d) /\ waveVerdict[d] \in Outcome
         held(d)    == IF kept(d) THEN waveVerdict[d] ELSE "pending"
         visit(d)   == <<d, ChangesFor(d, C)>>
         asked      == {d \in downstream : /\ visit(d) \notin run.visited
                                           /\ ~ (kept(d) /\ judged[d] = ChangesFor(d, C))}
     IN \E o \in [asked -> Outcome] :
          /\ upstream' = [d \in Task |-> IF d \in downstream THEN merged(d) ELSE upstream[d]]
          /\ judged' = [d \in Task |->
               IF d \in asked \/ (d \in downstream /\ kept(d)) THEN merged(d)
               ELSE IF d \in downstream THEN {} ELSE judged[d]]
          /\ waveVerdict' = [d \in Task |->
               IF d \in asked THEN o[d]
               ELSE IF d \in downstream THEN held(d) ELSE waveVerdict[d]]
          /\ rows' = downstream
          /\ run' = [run EXCEPT !.processed = @ \cup {C},
                                !.visited = @ \cup {visit(d) : d \in downstream},
                                !.rows = [d \in downstream |-> waveVerdict'[d]],
                                !.successors = {}]
  /\ pc' = "consume"
  /\ UNCHANGED <<graphVars, status, premiseVars, consumed, current, guard, changes, fresh>>

(* The wave's own _pending_replacement_exists, which reads                 *)
(* superseded_by_task_id where the premise path reads supersedes_task_id.  *)
WaveReplacementExists(t) ==
  ReplacementExists(t) \/ \E u \in tasks : supersededBy[u] = t

SuccessorGenerated(t) ==
  \/ consumed[t].successor # None /\ consumed[t].set = judged[t]
  \/ status[t] = "pending" /\ WaveReplacementExists(t)
  \/ status[t] = "complete" /\ CorrectiveExists(t)
  \/ status[t] \notin {"pending", "complete"} /\ Superseded(t)

(* consume_upstream_supersession_outcome for the next downstream task.     *)
Consume ==
  /\ pc = "consume"
  /\ \E t \in First(rows) :
       LET new       == count + 1
           revised   == waveVerdict[t] \in Corrective
           generated == SuccessorGenerated(t)
           earlier   == consumed[t].successor
           successor(u) == run' = [run EXCEPT !.successors = @ \cup {<<t, u>>}]
       IN /\ rows' = rows \ {t}
          /\ \/ /\ revised /\ ~ generated
                /\ AddReplacement(t, new) \/ AddCorrective(t, new)
                /\ consumed' = [consumed EXCEPT ![t] = [successor |-> new, set |-> judged[t]]]
                /\ successor(new)
             \/ /\ revised /\ generated /\ earlier # None
                /\ successor(earlier)
                /\ UNCHANGED <<graphVars, status, current, consumed>>
             \/ /\ revised => IF generated THEN earlier = None
                              ELSE ~ Replaceable(t) /\ ~ Correctable(t)
                /\ UNCHANGED <<graphVars, status, current, consumed, run>>
  /\ UNCHANGED <<premiseVars, upstream, judged, waveVerdict, guard, changes, pc, fresh>>

(* _held_task_entries, and the changes of the next wave.                   *)
Held == {Active[d] : d \in
          {t \in DOMAIN run.rows :
             \/ run.rows[t] = "cannot_determine"
             \/ run.rows[t] \in Corrective /\ status[t] = "in_progress"}}

AccumulatedChanges == Resolved(run.successors \cup run.changes)  \* mutant

NextChanges == Resolved(run.successors)

EndWave ==
  /\ pc = "consume" /\ rows = {}
  /\ LET held == run.held \cup Held
     IN IF NextChanges = {} THEN EndRun(TRUE, held)
        ELSE /\ run' = [run EXCEPT !.held = held, !.changes = NextChanges, !.wave = @ + 1]
             /\ pc' = "wave"
             /\ UNCHANGED <<graphVars, status, premiseVars, waveVars, current, guard,
                            changes, rows, fresh>>

-----------------------------------------------------------------------------
Work == \/ \E done \in BOOLEAN : Execute(done) \/ FinishTurn(done)
        \/ \E evidence \in BOOLEAN : Resume(evidence)

Handle == \/ Revalidate \/ Correct \/ Corrected \/ Replace \/ Replaced
          \/ StopRun \/ Wave \/ Consume \/ EndWave

Next == Work \/ (\E k \in Key : Supersede(k)) \/ Handle

(* The turn runs in one thread that nothing preempts for good; users and   *)
(* the model decide when tasks are worked on and decisions change.         *)
Spec == Init /\ [][Next]_vars /\ WF_vars(Handle)

-----------------------------------------------------------------------------
(* Properties.                                                             *)

(* depends_on stays acyclic however often it is redirected to correctives  *)
(* and replacements (redirect_depends_on).                                 *)
DependenciesAcyclic == Acyclic(deps, tasks)

(* Nothing depends on a superseded task (redirect_depends_on with          *)
(* build_pending_replacement_task): an open task can always be unblocked   *)
(* by finishing tasks.                                                     *)
NoDependencyOnSuperseded ==
  \A u \in tasks : \A d \in deps[u] : ~ Superseded(d)

(* Supersession is one-to-one: exactly the cancelled tasks are superseded, *)
(* each by the one later task that records it as its source, and no task   *)
(* gets two replacements or two correctives, whatever path generated them. *)
LineageSound ==
  /\ \A t \in tasks :
       /\ status[t] = "cancelled" <=> Superseded(t)
       /\ Superseded(t) => /\ supersededBy[t] \in (t + 1)..count
                           /\ origin[supersededBy[t]] = "replacement"
                           /\ source[supersededBy[t]] = t
  /\ \A t, u \in tasks : origin[t] = origin[u] /\ source[t] = source[u] /\ source[t] # None
                           => t = u

(* The turn never points at a superseded task, so finish and the           *)
(* continuation, which do not look, never revive one                       *)
(* (add_pending_replacement, advance_to_open_task).                        *)
CurrentNotSuperseded == ~ Superseded(current)

(* Once a decision change is handled, an open task whose premises are not  *)
(* validated against the active decisions cannot be executed               *)
(* (refresh_task_revalidation, run_premise_revalidations).                 *)
StaleTasksBlocked ==
  pc = "idle" => \A t \in tasks :
    status[t] \in {"pending", "in_progress"} /\ unvalidated[t] # {} => Blocked(t)

(* The tasks t was made from, t included.                                  *)
Lineage[t \in Task] == {t} \cup (IF source[t] = None THEN {} ELSE Lineage[source[t]])

(* After a run that converged, every task that depends on a successor was  *)
(* judged against that replacement, itself or the task it was made from    *)
(* (run_task_change_propagation).                                          *)
ConvergedExaminesDependents ==
  pc = "idle" /\ guard.converged =>
    \A u \in tasks : \A d \in deps[u] : source[d] # None /\ ~ Superseded(u) =>
      \E w \in Lineage[u] : <<source[d], d>> \in upstream[w]

(* No change set comes back, so the repeated_change_set stop is never      *)
(* taken, and a run has fewer waves than the handoff seeded tasks, however *)
(* many were added since: with as many max_waves as seeded tasks no run is *)
(* cut off (run_task_change_propagation).                                  *)
PropagationConverges ==
  pc = "wave" => run.changes \notin run.processed /\ run.wave < BaseTasks

(* Handling a decision ends: propagation through successors that are       *)
(* themselves replaced comes to rest (run_task_change_propagation).        *)
HandlingEnds == pc # "idle" ~> pc = "idle"

(* "True when graph propagation or held downstream work remains            *)
(* unresolved" (propagation_blocks_goal_completion): while the guard       *)
(* reports nothing, no open task is blocked by an upstream change.         *)
GuardCoversBlockedWork ==
  pc = "idle" /\ guard.converged /\ guard.held = {} =>
    \A t \in tasks : status[t] \in {"pending", "in_progress"} => ~ UpstreamBlocked(t)

(* "Persistent graph-level safety" (task_change_propagation_guard): a task *)
(* the guard holds, still open and still undetermined, stays held when the *)
(* run of another change ends.                                             *)
GuardKeepsHeldWork ==
  [][\A t \in guard.held :
       /\ status[t] \in {"pending", "in_progress"}
       /\ waveVerdict[t] = "cannot_determine"
       => t \in guard'.held]_vars

=============================================================================
