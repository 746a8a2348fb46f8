------------------------------ MODULE MissionStore ------------------------------
(***************************************************************************)
(* The store of a mission (ai_tool/mission_memory): its mission file, the  *)
(* evidence files and the execution files, and persist_chat_execution,     *)
(* which records one execution at the end of a chat turn in many separate  *)
(* reads and writes.  Turns of one mission can overlap, because the server *)
(* runs each in a thread, and the server can end between any two steps.    *)
(* Files behave as under POSIX: a rename replaces its target at once.      *)
(***************************************************************************)
EXTENDS Naturals, FiniteSets

CONSTANTS
  Execution,  \* the executions of the mission; each creates one evidence record
  None        \* no file of that name

ASSUME StoreAssumption == None \notin Execution /\ IsFiniteSet(Execution)

VARIABLES
  inode,     \* the contents of mission files, each named for who created it
  target,    \* the file that mission.json names
  tmp,       \* the file that mission.json.tmp names
  fd,        \* the file each execution is writing
  evidence,  \* the evidence records on disk, each named for its creator
  recorded,  \* the execution records on disk
  phase,     \* where each execution is
  clarified, \* its confirmed clarifications: decisions restored or made
  merged,    \* the mission record it has read or is about to write
  refs,      \* its evidence_refs
  number,    \* its execution_sequence
  overlapped \* has an execution started while another one was running

files == <<inode, target, tmp, fd>>
missionVars == <<files, evidence, recorded, phase, clarified, merged, refs, number, overlapped>>

(* Every execution confirms one decision; a mission record holds           *)
(* confirmed_clarifications and user_confirmed_supplements.                *)
Mission      == [decisions : SUBSET Execution, supplements : SUBSET Execution]
BlankMission      == [decisions |-> {}, supplements |-> {}]
Inode        == [state : {"empty", "whole", "garbled"}, mission : Mission]

Phase == {"idle", "started", "merging", "writing", "replacing", "evidence", "numbering",
          "checking", "storing", "done", "failed"}

Persisting(e) == phase[e] \notin {"idle", "done", "failed"}

MissionTypeOK ==
  /\ inode \in [Execution -> Inode]
  /\ target \in Execution \cup {None} /\ tmp \in Execution \cup {None}
  /\ tmp # None => tmp # target
  /\ fd \in [Execution -> Execution \cup {None}]
  /\ evidence \subseteq Execution
  /\ recorded \subseteq Execution
  /\ phase \in [Execution -> Phase]
  /\ clarified \in [Execution -> SUBSET Execution]
  /\ merged \in [Execution -> Mission]
  /\ refs \in [Execution -> SUBSET Execution]
  /\ number \in [Execution -> 0..Cardinality(Execution)]
  /\ overlapped \in BOOLEAN

MissionInit ==
  /\ inode = [e \in Execution |-> [state |-> "empty", mission |-> BlankMission]]
  /\ target = None /\ tmp = None
  /\ fd = [e \in Execution |-> None]
  /\ evidence = {} /\ recorded = {}
  /\ phase = [e \in Execution |-> "idle"]
  /\ clarified = [e \in Execution |-> {}]
  /\ merged = [e \in Execution |-> BlankMission]
  /\ refs = [e \in Execution |-> {}]
  /\ number = [e \in Execution |-> 0]
  /\ overlapped = FALSE

-----------------------------------------------------------------------------
(* get_mission: nothing, a record, or INVALID_JSON.                        *)
MissionReadable == target # None => inode[target].state = "whole"
StoredMission == IF target = None THEN BlankMission ELSE inode[target].mission

ToPhase(e, to) == phase' = [phase EXCEPT ![e] = to]

FailExecution(e) ==
  /\ ToPhase(e, "failed")
  /\ UNCHANGED <<files, evidence, recorded, clarified, merged, refs, number>>

(* mutant: the clarifications of the mission are not restored              *)
OwnDecision(e) == {e}

(* restore_mission_clarifications, and the decision of this execution.     *)
Restored(e) == StoredMission.decisions \cup {e}

(* bind_execution_identity and the restore.  The evidence an execution     *)
(* carries over is that of earlier ones, in persistent_evidence_ids.       *)
BindExecution(e) ==
  /\ phase[e] = "idle"
  /\ overlapped' = (overlapped \/ \E o \in Execution : Persisting(o))
  /\ IF ~ MissionReadable THEN FailExecution(e)
     ELSE /\ ToPhase(e, "started")
          /\ clarified' = [clarified EXCEPT ![e] = Restored(e)]
          /\ \E old \in SUBSET evidence : refs' = [refs EXCEPT ![e] = old]
          /\ UNCHANGED <<files, evidence, recorded, merged, number>>

(* persist_chat_execution reads the mission and merges into it: supplements*)
(* are added to those read, clarifications replace those read.             *)
MergeMission(e) ==
  /\ phase[e] = "started"
  /\ IF ~ MissionReadable THEN FailExecution(e)
     ELSE /\ ToPhase(e, "merging")
          /\ merged' = [merged EXCEPT ![e] =
               [decisions |-> clarified[e],
                supplements |-> StoredMission.supplements \cup clarified[e]]]
          /\ UNCHANGED <<files, evidence, recorded, clarified, refs, number>>

(* put_mission reads the mission again for its original goal, and          *)
(* _write_json opens the temporary file; its name is the same for all.     *)
OpenTmp(e) ==
  /\ phase[e] = "merging"
  /\ IF ~ MissionReadable THEN FailExecution(e)
     ELSE LET file == IF tmp = None THEN e ELSE tmp IN
          /\ ToPhase(e, "writing")
          /\ tmp' = file
          /\ fd' = [fd EXCEPT ![e] = file]
          /\ inode' = [inode EXCEPT ![file].state = "empty"]
          /\ UNCHANGED <<target, evidence, recorded, clarified, merged, refs, number>>

FillTmp(e) ==
  /\ phase[e] = "writing"
  /\ ToPhase(e, "replacing")
  /\ \E state \in IF inode[fd[e]].state = "empty" THEN {"whole"} ELSE {"whole", "garbled"} :
       inode' = [inode EXCEPT ![fd[e]] = [state |-> state, mission |-> merged[e]]]
  /\ UNCHANGED <<target, tmp, fd, evidence, recorded, clarified, merged, refs, number>>

(* The rename moves whatever the name now stands for; if another execution *)
(* has renamed it already, it raises FileNotFoundError.                    *)
ReplaceMission(e) ==
  /\ phase[e] = "replacing"
  /\ IF tmp = None THEN FailExecution(e)
     ELSE /\ ToPhase(e, "evidence")
          /\ target' = tmp /\ tmp' = None
          /\ UNCHANGED <<inode, fd, evidence, recorded, clarified, merged, refs, number>>

(* mutant: a new evidence record is not added to evidence_refs             *)
OldRefs(e) == refs[e]

NewRefs(e) == refs[e] \cup {e}

(* put_evidence of the evidence this execution has produced, if any.       *)
PutEvidence(e) ==
  /\ phase[e] = "evidence"
  /\ IF ~ MissionReadable THEN FailExecution(e)
     ELSE /\ ToPhase(e, "numbering")
          /\ \/ /\ evidence' = evidence \cup {e}
                /\ refs' = [refs EXCEPT ![e] = NewRefs(e)]
             \/ UNCHANGED <<evidence, refs>>
          /\ UNCHANGED <<files, recorded, clarified, merged, number>>

LengthSequence(e) == Cardinality(recorded)  \* mutant: len() without + 1

Sequences(set) == {number[o] : o \in set}

(* max(sequences, default=0) + 1.                                          *)
NextSequence(e) == CHOOSE n \in 1..Cardinality(Execution) + 1 :
  /\ \A o \in recorded : number[o] < n
  /\ n = 1 \/ n - 1 \in Sequences(recorded)

NumberExecution(e) ==
  /\ phase[e] = "numbering"
  /\ ToPhase(e, "checking")
  /\ number' = [number EXCEPT ![e] = NextSequence(e)]
  /\ UNCHANGED <<files, evidence, recorded, clarified, merged, refs>>

(* EXECUTION_SEQUENCE_DUPLICATE among the records on disk and this one.    *)
DistinctNumbers(set) == \A a, b \in set : number[a] = number[b] => a = b

(* EVIDENCE_REF_UNRESOLVED and EVIDENCE_REF_NOT_IN_CREATOR.                *)
RefsValid(e) ==
  /\ refs[e] \subseteq evidence
  /\ \A v \in refs[e] \cap recorded : v \in refs[v]

ExecutionValid(e) ==
  MissionReadable /\ target # None /\ DistinctNumbers(recorded \cup {e}) /\ RefsValid(e)

(* put_execution checks first ...                                          *)
CheckExecution(e) ==
  /\ phase[e] = "checking"
  /\ IF ~ ExecutionValid(e) THEN FailExecution(e)
     ELSE /\ ToPhase(e, "storing")
          /\ UNCHANGED <<files, evidence, recorded, clarified, merged, refs, number>>

(* ... and writes then; nobody else writes a file of that name.            *)
StoreExecution(e) ==
  /\ phase[e] = "storing"
  /\ ToPhase(e, "done")
  /\ recorded' = recorded \cup {e}
  /\ UNCHANGED <<files, evidence, clarified, merged, refs, number>>

(* The server ends: its threads are daemon threads.                        *)
EndPersisting ==
  /\ \E e \in Execution : Persisting(e)
  /\ phase' = [e \in Execution |-> IF Persisting(e) THEN "failed" ELSE phase[e]]
  /\ UNCHANGED <<files, evidence, recorded, clarified, merged, refs, number, overlapped>>

Persist(e) ==
  \/ MergeMission(e) \/ OpenTmp(e) \/ FillTmp(e) \/ ReplaceMission(e)
  \/ PutEvidence(e) \/ NumberExecution(e) \/ CheckExecution(e) \/ StoreExecution(e)

MissionNext ==
  \/ EndPersisting
  \/ \E e \in Execution : BindExecution(e) \/ (Persist(e) /\ UNCHANGED overlapped)

MissionSpec == MissionInit /\ [][MissionNext]_missionVars

-----------------------------------------------------------------------------
(* Properties.                                                             *)

(* The creator of an evidence record, once it is stored, cites it: the     *)
(* check EVIDENCE_REF_NOT_IN_CREATOR never rejects a later execution that  *)
(* carries the evidence over (persist_chat_execution, put_execution).      *)
CreatorCites == \A v \in evidence \cap recorded : v \in refs[v]

(* While executions do not overlap, the stored executions of a mission are *)
(* numbered one after the other, also across crashes and failed executions *)
(* (next_execution_sequence, put_execution).                               *)
SequencesInOrder == ~ overlapped => Sequences(recorded) = 1..Cardinality(recorded)

(* While executions do not overlap, mission.json is absent or whole at     *)
(* every moment, so a crash never costs the mission, and a human decision  *)
(* of a stored execution stays in its supplements and among its confirmed  *)
(* clarifications, although every execution replaces those by its own      *)
(* (_write_json, restore_mission_clarifications, persist_chat_execution).  *)
DecisionsKept ==
  ~ overlapped /\ target # None =>
    MissionReadable /\ recorded \subseteq StoredMission.decisions \cap StoredMission.supplements

=============================================================================
