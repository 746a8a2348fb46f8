--------------------------- MODULE MissionStore_proofs ---------------------------
(***************************************************************************)
(* What TLAPS proves about MissionStore for any number of executions: what *)
(* holds however they overlap, and what holds while they do not.           *)
(***************************************************************************)
EXTENDS MissionStore, FiniteSetTheorems, WellFoundedInduction, TLAPS

(* The types without those of the numbers.                                 *)
StoreTypes ==
  /\ inode \in [Execution -> Inode]
  /\ target \in Execution \cup {None} /\ tmp \in Execution \cup {None}
  /\ tmp # None => tmp # target
  /\ fd \in [Execution -> Execution \cup {None}]
  /\ evidence \subseteq Execution /\ recorded \subseteq Execution
  /\ phase \in [Execution -> Phase]
  /\ clarified \in [Execution -> SUBSET Execution]
  /\ merged \in [Execution -> Mission]
  /\ refs \in [Execution -> SUBSET Execution]
  /\ overlapped \in BOOLEAN

(* A file is named for an execution that has opened it.                    *)
NotYetWritten == {"idle", "started", "merging"}
FilesOpened ==
  \A e \in Execution : phase[e] \in NotYetWritten => target # e /\ tmp # e

(* An evidence record is there only after its creator cites it.            *)
EvidenceCited ==
  \A v \in evidence :
    phase[v] \notin NotYetWritten \cup {"writing", "replacing", "evidence"} /\ v \in refs[v]

Holds(mission, set) == set \subseteq mission.decisions /\ set \subseteq mission.supplements

(* While executions do not overlap there is one; the mission file is whole *)
(* and has every decision of a stored execution; the execution that writes *)
(* carries all of them and its own.                                        *)
Undisturbed ==
  /\ \A e, o \in Execution : Persisting(e) /\ Persisting(o) => e = o
  /\ MissionReadable
  /\ Holds(StoredMission, recorded)
  /\ \A e \in Execution :
       /\ phase[e] = "started" => recorded \cup {e} \subseteq clarified[e]
       /\ phase[e] \in {"merging", "writing", "replacing"} => Holds(merged[e], recorded \cup {e})
       /\ phase[e] \in {"writing", "replacing"} => tmp = fd[e] /\ tmp # None
       /\ phase[e] = "writing" => inode[tmp].state = "empty"
       /\ phase[e] = "replacing" => inode[tmp] = [state |-> "whole", mission |-> merged[e]]
       /\ phase[e] \in {"evidence", "numbering", "checking", "storing"} => Holds(StoredMission, {e})

MissionInv ==
  /\ StoreTypes
  /\ FilesOpened
  /\ EvidenceCited
  /\ ~ overlapped => Undisturbed

LEMMA MissionRecords ==
  /\ BlankMission \in Mission
  /\ \A d, s \in SUBSET Execution : [decisions |-> d, supplements |-> s] \in Mission
  /\ \A m \in Mission : m.decisions \subseteq Execution /\ m.supplements \subseteq Execution
  /\ \A i \in Inode : i.mission \in Mission
  BY DEF BlankMission, Mission, Inode

LEMMA MissionInitInv == MissionInit => MissionInv
<1> SUFFICES ASSUME MissionInit PROVE MissionInv
  OBVIOUS
<1>1. [state |-> "empty", mission |-> BlankMission] \in Inode
  BY MissionRecords DEF Inode
<1>2. StoreTypes
  BY <1>1, MissionRecords, StoreAssumption DEF MissionInit, StoreTypes, Phase
<1>3. FilesOpened /\ EvidenceCited
  BY StoreAssumption DEF MissionInit, FilesOpened, EvidenceCited
<1>4. Undisturbed
  BY DEF MissionInit, Undisturbed, Persisting, MissionReadable, Holds, StoredMission, BlankMission
<1> QED BY <1>2, <1>3, <1>4 DEF MissionInv

-----------------------------------------------------------------------------
LEMMA MissionStep == MissionInv /\ [MissionNext]_missionVars => MissionInv'
<1> SUFFICES ASSUME MissionInv, [MissionNext]_missionVars PROVE MissionInv'
  OBVIOUS
<1> USE StoreAssumption DEF MissionInv, NotYetWritten, Phase, Persisting
<1>1. ASSUME NEW e \in Execution, BindExecution(e) PROVE MissionInv'
  <2>1. CASE ~ MissionReadable
    <3>1. /\ phase' = [phase EXCEPT ![e] = "failed"] /\ overlapped
          /\ UNCHANGED <<inode, target, tmp, fd, evidence, recorded, clarified, merged, refs>>
      BY <1>1, <2>1 DEF BindExecution, FailExecution, ToPhase, files, Undisturbed
    <3>2. overlapped'
      BY <1>1, <3>1 DEF BindExecution, StoreTypes
    <3> QED
      BY <1>1, <3>1, <3>2 DEF BindExecution, StoreTypes, FilesOpened, EvidenceCited
  <2>2. CASE MissionReadable
    <3>1. PICK old \in SUBSET evidence :
            /\ phase[e] = "idle" /\ phase' = [phase EXCEPT ![e] = "started"]
            /\ clarified' = [clarified EXCEPT ![e] = StoredMission.decisions \cup {e}]
            /\ refs' = [refs EXCEPT ![e] = old]
            /\ UNCHANGED <<inode, target, tmp, fd, evidence, recorded, merged>>
            /\ overlapped' = (overlapped \/ \E o \in Execution : Persisting(o))
      BY <1>1, <2>2 DEF BindExecution, ToPhase, files, Restored
    <3>2. StoredMission \in Mission
      BY MissionRecords DEF StoredMission, StoreTypes
    <3>3. (StoreTypes /\ FilesOpened /\ EvidenceCited)'
      BY <3>1, <3>2, MissionRecords DEF StoreTypes, FilesOpened, EvidenceCited
    <3>4. ASSUME ~ overlapped' PROVE Undisturbed'
      <4>1. \A o \in Execution : ~ Persisting(o)
        BY <3>1, <3>4
      <4>2. StoredMission' = StoredMission /\ MissionReadable'
        BY <2>2, <3>1 DEF StoredMission, MissionReadable
      <4>3. \A o \in Execution : Persisting(o)' => o = e
        BY <3>1, <4>1 DEF StoreTypes
      <4> QED
        BY <3>1, <3>4, <4>2, <4>3 DEF StoreTypes, Undisturbed, Holds
    <3> QED BY <3>3, <3>4
  <2> QED BY <2>1, <2>2
<1>2. ASSUME NEW e \in Execution, MergeMission(e), UNCHANGED overlapped PROVE MissionInv'
  <2>1. CASE ~ MissionReadable
    <3> QED
      BY <1>2, <2>1
         DEF MergeMission, FailExecution, ToPhase, files, StoreTypes, FilesOpened, EvidenceCited, Undisturbed
  <2>2. CASE MissionReadable
    <3> DEFINE m == [decisions |-> clarified[e], supplements |-> StoredMission.supplements \cup clarified[e]]
    <3>1. /\ phase[e] = "started" /\ phase' = [phase EXCEPT ![e] = "merging"]
          /\ merged' = [merged EXCEPT ![e] = m]
          /\ UNCHANGED <<inode, target, tmp, fd, evidence, recorded, clarified, refs>>
      BY <1>2, <2>2 DEF MergeMission, ToPhase, files
    <3>2. m \in Mission /\ m.decisions = clarified[e] /\ clarified[e] \subseteq m.supplements
      BY MissionRecords DEF StoredMission, StoreTypes
    <3> HIDE DEF m
    <3>3. (StoreTypes /\ FilesOpened /\ EvidenceCited)'
      <4>1. StoreTypes'
        BY <1>2, <3>1, <3>2 DEF StoreTypes
      <4>2. FilesOpened'
        BY <3>1, <3>2 DEF StoreTypes, FilesOpened
      <4>3. EvidenceCited'
        BY <3>1, <3>2 DEF StoreTypes, EvidenceCited
      <4> QED BY <4>1, <4>2, <4>3
    <3>4. ASSUME ~ overlapped' PROVE Undisturbed'
      <4>1. StoredMission' = StoredMission /\ MissionReadable'
        BY <2>2, <3>1 DEF StoredMission, MissionReadable
      <4>2. Holds(m, recorded \cup {e}) /\ Undisturbed
        BY <1>2, <3>1, <3>2, <3>4 DEF Undisturbed, Holds
      <4> QED
        BY <3>1, <4>1, <4>2 DEF StoreTypes, Undisturbed, Holds
    <3> QED BY <3>3, <3>4
  <2> QED BY <2>1, <2>2
<1>3. ASSUME NEW e \in Execution, OpenTmp(e), UNCHANGED overlapped PROVE MissionInv'
  <2>1. CASE ~ MissionReadable
    <3> QED
      BY <1>3, <2>1
         DEF OpenTmp, FailExecution, ToPhase, files, StoreTypes, FilesOpened, EvidenceCited, Undisturbed
  <2>2. CASE MissionReadable
    <3> DEFINE file == IF tmp = None THEN e ELSE tmp
    <3>1. /\ phase[e] = "merging" /\ phase' = [phase EXCEPT ![e] = "writing"]
          /\ tmp' = file /\ fd' = [fd EXCEPT ![e] = file]
          /\ inode' = [inode EXCEPT ![file] = [inode[file] EXCEPT !.state = "empty"]]
          /\ UNCHANGED <<target, evidence, recorded, clarified, merged, refs>>
      BY <1>3, <2>2 DEF OpenTmp, ToPhase
    <3>2. file \in Execution /\ file # target /\ (file = e \/ file = tmp)
      BY <3>1 DEF StoreTypes, FilesOpened
    <3> HIDE DEF file
    <3> DEFINE i == [inode[file] EXCEPT !.state = "empty"]
    <3>3. i \in Inode /\ i.state = "empty"
      BY <3>2 DEF StoreTypes, Inode
    <3> HIDE DEF i
    <3>4. (StoreTypes /\ FilesOpened /\ EvidenceCited)'
      <4>1. StoreTypes'
        BY <1>3, <3>1, <3>2, <3>3 DEF StoreTypes, i
      <4>2. FilesOpened'
        BY <3>1, <3>2, <3>3 DEF StoreTypes, FilesOpened
      <4>3. EvidenceCited'
        BY <3>1, <3>2, <3>3 DEF StoreTypes, EvidenceCited
      <4> QED BY <4>1, <4>2, <4>3
    <3>5. ASSUME ~ overlapped' PROVE Undisturbed'
      <4>1. StoredMission' = StoredMission /\ MissionReadable'
        BY <2>2, <3>1, <3>2 DEF StoredMission, MissionReadable, StoreTypes
      <4>2. inode'[tmp'].state = "empty" /\ fd'[e] = tmp' /\ tmp' # None
        BY <3>1, <3>2, <3>3 DEF StoreTypes, i
      <4>3. \A o \in Execution : Persisting(o)' => o = e
        BY <1>3, <3>1, <3>5 DEF StoreTypes, Undisturbed
      <4> QED
        BY <1>3, <3>1, <3>5, <4>1, <4>2, <4>3 DEF StoreTypes, Undisturbed, Holds
    <3> QED BY <3>4, <3>5
  <2> QED BY <2>1, <2>2
<1>4. ASSUME NEW e \in Execution, FillTmp(e), UNCHANGED overlapped PROVE MissionInv'
  <2>1. PICK state \in IF inode[fd[e]].state = "empty" THEN {"whole"} ELSE {"whole", "garbled"} :
          /\ phase[e] = "writing" /\ phase' = [phase EXCEPT ![e] = "replacing"]
          /\ inode' = [inode EXCEPT ![fd[e]] = [state |-> state, mission |-> merged[e]]]
          /\ UNCHANGED <<target, tmp, fd, evidence, recorded, clarified, merged, refs>>
    BY <1>4 DEF FillTmp, ToPhase
  <2>2. [state |-> state, mission |-> merged[e]] \in Inode
    BY DEF StoreTypes, Inode
  <2>3. (StoreTypes /\ FilesOpened /\ EvidenceCited)'
    <3>1. StoreTypes'
      BY <1>4, <2>1, <2>2 DEF StoreTypes
    <3>2. FilesOpened'
      BY <2>1, <2>2 DEF StoreTypes, FilesOpened
    <3>3. EvidenceCited'
      BY <2>1, <2>2 DEF StoreTypes, EvidenceCited
    <3> QED BY <3>1, <3>2, <3>3
  <2>4. ASSUME ~ overlapped' PROVE Undisturbed'
    <3>1. Undisturbed /\ fd[e] = tmp /\ tmp \in Execution /\ tmp # target /\ state = "whole"
      BY <1>4, <2>1, <2>4 DEF StoreTypes, Undisturbed
    <3>2. StoredMission' = StoredMission /\ MissionReadable'
      BY <2>1, <3>1 DEF StoredMission, MissionReadable, StoreTypes, Undisturbed
    <3>3. inode'[tmp'] = [state |-> "whole", mission |-> merged'[e]] /\ fd'[e] = tmp' /\ tmp' # None
      BY <2>1, <3>1 DEF StoreTypes
    <3>4. \A o \in Execution : Persisting(o)' => o = e
      BY <2>1, <3>1 DEF StoreTypes, Undisturbed
    <3> QED
      BY <2>1, <3>1, <3>2, <3>3, <3>4 DEF StoreTypes, Undisturbed, Holds
  <2> QED BY <2>3, <2>4
<1>5. ASSUME NEW e \in Execution, ReplaceMission(e), UNCHANGED overlapped PROVE MissionInv'
  <2>1. CASE tmp = None
    <3>1. overlapped'
      BY <1>5, <2>1 DEF ReplaceMission, StoreTypes, Undisturbed
    <3> QED
      BY <1>5, <2>1, <3>1
         DEF ReplaceMission, FailExecution, ToPhase, files, StoreTypes, FilesOpened, EvidenceCited
  <2>2. CASE tmp # None
    <3>1. /\ phase[e] = "replacing" /\ phase' = [phase EXCEPT ![e] = "evidence"]
          /\ target' = tmp /\ tmp' = None
          /\ UNCHANGED <<inode, fd, evidence, recorded, clarified, merged, refs>>
      BY <1>5, <2>2 DEF ReplaceMission, ToPhase
    <3>2. (StoreTypes /\ FilesOpened /\ EvidenceCited)'
      <4>1. StoreTypes'
        BY <1>5, <2>2, <3>1 DEF StoreTypes
      <4>2. FilesOpened'
        BY <2>2, <3>1 DEF StoreTypes, FilesOpened
      <4>3. EvidenceCited'
        BY <2>2, <3>1 DEF StoreTypes, EvidenceCited
      <4> QED BY <4>1, <4>2, <4>3
    <3>3. ASSUME ~ overlapped' PROVE Undisturbed'
      <4>1. inode[tmp] = [state |-> "whole", mission |-> merged[e]] /\ Holds(merged[e], recorded \cup {e})
        BY <1>5, <3>1, <3>3 DEF Undisturbed
      <4>2. StoredMission' = merged[e] /\ MissionReadable'
        BY <2>2, <3>1, <4>1 DEF StoredMission, MissionReadable
      <4>3. \A o \in Execution : Persisting(o)' => o = e
        BY <1>5, <3>1, <3>3 DEF StoreTypes, Undisturbed
      <4> QED
        BY <3>1, <4>1, <4>2, <4>3 DEF StoreTypes, Undisturbed, Holds
    <3> QED BY <3>2, <3>3
  <2> QED BY <2>1, <2>2
<1>6. ASSUME NEW e \in Execution, PutEvidence(e), UNCHANGED overlapped PROVE MissionInv'
  <2>1. /\ phase[e] = "evidence" /\ phase' \in {[phase EXCEPT ![e] = to] : to \in {"failed", "numbering"}}
        /\ UNCHANGED <<inode, target, tmp, fd, recorded, clarified, merged>>
        /\ \/ UNCHANGED <<evidence, refs>>
           \/ /\ evidence' = evidence \cup {e} /\ refs' = [refs EXCEPT ![e] = refs[e] \cup {e}]
              /\ phase' = [phase EXCEPT ![e] = "numbering"]
    BY <1>6 DEF PutEvidence, FailExecution, ToPhase, files, NewRefs
  <2>2. StoreTypes' /\ FilesOpened'
    BY <1>6, <2>1 DEF StoreTypes, FilesOpened
  <2>3. EvidenceCited'
    BY <2>1 DEF StoreTypes, EvidenceCited
  <2>4. StoredMission' = StoredMission /\ MissionReadable' = MissionReadable
    BY <2>1 DEF StoredMission, MissionReadable
  <2>5. (~ overlapped => Undisturbed)'
    BY <1>6, <2>1, <2>4 DEF StoreTypes, Undisturbed, Holds
  <2> QED BY <2>2, <2>3, <2>5
<1>7. ASSUME NEW e \in Execution, NumberExecution(e) \/ CheckExecution(e), UNCHANGED overlapped
      PROVE  MissionInv'
  <2>1. /\ \/ phase[e] = "numbering" /\ phase' = [phase EXCEPT ![e] = "checking"]
           \/ phase[e] = "checking" /\ phase' = [phase EXCEPT ![e] = "failed"]
           \/ phase[e] = "checking" /\ phase' = [phase EXCEPT ![e] = "storing"]
        /\ UNCHANGED <<inode, target, tmp, fd, evidence, recorded, clarified, merged, refs>>
    BY <1>7 DEF NumberExecution, CheckExecution, FailExecution, ToPhase, files
  <2>2. (StoreTypes /\ FilesOpened /\ EvidenceCited)'
    BY <1>7, <2>1 DEF StoreTypes, FilesOpened, EvidenceCited
  <2>3. StoredMission' = StoredMission /\ MissionReadable' = MissionReadable
    BY <2>1 DEF StoredMission, MissionReadable
  <2>4. (~ overlapped => Undisturbed)'
    BY <1>7, <2>1, <2>3 DEF StoreTypes, Undisturbed, Holds
  <2> QED BY <2>2, <2>4
<1>8. ASSUME NEW e \in Execution, StoreExecution(e), UNCHANGED overlapped PROVE MissionInv'
  <2>1. /\ phase[e] = "storing" /\ phase' = [phase EXCEPT ![e] = "done"]
        /\ recorded' = recorded \cup {e}
        /\ UNCHANGED <<inode, target, tmp, fd, evidence, clarified, merged, refs>>
    BY <1>8 DEF StoreExecution, ToPhase, files
  <2>2. (StoreTypes /\ FilesOpened /\ EvidenceCited)'
    BY <1>8, <2>1 DEF StoreTypes, FilesOpened, EvidenceCited
  <2>3. StoredMission' = StoredMission /\ MissionReadable' = MissionReadable
    BY <2>1 DEF StoredMission, MissionReadable
  <2>4. ASSUME ~ overlapped' PROVE Undisturbed'
    <3>1. \A o \in Execution : ~ Persisting(o)'
      BY <1>8, <2>1, <2>4 DEF StoreTypes, Undisturbed
    <3> QED
      BY <1>8, <2>1, <2>3, <2>4, <3>1 DEF StoreTypes, Undisturbed, Holds
  <2> QED BY <2>2, <2>4
<1>9. CASE EndPersisting
  <2>1. (StoreTypes /\ FilesOpened /\ EvidenceCited)'
    BY <1>9 DEF EndPersisting, files, StoreTypes, FilesOpened, EvidenceCited
  <2>2. StoredMission' = StoredMission /\ MissionReadable' = MissionReadable
    BY <1>9 DEF EndPersisting, files, StoredMission, MissionReadable
  <2>3. (~ overlapped => Undisturbed)'
    BY <1>9, <2>2 DEF EndPersisting, files, StoreTypes, Undisturbed, Holds
  <2> QED BY <2>1, <2>3
<1>10. CASE UNCHANGED missionVars
  BY <1>10
     DEF missionVars, files, StoreTypes, FilesOpened, EvidenceCited, Undisturbed, Holds, StoredMission,
         MissionReadable
<1> QED
  BY <1>1, <1>2, <1>3, <1>4, <1>5, <1>6, <1>7, <1>8, <1>9, <1>10 DEF MissionNext, Persist

-----------------------------------------------------------------------------
(* The invariant from which the theorems follow.                           *)
THEOREM MissionInvariant == MissionSpec => []MissionInv
<1> QED BY MissionInitInv, MissionStep, PTL DEF MissionSpec

(* However executions overlap and wherever the server ends, the creator of *)
(* a stored evidence record cites it (persist_chat_execution).             *)
THEOREM EvidenceIsCited == MissionSpec => []CreatorCites
<1>1. MissionInv => CreatorCites
  BY DEF MissionInv, EvidenceCited, CreatorCites
<1> QED BY <1>1, MissionInvariant, PTL

(* Any number of executions that do not overlap, each of which may be cut  *)
(* off anywhere, leave a mission file that reads and that holds every      *)
(* human decision of a stored execution (_write_json,                      *)
(* restore_mission_clarifications, persist_chat_execution).                *)
THEOREM DecisionsStay == MissionSpec => []DecisionsKept
<1>1. MissionInv => DecisionsKept
  BY DEF MissionInv, Undisturbed, Holds, DecisionsKept
<1> QED BY <1>1, MissionInvariant, PTL

-----------------------------------------------------------------------------
(* The numbers: while executions do not overlap, the stored ones are       *)
(* numbered from 1 on, and the one about to be stored has the next number. *)
NumbersAscend ==
  /\ number \in [Execution -> Nat]
  /\ Sequences(recorded) = 1..Cardinality(recorded)
  /\ \A e \in recorded : phase[e] = "done"
  /\ \A e \in Execution : phase[e] \in {"checking", "storing"} => number[e] = Cardinality(recorded) + 1

NumberInv == ~ overlapped => NumbersAscend

LEMMA RecordedFinite ==
  ASSUME MissionInv
  PROVE  /\ IsFiniteSet(recorded) /\ Cardinality(recorded) \in Nat
         /\ Cardinality(recorded) <= Cardinality(Execution) /\ Cardinality(Execution) \in Nat
<1>1. recorded \in SUBSET Execution /\ IsFiniteSet(Execution)
  BY StoreAssumption DEF MissionInv, StoreTypes
<1> QED BY <1>1, FS_Subset, FS_CardinalityType

(* With the numbers 1 to k taken, the next one is k + 1.                   *)
LEMMA NextNumber ==
  ASSUME MissionInv, NumbersAscend, NEW e \in Execution
  PROVE  NextSequence(e) = Cardinality(recorded) + 1
<1> DEFINE k == Cardinality(recorded)
           Next(n) == /\ \A o \in recorded : number[o] < n
                      /\ n = 1 \/ n - 1 \in Sequences(recorded)
<1>1. k \in Nat /\ k + 1 \in 1..Cardinality(Execution) + 1
  BY RecordedFinite
<1>2. Sequences(recorded) = 1..k /\ \A o \in recorded : number[o] \in Sequences(recorded)
  BY DEF NumbersAscend, Sequences
<1>3. Next(k + 1)
  BY <1>1, <1>2
<1>4. ASSUME NEW n \in 1..Cardinality(Execution) + 1, Next(n) PROVE n = k + 1
  <2>1. n \in Nat /\ n >= 1 /\ n <= k + 1
    BY <1>1, <1>2, <1>4, RecordedFinite
  <2>2. CASE n <= k
    <3>1. n \in Sequences(recorded)
      BY <1>1, <1>2, <2>1, <2>2
    <3>2. PICK o \in recorded : number[o] = n
      BY <3>1 DEF Sequences
    <3> QED BY <1>4, <2>1, <3>2
  <2> QED BY <1>1, <2>1, <2>2
<1>5. NextSequence(e) = CHOOSE n \in 1..Cardinality(Execution) + 1 : Next(n)
  BY DEF NextSequence
<1> HIDE DEF Next, k
<1>6. (CHOOSE n \in 1..Cardinality(Execution) + 1 : Next(n)) = k + 1
  BY <1>1, <1>3, <1>4
<1> QED BY <1>5, <1>6 DEF k

LEMMA NumberInit == MissionInit => NumberInv
<1> SUFFICES ASSUME MissionInit PROVE NumbersAscend
  BY DEF NumberInv
<1>1. Cardinality(recorded) = 0 /\ Sequences(recorded) = {}
  BY FS_EmptySet DEF MissionInit, Sequences
<1>2. Sequences(recorded) = 1..Cardinality(recorded)
  BY <1>1
<1>3. number \in [Execution -> Nat] /\ recorded = {} /\ \A e \in Execution : phase[e] = "idle"
  BY DEF MissionInit
<1> QED BY <1>2, <1>3 DEF NumbersAscend

LEMMA NumberStep == MissionInv /\ MissionInv' /\ NumberInv /\ [MissionNext]_missionVars => NumberInv'
<1> SUFFICES ASSUME MissionInv, MissionInv', NumberInv, [MissionNext]_missionVars, ~ overlapped'
             PROVE  NumbersAscend'
  BY DEF NumberInv
<1>0. ~ overlapped /\ NumbersAscend /\ phase \in [Execution -> Phase] /\ recorded \subseteq Execution
  BY DEF MissionNext, BindExecution, EndPersisting, missionVars, MissionInv, StoreTypes, NumberInv
<1>1. ASSUME NEW e \in Execution,
             \/ BindExecution(e)
             \/ MergeMission(e) \/ OpenTmp(e) \/ FillTmp(e) \/ ReplaceMission(e) \/ PutEvidence(e)
             \/ CheckExecution(e)
      PROVE  NumbersAscend'
  <2>1. /\ UNCHANGED <<number, recorded>>
        /\ \E to \in Phase : /\ phase[e] # "done" /\ phase' = [phase EXCEPT ![e] = to]
                             /\ to = "checking" => phase[e] = "checking"
                             /\ to = "storing" => phase[e] = "checking"
    BY <1>1
       DEF BindExecution, MergeMission, OpenTmp, FillTmp, ReplaceMission, PutEvidence, CheckExecution,
           FailExecution, ToPhase, Phase
  <2> QED
    BY <1>0, <2>1 DEF NumbersAscend, Sequences
<1>2. ASSUME NEW e \in Execution, NumberExecution(e) PROVE NumbersAscend'
  <2>1. /\ phase[e] = "numbering" /\ phase' = [phase EXCEPT ![e] = "checking"]
        /\ number' = [number EXCEPT ![e] = Cardinality(recorded) + 1]
        /\ UNCHANGED recorded
    BY <1>0, <1>2, NextNumber DEF NumberExecution, ToPhase
  <2>2. e \notin recorded /\ Cardinality(recorded) \in Nat
    BY <1>0, <2>1, RecordedFinite DEF NumbersAscend
  <2>3. number' \in [Execution -> Nat] /\ \A o \in recorded : number'[o] = number[o]
    BY <1>0, <2>1, <2>2 DEF NumbersAscend
  <2>4. Sequences(recorded)' = Sequences(recorded)
    BY <2>1, <2>3 DEF Sequences
  <2>5. \A o \in Execution : phase'[o] \in {"checking", "storing"} => number'[o] = Cardinality(recorded) + 1
    BY <1>0, <2>1 DEF NumbersAscend
  <2> QED
    BY <1>0, <2>1, <2>2, <2>3, <2>4, <2>5 DEF NumbersAscend
<1>3. ASSUME NEW e \in Execution, StoreExecution(e), UNCHANGED overlapped PROVE NumbersAscend'
  <2>1. /\ phase[e] = "storing" /\ phase' = [phase EXCEPT ![e] = "done"]
        /\ recorded' = recorded \cup {e} /\ UNCHANGED number
    BY <1>3 DEF StoreExecution, ToPhase
  <2>2. e \notin recorded /\ number[e] = Cardinality(recorded) + 1
    BY <1>0, <2>1 DEF NumbersAscend
  <2>3. Cardinality(recorded)' = Cardinality(recorded) + 1 /\ Cardinality(recorded) \in Nat
    BY <2>1, <2>2, RecordedFinite, FS_AddElement
  <2>4. Sequences(recorded)' = Sequences(recorded) \cup {number[e]}
    BY <2>1 DEF Sequences
  <2>5. Sequences(recorded)' = 1..Cardinality(recorded)'
    BY <1>0, <2>2, <2>3, <2>4 DEF NumbersAscend
  <2>6. \A o \in Execution : phase'[o] \notin {"checking", "storing"}
    BY <1>0, <1>3, <2>1 DEF MissionInv, Undisturbed, Persisting
  <2> QED
    BY <1>0, <2>1, <2>5, <2>6 DEF NumbersAscend
<1>4. CASE EndPersisting
  BY <1>0, <1>4 DEF EndPersisting, Persisting, NumbersAscend, Sequences
<1>5. CASE UNCHANGED missionVars
  BY <1>0, <1>5 DEF missionVars, NumbersAscend, Sequences
<1> QED
  BY <1>1, <1>2, <1>3, <1>4, <1>5 DEF MissionNext, Persist

(* Any number of executions that do not overlap are numbered without a gap *)
(* or a repetition, wherever some of them fail or are cut off              *)
(* (next_execution_sequence, put_execution).                               *)
THEOREM NumberedInOrder == MissionSpec => []SequencesInOrder
<1>1. NumberInv => SequencesInOrder
  BY DEF NumberInv, NumbersAscend, SequencesInOrder
<1> QED BY <1>1, MissionInvariant, NumberInit, NumberStep, PTL DEF MissionSpec

-----------------------------------------------------------------------------
(* The numbers stay small however executions overlap: the next one is at   *)
(* most one more than there are records, also when some are repeated.      *)
NumbersBounded ==
  /\ number \in [Execution -> 0..Cardinality(Execution)]
  /\ \A e \in recorded : phase[e] = "done" /\ number[e] <= Cardinality(recorded)
  /\ \A e \in Execution :
       phase[e] \in {"checking", "storing"} => number[e] <= Cardinality(recorded) + 1

LEMMA LeastElement ==
  ASSUME NEW T, T \subseteq Nat, T # {}
  PROVE  \E x \in T : \A y \in T : x <= y
<1> DEFINE R == OpToRel(<, Nat)
<1>1. IsWellFoundedOn(R, Nat)
  BY NatLessThanWellFounded
<1>2. \A x, y \in Nat : x < y => <<x, y>> \in R
  BY DEF OpToRel
<1> HIDE DEF R
<1>3. PICK x \in T : \A y \in T : ~ (<<y, x>> \in R)
  BY <1>1, WFMin
<1>4. \A y \in T : ~ (y < x)
  BY <1>2, <1>3
<1> QED BY <1>3, <1>4

(* There is a next number: the least one above all that are taken.         *)
LEMMA NextIsBounded ==
  ASSUME MissionInv, NumbersBounded, NEW e \in Execution
  PROVE  NextSequence(e) \in 1..(Cardinality(recorded) + 1)
<1> DEFINE k == Cardinality(recorded)
           Above(n) == \A o \in recorded : number[o] < n
           Next(n)  == Above(n) /\ (n = 1 \/ n - 1 \in Sequences(recorded))
           T == {n \in 1..(k + 1) : Above(n)}
<1>1. /\ k \in Nat /\ k + 1 \in 1..Cardinality(Execution) + 1 /\ Cardinality(Execution) \in Nat
      /\ 1..(k + 1) \subseteq 1..Cardinality(Execution) + 1
  BY RecordedFinite
<1>2. \A o \in recorded : number[o] \in Nat /\ number[o] <= k
  BY <1>1 DEF NumbersBounded, MissionInv, StoreTypes
<1>3. T \subseteq Nat /\ T # {}
  <2>1. k + 1 \in T
    BY <1>1, <1>2
  <2> QED BY <2>1, <1>1
<1>4. PICK n \in T : \A m \in T : n <= m
  <2> HIDE DEF T
  <2> QED BY <1>3, LeastElement
<1>5. n = 1 \/ n - 1 \in Sequences(recorded)
  <2>1. CASE n # 1
    <3>1. n - 1 \in 1..(k + 1) /\ n - 1 \notin T
      BY <1>1, <1>4, <2>1
    <3>2. PICK o \in recorded : ~ (number[o] < n - 1)
      BY <3>1
    <3>3. number[o] = n - 1
      BY <1>1, <1>2, <1>4, <3>1, <3>2
    <3> QED BY <3>3 DEF Sequences
  <2> QED BY <2>1
<1>6. \A m \in 1..Cardinality(Execution) + 1 : Next(m) => m <= k + 1
  <2> SUFFICES ASSUME NEW m \in 1..Cardinality(Execution) + 1, Next(m), m # 1
               PROVE  m <= k + 1
    BY <1>1
  <2>1. PICK o \in recorded : m - 1 = number[o]
    BY DEF Sequences
  <2> QED BY <2>1, <1>1, <1>2
<1>7. NextSequence(e) = CHOOSE m \in 1..Cardinality(Execution) + 1 : Next(m)
  BY DEF NextSequence
<1>8. n \in 1..Cardinality(Execution) + 1 /\ Next(n)
  BY <1>1, <1>4, <1>5
<1> HIDE DEF Next, k
<1>9. NextSequence(e) \in 1..Cardinality(Execution) + 1 /\ Next(NextSequence(e))
  BY <1>7, <1>8
<1> QED BY <1>1, <1>6, <1>9 DEF k

LEMMA BoundInit == MissionInit => NumbersBounded
<1> SUFFICES ASSUME MissionInit PROVE NumbersBounded
  OBVIOUS
<1>1. Cardinality(Execution) \in Nat
  BY StoreAssumption, FS_CardinalityType
<1>2. number \in [Execution -> 0..Cardinality(Execution)] /\ recorded = {}
      /\ \A e \in Execution : phase[e] = "idle"
  BY <1>1 DEF MissionInit
<1> QED BY <1>2 DEF NumbersBounded

LEMMA BoundStep ==
  MissionInv /\ NumbersBounded /\ [MissionNext]_missionVars => NumbersBounded'
<1> SUFFICES ASSUME MissionInv, NumbersBounded, [MissionNext]_missionVars PROVE NumbersBounded'
  OBVIOUS
<1>0. phase \in [Execution -> Phase] /\ recorded \subseteq Execution
  BY DEF MissionInv, StoreTypes
<1>f. /\ IsFiniteSet(recorded) /\ Cardinality(recorded) \in Nat
      /\ Cardinality(recorded) <= Cardinality(Execution) /\ Cardinality(Execution) \in Nat
  BY RecordedFinite
<1>1. ASSUME NEW e \in Execution,
             \/ BindExecution(e)
             \/ MergeMission(e) \/ OpenTmp(e) \/ FillTmp(e) \/ ReplaceMission(e) \/ PutEvidence(e)
             \/ CheckExecution(e)
      PROVE  NumbersBounded'
  <2>1. /\ UNCHANGED <<number, recorded>>
        /\ \E to \in Phase : /\ phase[e] # "done" /\ phase' = [phase EXCEPT ![e] = to]
                             /\ to \in {"checking", "storing"} => phase[e] = "checking"
    BY <1>1
       DEF BindExecution, MergeMission, OpenTmp, FillTmp, ReplaceMission, PutEvidence, CheckExecution,
           FailExecution, ToPhase, Phase
  <2> QED
    BY <1>0, <2>1 DEF NumbersBounded
<1>2. ASSUME NEW e \in Execution, NumberExecution(e) PROVE NumbersBounded'
  <2>1. /\ phase[e] = "numbering" /\ phase' = [phase EXCEPT ![e] = "checking"]
        /\ number' = [number EXCEPT ![e] = NextSequence(e)] /\ UNCHANGED recorded
    BY <1>2 DEF NumberExecution, ToPhase
  <2>2. NextSequence(e) \in 1..(Cardinality(recorded) + 1)
    BY NextIsBounded
  <2>3. e \notin recorded
    BY <2>1 DEF NumbersBounded
  <2>4. Cardinality(recorded) + 1 <= Cardinality(Execution)
    <3>1. recorded \cup {e} \in SUBSET Execution
      BY <1>0
    <3>2. Cardinality(recorded \cup {e}) <= Cardinality(Execution)
      BY <3>1, StoreAssumption, FS_Subset
    <3> QED BY <3>2, <2>3, <1>f, FS_AddElement
  <2>5. number' \in [Execution -> 0..Cardinality(Execution)]
    BY <1>f, <2>1, <2>2, <2>4 DEF NumbersBounded
  <2> QED
    BY <1>0, <1>f, <2>1, <2>2, <2>3, <2>5 DEF NumbersBounded
<1>3. ASSUME NEW e \in Execution, StoreExecution(e) PROVE NumbersBounded'
  <2>1. /\ phase[e] = "storing" /\ phase' = [phase EXCEPT ![e] = "done"]
        /\ recorded' = recorded \cup {e} /\ UNCHANGED number
    BY <1>3 DEF StoreExecution, ToPhase
  <2>2. e \notin recorded /\ number[e] <= Cardinality(recorded) + 1
    BY <2>1 DEF NumbersBounded
  <2>3. Cardinality(recorded)' = Cardinality(recorded) + 1
    BY <2>1, <2>2, <1>f, FS_AddElement
  <2>4. \A o \in Execution : number[o] \in Nat
    BY <1>f DEF NumbersBounded
  <2> QED
    BY <1>0, <1>f, <2>1, <2>2, <2>3, <2>4 DEF NumbersBounded
<1>4. CASE EndPersisting
  BY <1>0, <1>4 DEF EndPersisting, Persisting, NumbersBounded
<1>5. CASE UNCHANGED missionVars
  BY <1>0, <1>5 DEF missionVars, NumbersBounded
<1> QED
  BY <1>1, <1>2, <1>3, <1>4, <1>5 DEF MissionNext, Persist

(* The types of the store hold however executions overlap, and so does the *)
(* bound on the numbers: none exceeds the number of executions             *)
(* (next_execution_sequence, put_execution).                               *)
THEOREM MissionTypeCorrect == MissionSpec => []MissionTypeOK
<1>1. MissionInv /\ NumbersBounded => MissionTypeOK
  BY DEF MissionInv, StoreTypes, NumbersBounded, MissionTypeOK
<1> QED BY <1>1, MissionInvariant, BoundInit, BoundStep, PTL DEF MissionSpec
=============================================================================
