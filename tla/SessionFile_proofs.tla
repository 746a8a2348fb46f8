--------------------------- MODULE SessionFile_proofs ---------------------------
(***************************************************************************)
(* What TLAPS proves about SessionFile for any requests on a session: only *)
(* overlapping requests lose a recorded change, and the file implements    *)
(* the log that SessionLog describes.                                      *)
(***************************************************************************)
EXTENDS SessionFile, TLAPS

(* The last whole session is what the file holds, if it holds one, and     *)
(* nothing has been saved while there is no file.                          *)
FileKept ==
  /\ file \in Session => file = kept
  /\ file = AbsentFile => saved = {} /\ kept = EmptySession

(* What a request writes over was saved before; it records its own change. *)
WritesInOrder ==
  /\ \A r \in Request : wrote[r] \subseteq saved
  /\ \A r \in Request : at[r] = "idle" => wrote[r] = {} /\ copy[r] = EmptySession
  /\ \A r \in Request : at[r] = "creating" => before[r] = {}
  /\ \A r \in Request : at[r] = "saving" => r \in copy[r].entries

Overwritten(r) == \E o \in Request : r \in wrote[o] \ before[o]

(* What a copy lacks of the changes saved when it was loaded was lost to an*)
(* overlap already then.                                                   *)
CopyLosesNothing ==
  \A r \in Request : Running(r) => \A o \in before[r] \ copy[r].entries : Overwritten(o)

(* Until requests overlap there is one, and it works on the last session   *)
(* that was saved in full.                                                 *)
OneAtATime ==
  /\ \A r, o \in Request : Running(r) /\ Running(o) => r = o
  /\ \A r \in Request : Running(r) =>
       /\ r \in open => file = BrokenFile("truncated")
       /\ r \notin open => file \in Session \/ file = AbsentFile
       /\ at[r] = "creating" => copy[r] = EmptySession /\ kept = EmptySession
       /\ at[r] \in {"loaded", "preparing", "ready"} => copy[r].entries = kept.entries
       /\ at[r] = "saving" => copy[r].entries = kept.entries \cup {r}

SessionInv ==
  /\ SessionTypeOK
  /\ FileKept
  /\ WritesInOrder
  /\ CopyLosesNothing
  /\ LostOnlyToOverlap
  /\ ~ overlap => OneAtATime

(* A session, a missing file and a broken one are three different things.  *)
LEMMA FileKinds ==
  /\ EmptySession \in Session
  /\ AbsentFile \in [absent : {TRUE}] /\ AbsentFile \notin Session
  /\ \A why \in Unreadable :
       /\ BrokenFile(why) \in [broken : Unreadable]
       /\ BrokenFile(why) \notin Session /\ BrokenFile(why) # AbsentFile
<1>1. EmptySession \in Session
  BY DEF EmptySession, Session
<1>2. ASSUME NEW s \in Session PROVE DOMAIN s = {"entries", "model"}
  BY DEF Session
<1>3. DOMAIN AbsentFile = {"absent"}
  BY DEF AbsentFile
<1>4. ASSUME NEW why \in Unreadable PROVE DOMAIN BrokenFile(why) = {"broken"}
  BY DEF BrokenFile
<1>5. "absent" \notin {"entries", "model"} /\ "broken" \notin {"entries", "model"}
        /\ "broken" \notin {"absent"}
  OBVIOUS
<1>6. AbsentFile \in [absent : {TRUE}]
  BY DEF AbsentFile
<1>7. ASSUME NEW why \in Unreadable PROVE BrokenFile(why) \in [broken : Unreadable]
  BY DEF BrokenFile
<1> QED
  BY <1>1, <1>2, <1>3, <1>4, <1>5, <1>6, <1>7

LEMMA SessionInitInv == SessionInit => SessionInv
<1> SUFFICES ASSUME SessionInit PROVE SessionInv
  OBVIOUS
<1>1. SessionTypeOK
  BY FileKinds DEF SessionInit, SessionTypeOK, At
<1>2. \A r \in Request : ~ Running(r)
  BY DEF SessionInit, Running
<1> QED
  BY <1>1, <1>2, FileKinds
     DEF SessionInit, SessionInv, FileKept, WritesInOrder, CopyLosesNothing, LostOnlyToOverlap,
         OneAtATime

-----------------------------------------------------------------------------
LEMMA SessionStep == SessionInv /\ [SessionNext]_sessionVars => SessionInv'
<1> SUFFICES ASSUME SessionInv, [SessionNext]_sessionVars PROVE SessionInv'
  OBVIOUS
<1> USE FileKinds DEF SessionInv, Running, SavingStages, At
<1>1. ASSUME NEW r \in Request, LoadSession(r) PROVE SessionInv'
  <2> DEFINE to == IF file = AbsentFile THEN "creating" ELSE IF file \in Session THEN "loaded" ELSE "failed"
             s == IF file \in Session THEN file ELSE copy[r]
  <2>0. /\ at[r] = "idle" /\ at' = [at EXCEPT ![r] = to] /\ copy' = [copy EXCEPT ![r] = s]
        /\ s \in Session /\ to \in {"creating", "loaded", "failed"}
        /\ to = "creating" <=> file = AbsentFile
        /\ to = "loaded" => file \in Session /\ s = file
        /\ before' = [before EXCEPT ![r] = saved]
        /\ overlap' = (overlap \/ \E o \in Request : Running(o))
        /\ UNCHANGED <<file, open, kept, saved, wrote, crashed>>
    BY <1>1 DEF LoadSession, ReadFile, GoTo, SessionTypeOK
  <2> HIDE DEF to, s
  <2>1. (SessionTypeOK /\ FileKept)'
    BY <2>0 DEF SessionTypeOK, FileKept
  <2>2. WritesInOrder'
    BY <2>0 DEF SessionTypeOK, FileKept, WritesInOrder
  <2>3. (CopyLosesNothing /\ LostOnlyToOverlap)'
    BY <2>0 DEF SessionTypeOK, FileKept, WritesInOrder, CopyLosesNothing, LostOnlyToOverlap, Overwritten
  <2>4. (~ overlap => OneAtATime)'
    <3> SUFFICES ASSUME ~ overlap' PROVE OneAtATime'
      OBVIOUS
    <3>1. \A o \in Request : ~ Running(o)
      BY <2>0
    <3>2. \A o \in Request : Running(o)' => o = r
      BY <2>0, <3>1 DEF SessionTypeOK
    <3>3. r \notin open /\ at'[r] = to /\ copy'[r] = s
      BY <2>0 DEF SessionTypeOK
    <3>4. to # "failed" => file \in Session \/ file = AbsentFile
      BY <2>0
    <3>5. to = "creating" => copy'[r] = EmptySession /\ kept = EmptySession
      BY <1>1, <2>0, <3>3 DEF FileKept, WritesInOrder, SessionTypeOK, s
    <3>6. to = "loaded" => copy'[r].entries = kept.entries
      BY <2>0, <3>3 DEF FileKept
    <3> QED
      BY <2>0, <3>2, <3>3, <3>4, <3>5, <3>6 DEF OneAtATime
  <2> QED BY <2>1, <2>2, <2>3, <2>4
<1>2. ASSUME NEW r \in Request, PrepareSession(r) PROVE SessionInv'
  <2> DEFINE s == [copy[r] EXCEPT !.model = TRUE]
  <2>0. /\ s \in Session /\ s.entries = copy[r].entries
        /\ at[r] = "loaded"
        /\ \/ at' = [at EXCEPT ![r] = "ready"] /\ UNCHANGED copy
           \/ at' = [at EXCEPT ![r] = "preparing"] /\ copy' = [copy EXCEPT ![r] = s]
        /\ UNCHANGED <<file, open, kept, saved, before, wrote, crashed, overlap>>
    BY <1>2 DEF SessionTypeOK, Session, PrepareSession, GoTo
  <2> HIDE DEF s
  <2>1. (SessionTypeOK /\ FileKept)'
    <3>1. CASE UNCHANGED copy
      BY <2>0, <3>1 DEF SessionTypeOK, FileKept
    <3>2. CASE at' = [at EXCEPT ![r] = "preparing"] /\ copy' = [copy EXCEPT ![r] = s]
      BY <2>0, <3>2 DEF SessionTypeOK, FileKept
    <3> QED BY <2>0, <3>1, <3>2
  <2>2. WritesInOrder'
    BY <2>0 DEF SessionTypeOK, WritesInOrder
  <2>3. (CopyLosesNothing /\ LostOnlyToOverlap)'
    BY <2>0 DEF SessionTypeOK, WritesInOrder, CopyLosesNothing, LostOnlyToOverlap, Overwritten
  <2>4. (~ overlap => OneAtATime)'
    BY <2>0 DEF SessionTypeOK, FileKept, OneAtATime
  <2> QED BY <2>1, <2>2, <2>3, <2>4
<1>3. ASSUME NEW r \in Request, ShowSession(r) PROVE SessionInv'
  <2>1. (SessionTypeOK /\ FileKept)'
    BY <1>3 DEF ShowSession, GoTo, SessionTypeOK, FileKept
  <2>2. WritesInOrder'
    BY <1>3 DEF ShowSession, GoTo, SessionTypeOK, WritesInOrder
  <2>3. (CopyLosesNothing /\ LostOnlyToOverlap)'
    BY <1>3 DEF ShowSession, GoTo, SessionTypeOK, WritesInOrder, CopyLosesNothing, LostOnlyToOverlap, Overwritten
  <2>4. (~ overlap => OneAtATime)'
    BY <1>3 DEF ShowSession, GoTo, SessionTypeOK, FileKept, OneAtATime
  <2> QED BY <2>1, <2>2, <2>3, <2>4
<1>4. ASSUME NEW r \in Request, RecordTurn(r) \/ ChangeModel(r) PROVE SessionInv'
  <2> DEFINE s == [[copy[r] EXCEPT !.entries = @ \cup {r}] EXCEPT !.model = TRUE]
  <2>0. /\ s \in Session /\ s.entries = copy[r].entries \cup {r}
        /\ at[r] = "ready" /\ at' = [at EXCEPT ![r] = "saving"] /\ copy' = [copy EXCEPT ![r] = s]
        /\ UNCHANGED <<file, open, kept, saved, before, wrote, crashed, overlap>>
    BY <1>4 DEF SessionTypeOK, Session, RecordTurn, ChangeModel, GoTo, Change
  <2> HIDE DEF s
  <2>1. (SessionTypeOK /\ FileKept)'
    BY <2>0 DEF Session, SessionTypeOK, FileKept
  <2>2. WritesInOrder'
    BY <2>0 DEF Session, SessionTypeOK, WritesInOrder
  <2>3. (CopyLosesNothing /\ LostOnlyToOverlap)'
    BY <2>0 DEF Session, SessionTypeOK, WritesInOrder, CopyLosesNothing, LostOnlyToOverlap, Overwritten
  <2>4. (~ overlap => OneAtATime)'
    BY <2>0 DEF Session, SessionTypeOK, FileKept, OneAtATime
  <2> QED BY <2>1, <2>2, <2>3, <2>4
<1>5. ASSUME NEW r \in Request, RefuseRequest(r) PROVE SessionInv'
  <2>1. (SessionTypeOK /\ FileKept)'
    BY <1>5 DEF RefuseRequest, GoTo, SessionTypeOK, FileKept
  <2>2. WritesInOrder'
    BY <1>5 DEF RefuseRequest, GoTo, SessionTypeOK, WritesInOrder
  <2>3. (CopyLosesNothing /\ LostOnlyToOverlap)'
    BY <1>5 DEF RefuseRequest, GoTo, SessionTypeOK, WritesInOrder, CopyLosesNothing, LostOnlyToOverlap, Overwritten
  <2>4. (~ overlap => OneAtATime)'
    BY <1>5 DEF RefuseRequest, GoTo, SessionTypeOK, FileKept, OneAtATime
  <2> QED BY <2>1, <2>2, <2>3, <2>4
<1>6. ASSUME NEW r \in Request, TruncateFile(r) PROVE SessionInv'
  <2>0. "truncated" \in Unreadable
    BY DEF Unreadable
  <2>1. (SessionTypeOK /\ FileKept)'
    BY <1>6, <2>0 DEF TruncateFile, SessionTypeOK, FileKept
  <2>2. WritesInOrder'
    BY <1>6, <2>0 DEF TruncateFile, SessionTypeOK, WritesInOrder
  <2>3. (CopyLosesNothing /\ LostOnlyToOverlap)'
    BY <1>6, <2>0 DEF TruncateFile, SessionTypeOK, WritesInOrder, CopyLosesNothing, LostOnlyToOverlap, Overwritten
  <2>4. (~ overlap => OneAtATime)'
    BY <1>6, <2>0 DEF TruncateFile, SessionTypeOK, FileKept, OneAtATime
  <2> QED BY <2>1, <2>2, <2>3, <2>4
<1>7. ASSUME NEW r \in Request, FillFile(r) PROVE SessionInv'
  <2>0. /\ file' \in Session => file' = copy[r]
        /\ file' \in Session \/ file' = BrokenFile("garbled")
        /\ "truncated" \in Unreadable /\ "garbled" \in Unreadable
        /\ ~ overlap => file' = copy[r] /\ file' \in Session
    BY <1>7 DEF FillFile, Filled, SessionTypeOK, Unreadable, OneAtATime
  <2>1. (SessionTypeOK /\ FileKept)'
    BY <1>7, <2>0 DEF FillFile, Closed, AfterSave, GoTo, SessionTypeOK, FileKept
  <2>2. WritesInOrder'
    BY <1>7, <2>0 DEF FillFile, Closed, AfterSave, GoTo, SessionTypeOK, WritesInOrder
  <2>3. (CopyLosesNothing /\ LostOnlyToOverlap)'
    BY <1>7, <2>0 DEF FillFile, Closed, AfterSave, GoTo, SessionTypeOK, WritesInOrder, CopyLosesNothing, LostOnlyToOverlap, Overwritten
  <2>4. (~ overlap => OneAtATime)'
    BY <1>7, <2>0 DEF FillFile, Closed, AfterSave, GoTo, SessionTypeOK, FileKept, OneAtATime
  <2> QED BY <2>1, <2>2, <2>3, <2>4
<1>8. CASE EndServer
  <2>1. (SessionTypeOK /\ FileKept)'
    BY <1>8 DEF EndServer, SessionTypeOK, FileKept
  <2>2. WritesInOrder'
    BY <1>8 DEF EndServer, SessionTypeOK, WritesInOrder
  <2>3. (CopyLosesNothing /\ LostOnlyToOverlap)'
    BY <1>8 DEF EndServer, SessionTypeOK, WritesInOrder, CopyLosesNothing, LostOnlyToOverlap, Overwritten
  <2>4. (~ overlap => OneAtATime)'
    BY <1>8 DEF EndServer, SessionTypeOK, FileKept, OneAtATime
  <2> QED BY <2>1, <2>2, <2>3, <2>4
<1>9. CASE UNCHANGED sessionVars
  <2>1. (SessionTypeOK /\ FileKept)'
    BY <1>9 DEF sessionVars, SessionTypeOK, FileKept
  <2>2. WritesInOrder'
    BY <1>9 DEF sessionVars, SessionTypeOK, WritesInOrder
  <2>3. (CopyLosesNothing /\ LostOnlyToOverlap)'
    BY <1>9 DEF sessionVars, SessionTypeOK, WritesInOrder, CopyLosesNothing, LostOnlyToOverlap, Overwritten
  <2>4. (~ overlap => OneAtATime)'
    BY <1>9 DEF sessionVars, SessionTypeOK, FileKept, OneAtATime
  <2> QED BY <2>1, <2>2, <2>3, <2>4
<1> QED
  BY <1>1, <1>2, <1>3, <1>4, <1>5, <1>6, <1>7, <1>8, <1>9 DEF SessionNext

-----------------------------------------------------------------------------
(* The invariant from which the theorems follow, and with it the types.    *)
THEOREM SessionInvariant == SessionSpec => []SessionInv
<1> QED BY SessionInitInv, SessionStep, PTL DEF SessionSpec

THEOREM SessionTypeCorrect == SessionSpec => []SessionTypeOK
<1>1. SessionInv => SessionTypeOK
  BY DEF SessionInv
<1> QED BY <1>1, SessionInvariant, PTL

(* However many requests work on a session, and wherever the server ends,  *)
(* only a request that loaded the session before a change was saved takes  *)
(* it out of the file again (load_session, save_session).                  *)
THEOREM OnlyOverlapLoses == SessionSpec => []LostOnlyToOverlap
<1>1. SessionInv => LostOnlyToOverlap
  BY DEF SessionInv
<1> QED BY <1>1, SessionInvariant, PTL

-----------------------------------------------------------------------------
(* The file as a log: an initial state of the file is one of the log.      *)
LEMMA LogInit == SessionInit => Log!Init
<1> SUFFICES ASSUME SessionInit PROVE Log!Init
  OBVIOUS
<1>1. kept.entries = {}
  BY DEF SessionInit, EmptySession
<1>2. file \in Session \/ file = AbsentFile
  BY FileKinds DEF SessionInit
<1>3. (file \in Session \/ file = AbsentFile \/ open # {}) = TRUE
  BY <1>2
<1>4. crashed = FALSE /\ overlap = FALSE
  BY DEF SessionInit
<1> QED BY <1>1, <1>3, <1>4 DEF Log!Init

(* Every step of a request or of the server is a step of the log, or it is *)
(* none of the log's business.                                             *)
LEMMA LogStep == SessionInv /\ SessionInv' /\ [SessionNext]_sessionVars => [Log!Next]_Log!vars
<1> SUFFICES ASSUME SessionInv, SessionInv', [SessionNext]_sessionVars
             PROVE  [Log!Next]_Log!vars
  OBVIOUS
<1> DEFINE readable == file \in Session \/ file = AbsentFile \/ open # {}
<1>0. kept \in Session /\ kept' \in Session /\ open' \subseteq Request
  BY DEF SessionInv, SessionTypeOK
<1>1. ASSUME NEW r \in Request, LoadSession(r) PROVE [Log!Next]_Log!vars
  <2>1. CASE overlap' = overlap
    BY <1>1, <2>1 DEF LoadSession, Log!vars
  <2>2. CASE overlap' # overlap
    <3>1. overlap'
      BY <1>1, <2>2 DEF LoadSession, SessionInv, SessionTypeOK
    <3>2. Log!Overlap
      BY <1>1, <3>1 DEF LoadSession, Log!Overlap, SessionInv, SessionTypeOK
    <3> QED BY <3>2 DEF Log!Next
  <2> QED BY <2>1, <2>2
<1>2. ASSUME NEW r \in Request,
             PrepareSession(r) \/ ShowSession(r) \/ RecordTurn(r) \/ ChangeModel(r) \/ RefuseRequest(r)
      PROVE  [Log!Next]_Log!vars
  BY <1>2 DEF PrepareSession, ShowSession, RecordTurn, ChangeModel, RefuseRequest, Log!vars
<1>3. ASSUME NEW r \in Request, TruncateFile(r) PROVE [Log!Next]_Log!vars
  <2>1. readable' /\ UNCHANGED <<kept, crashed, overlap>>
    BY <1>3 DEF TruncateFile
  <2>2. CASE overlap
    <3>1. Log!Overwrite
      BY <1>0, <2>1, <2>2 DEF Log!Overwrite, Session
    <3> QED BY <3>1 DEF Log!Next
  <2>3. CASE ~ overlap
    <3>1. readable
      BY <1>3, <2>3 DEF TruncateFile, SessionInv, OneAtATime, Running, SavingStages, SessionTypeOK, At
    <3> QED BY <2>1, <3>1 DEF Log!vars
  <2> QED BY <2>2, <2>3
<1>4. ASSUME NEW r \in Request, FillFile(r) PROVE [Log!Next]_Log!vars
  <2>1. UNCHANGED <<crashed, overlap>>
    BY <1>4 DEF FillFile
  <2>2. CASE overlap
    <3>1. Log!Overwrite
      BY <1>0, <2>1, <2>2 DEF Log!Overwrite, Session
    <3> QED BY <3>1 DEF Log!Next
  <2>3. CASE ~ overlap
    <3>1. at[r] \in SavingStages
      BY <1>4 DEF FillFile, SessionInv, SessionTypeOK
    <3>2. readable /\ readable' /\ kept' = copy[r]
      BY <1>4, <2>3, <3>1
         DEF FillFile, Filled, SessionInv, OneAtATime, Running, SavingStages, SessionTypeOK
    <3>3. CASE at[r] \in {"creating", "preparing"}
      <4>1. kept'.entries = kept.entries
        BY <2>3, <3>2, <3>3 DEF SessionInv, OneAtATime, Running
      <4> QED BY <2>1, <3>2, <4>1 DEF Log!vars
    <3>4. CASE at[r] = "saving"
      <4>1. kept'.entries = kept.entries \cup {r}
        BY <2>3, <3>2, <3>4 DEF SessionInv, OneAtATime, Running
      <4>2. CASE r \in kept.entries
        BY <2>1, <3>2, <4>1, <4>2 DEF Log!vars
      <4>3. CASE r \notin kept.entries
        <5>1. Log!Record(r)
          BY <2>1, <3>2, <4>1, <4>3 DEF Log!Record
        <5> QED BY <5>1 DEF Log!Next
      <4> QED BY <4>2, <4>3
    <3> QED BY <3>1, <3>3, <3>4 DEF SavingStages
  <2> QED BY <2>2, <2>3
<1>5. CASE EndServer
  <2>1. Log!End
    BY <1>5 DEF EndServer, Log!End, SessionInv, SessionTypeOK
  <2> QED BY <2>1 DEF Log!Next
<1>6. CASE UNCHANGED sessionVars
  BY <1>6 DEF sessionVars, Log!vars
<1> QED
  BY <1>1, <1>2, <1>3, <1>4, <1>5, <1>6 DEF SessionNext

(* Until requests overlap a session file is a log of the requests that     *)
(* changed the session, and only the end of the server makes it unreadable *)
(* (load_session, save_session).                                           *)
THEOREM FileImplementsLog == SessionSpec => FileIsLog
<1> QED BY LogInit, LogStep, SessionInvariant, PTL DEF SessionSpec, FileIsLog, Log!Spec

=============================================================================
