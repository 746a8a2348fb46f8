------------------------------ MODULE SessionFile ------------------------------
(***************************************************************************)
(* The file of a chat session (ai_tool/chat_interface/chat_session) and    *)
(* the requests of the server that load it, change their own copy and save *)
(* the copy again.  The server runs every request in a thread, a chat turn *)
(* takes minutes, nothing locks the file, and save_session writes it in    *)
(* place: the file is truncated first and filled afterwards.               *)
(***************************************************************************)
EXTENDS Naturals

CONSTANTS
  Chats,    \* POST /api/chat
  Opens,    \* GET /api/session/<id>
  Changes   \* POST /api/session/model, and a proposal that opens a case

ASSUME RequestAssumption == Opens \cap (Chats \cup Changes) = {}

Request == Chats \cup Opens \cup Changes

VARIABLES
  file,     \* the file: a whole session, or why it holds none
  copy,     \* the session in the memory of each request
  at,       \* where the thread of each request is
  open,     \* the requests that have truncated the file and not filled it yet
  kept,     \* the last session that was saved in full
  saved,    \* the requests that have answered after recording their change
  before,   \* of each request, those already saved when it loaded the file
  wrote,    \* and those already saved when it last wrote the file
  crashed,  \* has the server ended with requests running
  overlap   \* has a request started while another one was running

sessionVars == <<file, copy, at, open, kept, saved, before, wrote, crashed, overlap>>

(* A session: the changes it records, and whether a model is chosen.       *)
Session == [entries : SUBSET Request, model : BOOLEAN]
EmptySession   == [entries |-> {}, model |-> FALSE]

(* Each of these is no JSON; json.loads raises.                            *)
Unreadable == {"truncated", "garbled"}

At == {"idle", "creating", "loaded", "preparing", "ready", "saving", "done", "failed"}

(* The steps that call save_session.                                       *)
SavingStages == {"creating", "preparing", "saving"}

Running(r) == at[r] \notin {"idle", "done", "failed"}

SessionTypeOK ==
  /\ file \in Session \cup [absent : {TRUE}] \cup [broken : Unreadable]
  /\ copy \in [Request -> Session]
  /\ at \in [Request -> At]
  /\ open \subseteq {r \in Request : at[r] \in SavingStages}
  /\ kept \in Session
  /\ saved \subseteq Request
  /\ before \in [Request -> SUBSET Request]
  /\ wrote \in [Request -> SUBSET Request]
  /\ crashed \in BOOLEAN /\ overlap \in BOOLEAN

AbsentFile == [absent |-> TRUE]
BrokenFile(why) == [broken |-> why]

(* A new session is saved by POST /api/session; a file that was removed is *)
(* created again by the first request that asks for it.                    *)
SessionInit ==
  /\ file \in {EmptySession, AbsentFile}
  /\ copy = [r \in Request |-> EmptySession]
  /\ at = [r \in Request |-> "idle"]
  /\ open = {}
  /\ kept = EmptySession
  /\ saved = {}
  /\ before = [r \in Request |-> {}]
  /\ wrote = [r \in Request |-> {}]
  /\ crashed = FALSE /\ overlap = FALSE

-----------------------------------------------------------------------------
GoTo(r, to) == at' = [at EXCEPT ![r] = to]

(* mutant: a file that is no JSON is read as an empty session              *)
ForgivingReadFile(r) ==
  IF file \in Session
  THEN GoTo(r, "loaded") /\ copy' = [copy EXCEPT ![r] = file]
  ELSE GoTo(r, "loaded") /\ copy' = [copy EXCEPT ![r] = EmptySession]

ReadFile(r) ==
  IF file \in Session
  THEN GoTo(r, "loaded") /\ copy' = [copy EXCEPT ![r] = file]
  ELSE GoTo(r, "failed") /\ UNCHANGED copy

(* load_session.  A missing file is created with an empty session, which   *)
(* is saved later than the file was looked for.                            *)
LoadSession(r) ==
  /\ at[r] = "idle"
  /\ IF file = AbsentFile THEN GoTo(r, "creating") /\ UNCHANGED copy ELSE ReadFile(r)
  /\ before' = [before EXCEPT ![r] = saved]
  /\ overlap' = (overlap \/ \E o \in Request : Running(o))
  /\ UNCHANGED <<file, open, kept, saved, wrote, crashed>>

(* _prepare_session chooses a model if there is none and saves it.         *)
PrepareSession(r) ==
  /\ at[r] = "loaded"
  /\ IF r \in Changes \/ copy[r].model
     THEN GoTo(r, "ready") /\ UNCHANGED copy
     ELSE GoTo(r, "preparing") /\ copy' = [copy EXCEPT ![r].model = TRUE]
  /\ UNCHANGED <<file, open, kept, saved, before, wrote, crashed, overlap>>

ShowSession(r) ==
  /\ at[r] = "ready" /\ r \in Opens
  /\ GoTo(r, "done")
  /\ UNCHANGED <<file, copy, open, kept, saved, before, wrote, crashed, overlap>>

Change(r, session) == copy' = [copy EXCEPT ![r] = [session EXCEPT !.model = TRUE]]

(* mutant: the turn is recorded in an empty session, not in the loaded one *)
FreshRecordTurn(r) ==
  /\ at[r] = "ready" /\ r \in Chats
  /\ GoTo(r, "saving") /\ Change(r, [EmptySession EXCEPT !.entries = {r}])
  /\ UNCHANGED <<file, open, kept, saved, before, wrote, crashed, overlap>>

(* run_chat_turn up to its save.                                           *)
RecordTurn(r) ==
  /\ at[r] = "ready" /\ r \in Chats
  /\ GoTo(r, "saving") /\ Change(r, [copy[r] EXCEPT !.entries = @ \cup {r}])
  /\ UNCHANGED <<file, open, kept, saved, before, wrote, crashed, overlap>>

(* apply_session_model up to its save, or attach_or_open_case.             *)
ChangeModel(r) ==
  /\ at[r] = "ready" /\ r \in Changes
  /\ GoTo(r, "saving") /\ Change(r, [copy[r] EXCEPT !.entries = @ \cup {r}])
  /\ UNCHANGED <<file, open, kept, saved, before, wrote, crashed, overlap>>

(* No provider, no such model, or a turn that raises: nothing is saved.    *)
RefuseRequest(r) ==
  /\ at[r] = "ready" /\ r \notin Opens
  /\ GoTo(r, "failed")
  /\ UNCHANGED <<file, copy, open, kept, saved, before, wrote, crashed, overlap>>

(* save_session: write_text opens the file, which truncates it ...         *)
TruncateFile(r) ==
  /\ at[r] \in SavingStages /\ r \notin open
  /\ open' = open \cup {r}
  /\ file' = BrokenFile("truncated")
  /\ UNCHANGED <<copy, at, kept, saved, before, wrote, crashed, overlap>>

(* ... and writes from its start: what another request has written since   *)
(* shows behind the new text if that is the shorter one.                   *)
Filled(r) ==
  IF file = BrokenFile("truncated") THEN {copy[r]} ELSE {copy[r], BrokenFile("garbled")}

AfterSave(r) ==
  CASE at[r] = "creating" -> "loaded" [] at[r] = "preparing" -> "ready" [] OTHER -> "done"

LeftOpen(r) == open  \* mutant: the file is not closed

Closed(r) == open \ {r}

FillFile(r) ==
  /\ r \in open
  /\ open' = Closed(r)
  /\ file' \in Filled(r)
  /\ kept' = IF file' \in Session THEN file' ELSE kept
  /\ GoTo(r, AfterSave(r))
  /\ saved' = IF at[r] = "saving" THEN saved \cup {r} ELSE saved
  /\ wrote' = [wrote EXCEPT ![r] = saved]
  /\ UNCHANGED <<copy, before, crashed, overlap>>

(* The server ends: its threads are daemon threads.                        *)
EndServer ==
  /\ \E r \in Request : Running(r)
  /\ at' = [r \in Request |-> IF Running(r) THEN "failed" ELSE at[r]]
  /\ open' = {}
  /\ crashed' = TRUE
  /\ UNCHANGED <<file, copy, kept, saved, before, wrote, overlap>>

SessionNext ==
  \/ EndServer
  \/ \E r \in Request :
       \/ LoadSession(r) \/ PrepareSession(r) \/ ShowSession(r) \/ RecordTurn(r) \/ ChangeModel(r) \/ RefuseRequest(r)
       \/ TruncateFile(r) \/ FillFile(r)

SessionSpec == SessionInit /\ [][SessionNext]_sessionVars

-----------------------------------------------------------------------------
(* Properties.                                                             *)

(* A recorded change disappears from the file only because a request that  *)
(* had loaded the session before the change was saved has saved its own    *)
(* copy since: a failed request, a request that only reads and a file      *)
(* caught halfway through a save lose nothing (load_session, save_session).*)
LostOnlyToOverlap ==
  file \in Session =>
    \A r \in saved \ file.entries :
      \E o \in Request : r \in wrote[o] \ before[o]

(* Until requests overlap, the file is a log: every recorded change stays  *)
(* in it, and only the end of the server makes the session unreadable.     *)
Log == INSTANCE SessionLog WITH
         log <- kept.entries,
         readable <- file \in Session \/ file = AbsentFile \/ open # {}

FileIsLog == Log!Spec

=============================================================================
