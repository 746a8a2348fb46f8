------------------------------ MODULE SessionLog ------------------------------
(***************************************************************************)
(* What a reader of a chat session expects of its file: the requests that  *)
(* were recorded stay recorded, and only the end of the server can make    *)
(* the session unreadable.  Nothing is expected once requests overlap.     *)
(***************************************************************************)
CONSTANT Request  \* the requests on one session

VARIABLES
  log,       \* the requests whose change of the session is recorded
  readable,  \* can the session still be loaded
  crashed,   \* has the server ended with requests running
  overlap    \* has a request started while another one was running

vars == <<log, readable, crashed, overlap>>

Init == log = {} /\ readable = TRUE /\ crashed = FALSE /\ overlap = FALSE

Record(r) ==
  /\ readable /\ r \notin log
  /\ log' = log \cup {r}
  /\ UNCHANGED <<readable, crashed, overlap>>

End ==
  /\ crashed' = TRUE
  /\ readable' \in {readable, FALSE}
  /\ UNCHANGED <<log, overlap>>

Overlap == overlap' = TRUE /\ UNCHANGED <<log, readable, crashed>>

Overwrite ==
  /\ overlap
  /\ log' \in SUBSET Request /\ readable' \in BOOLEAN
  /\ UNCHANGED <<crashed, overlap>>

Next == End \/ Overlap \/ Overwrite \/ \E r \in Request : Record(r)

Spec == Init /\ [][Next]_vars

=============================================================================
