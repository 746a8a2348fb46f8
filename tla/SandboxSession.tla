----------------------------- MODULE SandboxSession -----------------------------
(***************************************************************************)
(* The dedicated sandbox of a runtime (create_dedicated_sandbox_session in *)
(* tools/ai/sandbox_workspace.py): a worktree beside the source worktree,  *)
(* filled with the source's working files one by one, while editors and    *)
(* git go on in the source.                                                *)
(***************************************************************************)
EXTENDS Naturals

CONSTANTS
  File,       \* the paths git status can report: a new directory is one
  Content,
  Absent,
  MaxEdits,   \* bound on the edits of a file during the creation
  MaxCommits  \* bound on the commits in the source

ASSUME SandboxAssumption == Absent \notin Content /\ MaxEdits \in Nat /\ MaxCommits \in Nat

VARIABLES
  sandboxAt,   \* where the creation is
  source,      \* the working files of the source worktree
  head,        \* its commit ...
  tree,        \* ... and the files of the commit
  baseHead,    \* source_identity.head
  before,      \* the files git status listed before
  toCopy,      \* the listed paths still to copy
  copy,        \* the files of the sandbox; Absent before they are copied
  sandbox,     \* its worktree exists
  edits        \* ghost: the edits of each file since the status was read

sandboxVars == <<sandboxAt, source, head, tree, baseHead, before, toCopy, copy, sandbox, edits>>
creation == <<sandboxAt, baseHead, before, toCopy, copy, sandbox>>
workspace == <<source, head, tree, edits>>

Files == [File -> Content \cup {Absent}]

SandboxTypeOK ==
  /\ sandboxAt \in {"identity", "status", "add", "list", "copy", "check", "active", "refused", "stranded"}
  /\ source \in Files /\ tree \in Files /\ copy \in Files
  /\ head \in 0..MaxCommits /\ baseHead \in 0..MaxCommits
  /\ before \subseteq File /\ toCopy \subseteq File
  /\ sandbox \in BOOLEAN
  /\ edits \in [File -> 0..MaxEdits]

SandboxInit ==
  /\ sandboxAt = "identity"
  /\ source \in Files /\ tree \in Files
  /\ head = 0 /\ baseHead = 0
  /\ before = {} /\ toCopy = {} /\ sandbox = FALSE
  /\ copy = [f \in File |-> Absent]
  /\ edits = [f \in File |-> 0]

-----------------------------------------------------------------------------
(* git status --porcelain lists the files that differ from HEAD, not how.  *)
Status == {f \in File : source[f] # tree[f]}

(* An editor writes, creates or removes a file of the source.              *)
EditSource(f) ==
  /\ sandboxAt \notin {"active", "refused", "stranded"} /\ edits[f] < MaxEdits
  /\ \E c \in (Content \cup {Absent}) \ {source[f]} : source' = [source EXCEPT ![f] = c]
  /\ edits' = [edits EXCEPT ![f] = IF sandboxAt \in {"identity", "status"} THEN 0 ELSE @ + 1]
  /\ UNCHANGED <<head, tree, creation>>

CommitSource ==
  /\ sandboxAt \notin {"active", "refused", "stranded"} /\ head < MaxCommits
  /\ head' = head + 1 /\ tree' = source
  /\ UNCHANGED <<source, edits, creation>>

ReadIdentity ==
  /\ sandboxAt = "identity" /\ sandboxAt' = "status"
  /\ baseHead' = head
  /\ UNCHANGED <<before, toCopy, copy, sandbox, workspace>>

ReadStatus ==
  /\ sandboxAt = "status" /\ sandboxAt' = "add"
  /\ before' = Status
  /\ UNCHANGED <<baseHead, toCopy, copy, sandbox, workspace>>

(* git worktree add --no-checkout.                                         *)
AddSandbox ==
  /\ sandboxAt = "add" /\ sandboxAt' = "list"
  /\ sandbox' = TRUE
  /\ UNCHANGED <<baseHead, before, toCopy, copy, workspace>>

FailAddSandbox ==
  /\ sandboxAt = "add" /\ sandboxAt' = "refused"
  /\ UNCHANGED <<baseHead, before, toCopy, copy, sandbox, workspace>>

(* Tracked files and untracked ones that are there now.                    *)
ListFiles ==
  /\ sandboxAt = "list" /\ sandboxAt' = "copy"
  /\ toCopy' = {f \in File : tree[f] # Absent \/ source[f] # Absent}
  /\ UNCHANGED <<baseHead, before, copy, sandbox, workspace>>

(* _copy_workspace_state; a tracked file that is gone is not copied.       *)
CopyFile(f) ==
  /\ sandboxAt = "copy" /\ f \in toCopy
  /\ copy' = [copy EXCEPT ![f] = source[f]]
  /\ toCopy' = toCopy \ {f}
  /\ UNCHANGED <<sandboxAt, baseHead, before, sandbox, workspace>>

CheckIdentity ==
  /\ sandboxAt = "copy" /\ toCopy = {} /\ head = baseHead
  /\ sandboxAt' = "check"
  /\ UNCHANGED <<baseHead, before, toCopy, copy, sandbox, workspace>>

(* mutant: the status is not read again                                    *)
AnyStatus == TRUE

SameStatus == Status = before

Activate ==
  /\ sandboxAt = "check" /\ SameStatus
  /\ sandboxAt' = "active"
  /\ UNCHANGED <<baseHead, before, toCopy, copy, sandbox, workspace>>

(* A file that cannot be read, another HEAD or status, or git failing: the *)
(* worktree and its branch are removed, as far as that succeeds.           *)
Withdraw ==
  /\ sandboxAt \in {"list", "copy", "check"}
  /\ \/ sandboxAt' = "refused" /\ sandbox' = FALSE
     \/ sandboxAt' = "stranded" /\ sandbox' \in BOOLEAN
  /\ UNCHANGED <<baseHead, before, toCopy, copy, workspace>>

SandboxNext ==
  \/ ReadIdentity \/ ReadStatus \/ AddSandbox \/ FailAddSandbox \/ ListFiles \/ CheckIdentity
  \/ Activate \/ Withdraw \/ CommitSource
  \/ \E f \in File : EditSource(f) \/ CopyFile(f)

SandboxSpec == SandboxInit /\ [][SandboxNext]_sandboxVars

-----------------------------------------------------------------------------
(* Properties.                                                             *)

(* A session that is handed out has every file that git status did not     *)
(* list as it is in the base commit, whatever was edited or committed      *)
(* during the copy ("source workspace changed during sandbox creation"),   *)
(* unless the file was edited and edited back, or a commit came between    *)
(* the check of HEAD and that of the status.                               *)
SnapshotOfBase ==
  sandboxAt = "active" /\ head = baseHead =>
    \A f \in File : f \notin before /\ edits[f] <= 1 => copy[f] = tree[f]

=============================================================================
