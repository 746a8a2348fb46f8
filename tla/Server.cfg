SPECIFICATION ServerSpec
CONSTANTS
  Turn = {t1, t2, t3}
  NoTurn = NoTurn
  MaxCalls = 1
  Chats = {c1, c2}
  Opens = {o1}
  Changes = {m1}
  Job = {j1, j2}
  Poll = {p1}
  Runs = 5
  Execution = {t1, t2, t3}
  None = None
SYMMETRY Symmetry
INVARIANTS
  ServerTypeOK
  OutdatedDiscarded
  DiscardedOnlyOutdated
  EndedTurnSettled
  LostOnlyToOverlap
  OneWorker
  CompletedShowsAllRuns
  CreatorCites
  SequencesInOrder
  DecisionsKept
PROPERTY FileIsLog
CHECK_DEADLOCK FALSE
