SPECIFICATION ToolsSpec
CONSTANTS
  ToolCall = {a, b}
  SameFailureLimit = 2
  StagnationLimit = 2
  NoEvidenceLimit = 4
  MaxBatch = 2
  MaxResults = 4
  Mission = {m1, m2}
  None = None
  Handoff = {h1, h2, h3}
  Nothing = Nothing
  MaxSeeds = 2
  File = {f1, f2}
  Content = {x}
  Absent = Absent
  MaxEdits = 2
  MaxCommits = 1
  MaxToolRounds = 3
  MaxCallsAtOnce = 2
  Branch = {b1, b2}
  NoBranch = NoBranch
  Job = {j1}
  Poll = {p1}
  Runs = 5
  Plan = {tp1, tp2, tp3}
  HumanPlan = {tp1}
  BlockedPlan = {tp2}
  GitPlan = {tp1, tp3}
  Path = {f1, f2}
  Declared = {f2}
  WorkTask = {t1, t2}
  MaxActions = 2
INVARIANTS
  ToolsTypeOK
  FusesExact
  NeverSilent
  OneQuestion
  CompletedIsAccepted
  SnapshotOfBase
  AnsweredBeforeAsking
  PassMeansPromoted
  ClosedConditionEarned
  ActionRunsOnce
PROPERTIES
  NotTalkedOver
  BudgetEnds
  StartedEnds
CHECK_DEADLOCK FALSE
