SPECIFICATION PlanSpec
CONSTANTS
  Plan = {tp1, tp2, tp3}
  HumanPlan = {tp1}
  BlockedPlan = {tp2}
  GitPlan = {tp1, tp3}
  Path = {f1, f2}
  Declared = {f2}
  WorkTask = {t1, t2}
  MaxActions = 2
INVARIANTS
  ResumeKeepsAction
