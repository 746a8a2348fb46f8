SPECIFICATION Spec
CONSTANTS
  g1 = g1
  g2 = g2
  t1 = t1
  t2 = t2
  c1 = c1
  produced = produced
  e1 = e1
  answer = answer
  Goal = {g1, g2}
  Root = g1
  Conditioned = {g1}
  Task = {t1, t2}
  ObservationTask = t1
  Condition = {c1, produced}
  AnswerProduced = produced
  Evidence = {e1}
  FreeText = {answer}
  AnswerText = answer
  MaxClaims = 0
  NoGoal = NoGoal
CONSTRAINT CompletionShape
INVARIANTS
  TypeOK
  CompleteTaskEvidenced
PROPERTIES
  FinishSound
  RootClosedByAcceptance
