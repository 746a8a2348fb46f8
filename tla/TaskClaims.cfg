SPECIFICATION Spec
CONSTANTS
  g1 = g1
  t1 = t1
  c1 = c1
  produced = produced
  e1 = e1
  e2 = e2
  answer = answer
  Goal = {g1}
  Root = g1
  Conditioned = {g1}
  Task = {t1}
  ObservationTask = t1
  Condition = {c1, produced}
  AnswerProduced = produced
  Evidence = {e1, e2}
  FreeText = {answer}
  AnswerText = answer
  MaxClaims = 1
  NoGoal = NoGoal
SYMMETRY EvidenceSymmetry
CONSTRAINT ObservationGraph
INVARIANTS
  VerifiedClaimsGrounded
  EvidencedConditionClaimed
PROPERTIES
  ConfirmedAnswerEvidenced
