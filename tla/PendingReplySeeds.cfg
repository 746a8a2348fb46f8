SPECIFICATION QuestionSpec
CONSTANTS
  Mission = {m1, m2}
  None = None
INVARIANT ReplyStartsNoGoal
CHECK_DEADLOCK FALSE
