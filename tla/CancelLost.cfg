SPECIFICATION Spec
CONSTANTS
  Turn = {t1}
  NoTurn = NoTurn
  MaxCalls = 2
INVARIANT
  CancelHonoured
CHECK_DEADLOCK FALSE
