SPECIFICATION Spec
CONSTANTS
  k1 = k1
  Key = {k1}
  BaseTasks = 3
  MaxTasks = 9
  MaxChanges = 2
  MaxWaves = 8
  Graphs <- ForkedGraphs
PROPERTIES
  GuardKeepsHeldWork
