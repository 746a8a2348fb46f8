SPECIFICATION Spec
CONSTANTS
  k1 = k1
  Key = {k1}
  BaseTasks = 2
  MaxTasks = 8
  MaxChanges = 2
  MaxWaves = 8
  Graphs <- OrderedGraphs
INVARIANTS
  TypeOK
  CurrentNotSuperseded
  StaleTasksBlocked
  PropagationConverges
