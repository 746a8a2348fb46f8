SPECIFICATION Spec
CONSTANTS
  k1 = k1
  Key = {k1}
  BaseTasks = 3
  MaxTasks = 9
  MaxChanges = 1
  MaxWaves = 2
  Graphs <- SeededGraphs
INVARIANTS
  DependenciesAcyclic
  NoDependencyOnSuperseded
  LineageSound
  ConvergedExaminesDependents
PROPERTIES
  HandlingEnds
