SPECIFICATION Spec
CONSTANTS
  Pieces = {"a", "b", "q", "r", "-result"}
  TaskSeeds <- SomeTasks
  DocSeeds <- SomeDocs
  ResultSeeds <- SomeResults
PROPERTY FailureRollsBack
