SPECIFICATION Spec
CONSTANTS
  Pieces = {"a", "b", "q", "r", "-result"}
  TaskSeeds <- SomeTasks
  DocSeeds <- SomeDocs
  ResultSeeds <- SomeResults
INVARIANTS TypeOK ResultsKept SchemaMatchesRevision
PROPERTY ReadyServesResults
