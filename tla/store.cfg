SPECIFICATION FairSpec
CONSTANTS
  Tasks = {k1, k2}
  Runs = {r1}
  Names = {n1, n2}
  Engines = {TRUE, FALSE}
INVARIANTS TypeOK FinishedRunSettled CreatedTaskStored UniqueNames
PROPERTIES ImplementsLedger TerminalIsFinal DeletedStaysDeleted RunSettlesOrRaises
