SPECIFICATION Spec
CONSTANTS
  NoJob = NoJob
  Jobs = {j1, j2}
  First = j1
  Faults = {"launch", "timeout", "child", "storage", "commit"}
  ExportPdf = TRUE
  Partial = {5}
  RemovalOrder <- MCRemovalOrder
  MaxKills = 1
  MaxSweeps = 1
INVARIANTS
  FailureNamesTheBreak
  CompletedIsServed
  OwnFilesInDetail
  LogAgreesWithRow
CHECK_DEADLOCK FALSE
