\* A request that ends between the write and the check: what the rollback
\* of a refused change still does.
CONSTANTS
  a1 = a1
  a2 = a2
  Record <- TwoValues
  Zone = {}
  Key = {"host"}
  KeyOf <- HostKeys
  Spelling <- NoNames
  OneValue <- TwoValues
  Policy = {}
  Covers <- NoCovers
  ParentOf <- NoParents
  Workers = {w1, w2}
  Timers = {}
  None <- NoContent
  NoTask = NoTask
  NoOp <- NoOperation
  Ops <- RivalOps
  FirstFiles <- OneFile
  Loadable <- RefusesA2
  HasCheck = TRUE
  Commands = {1, 3}
  FirstIncluded = TRUE
  Faults = {"cancel"}
  MaxStarts = 1
  MaxFaults = 1
SPECIFICATION Spec
CHECK_DEADLOCK FALSE
PROPERTY EveryFailedCheckRollsBack
