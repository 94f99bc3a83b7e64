\* Every job ends and the timed pass catches up, once calls stop failing,
\* requests stop ending, nobody edits the file any more and no given up write
\* lands any more, on a server without a configuration check.
CONSTANTS
  a1 = a1
  a2 = a2
  Record <- TwoValues
  Zone = {}
  Key = {"host"}
  KeyOf <- HostKeys
  Spelling <- NoNames
  OneValue <- TwoValues
  Policy = {}
  Covers <- NoCovers
  ParentOf <- NoParents
  Workers = {w1}
  Timers = {timer}
  None <- NoContent
  NoTask = NoTask
  NoOp <- NoOperation
  Ops <- RivalOps
  FirstFiles <- OneFile
  Loadable <- RefusesA2
  HasCheck = FALSE
  Commands = {1, 3}
  FirstIncluded = TRUE
  Faults = {"call", "cancel", "edit", "crash", "late"}
  MaxStarts = 2
  MaxFaults = 2
SPECIFICATION FairSpec
CHECK_DEADLOCK FALSE
PROPERTIES JobsEnd CacheCatchesUp
