\* Changes, restores, reloads and refreshes of one server while calls fail,
\* requests end, the file is edited by hand, writes land after they were
\* given up and the panel restarts.
CONSTANTS
  a1 = a1
  a2 = a2
  Record <- TwoValues
  Zone = {}
  Key = {"host"}
  KeyOf <- HostKeys
  Spelling <- NoNames
  OneValue <- TwoValues
  Policy = {}
  Covers <- NoCovers
  ParentOf <- NoParents
  Workers = {w1, w2}
  Timers = {timer}
  None <- NoContent
  NoTask = NoTask
  NoOp <- NoOperation
  Ops <- RivalOps
  FirstFiles <- OneFile
  Loadable <- RefusesA2
  HasCheck = TRUE
  Commands = {1, 3}
  FirstIncluded = TRUE
  Faults = {"call", "cancel", "edit", "crash", "late"}
  MaxStarts = 3
  MaxFaults = 2
SPECIFICATION Spec
SYMMETRY Symmetry
CHECK_DEADLOCK FALSE
INVARIANTS NoLostUpdate FailedChangeLeavesTheFile FailedChangeKeepsTheRestorePoint SuccessIsExact AppliedIsServed TrailMatchesTheFile
PROPERTIES CacheDescribesTheFile
