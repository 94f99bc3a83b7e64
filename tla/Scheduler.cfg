SPECIFICATION Spec
CONSTANTS
  s1 = s1
  s2 = s2
  group = group
  Nothing = Nothing
  Servers = {s1, s2}
  Targets = {group}
  Requests <- BatchAndUnread
  Reports <- FiveReports
  MaxJobs = 2
  MaxTime = 2
  MaxFaults = 2
INVARIANTS
  CancelledIsNotApplied
  RunsOncePerBoot
  EveryRunIsAudited
PROPERTIES
  OldestFirst
  DueJobsRun
  InterruptedJobsRunAgain
