\* Two operators save the page and its cards beside each other; requests end,
\* statements fail and the panel restarts.
CONSTANTS
  c1 = c1
  Operator = {o1, o2}
  Startup = startup
  Interval = {1, 2, 3}
  Collector = {c1}
  Off = Off
  Default <- Defaults
  Submissions <- Forms
  Rule = c1
  MaxSaves = 3
  MaxFaults = 1
  MaxStarts = 2
SPECIFICATION Spec
CHECK_DEADLOCK FALSE
INVARIANT RunningSetWasApproved
PROPERTY UnrivalledSaveTakesEffect
