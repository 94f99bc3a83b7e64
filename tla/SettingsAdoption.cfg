\* A receiver is adopted, an operator turns it off, and the panel restarts.
CONSTANTS
  c1 = c1
  Operator = {o1, o2}
  Startup = startup
  Interval = {1, 2, 3}
  Collector = {c1}
  Off = Off
  Default <- Defaults
  Submissions <- Forms
  Rule = c1
  MaxSaves = 1
  MaxFaults = 1
  MaxStarts = 2
SPECIFICATION Spec
CHECK_DEADLOCK FALSE
PROPERTY AdoptionKeepsTheChoice
