\* Operators create, edit, re-key, trust and delete servers while callers
\* refresh the fleet and a change is written.
CONSTANTS
  s1 = s1
  s2 = s2
  h1 = h1
  h2 = h2
  Server = {s1, s2}
  FirstServers = {s1}
  FirstHost <- AtHosts
  Host = {h1, h2}
  Operator = {o1, o2}
  None = None
  Budgets <- Histories
  Callers = {timer, r1}
  Timer = timer
  Slots = 1
  MaxPasses = 3
SPECIFICATION Spec
CHECK_DEADLOCK FALSE
INVARIANTS EveryServerHasItsKey NoConnectionKeepsAnOldKey TrustIsInformed
PROPERTIES AnswersAreWholeAndRecent EveryCallReturns
