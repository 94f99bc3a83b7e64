\* Two requests at a time, from two browsers under one account, however long
\* their answers take.
CONSTANTS
  b1 = b1
  b2 = b2
  u = u
  Browser = {b1, b2}
  Account = {u}
  AccountOf <- Owner
  None = None
  Slot = {r1, r2}
  Asks <- Requests
  FirstRows <- SignedIn
  FirstJar <- Cookie
  RotateInterval = 3
  Grace = 3
  Idle = 1
  Lifetime = 2
  Window = 2
  MaxTries = 1
  Latency = 1
  MaxClock = 3
  MaxSends = 3
  MaxFaults = 1
SPECIFICATION Spec
SYMMETRY Symmetry
CHECK_DEADLOCK FALSE
INVARIANTS WindowIsBounded
PROPERTIES EndedStaysEnded OverlapKeepsTheSession
