\* Two requests over a group of two servers while two operators move servers
\* and name references, a call fails or a file is edited by hand.
CONSTANTS
  a1 = a1
  a2 = a2
  block = block
  zone = zone
  s1 = s1
  s2 = s2
  s3 = s3
  g1 = g1
  g2 = g2
  Record <- Records
  Zone = {zone}
  Key = {"host", "zone"}
  KeyOf <- Names
  Spelling <- Spelled
  OneValue = {a1, a2}
  Policy = {block}
  Covers <- Blocked
  ParentOf <- Parents
  Server = {s1, s2, s3}
  Group = {g1, g2}
  None = None
  Requests = {r1, r2}
  Operators = {m1, m2}
  Asks <- Wishes
  FirstFiles <- Files
  FirstGroup <- InGroups
  FirstSource <- Sources
  Placements <- Transfers
  Edited = {a2}
  MaxEvents = 4
SPECIFICATION Spec
SYMMETRY Symmetry
CHECK_DEADLOCK FALSE
INVARIANTS ClosesTheDifferences OnlyMembersTakePart
PROPERTIES RepairAllAddsWhatIsFree MirrorIsExact
