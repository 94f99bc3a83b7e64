\* Every sequence of accepted operations on a small file.
CONSTANTS
  Name <- Names
  NoName = "none"
  Folded <- Fold
  ParentZone <- Parents
  Within <- Tree
  OneType = {"A"}
  ManyType = {"TXT"}
  Value = {"v1", "v2"}
  NoValue = "-"
  FirstFiles <- HandFiles
  MaxLines = 4
  MaxRows = 2
SPECIFICATION FileSpec
CHECK_DEADLOCK FALSE
INVARIANTS AgreesWithRecordOps NoBlockedNameIsAnswered QuestionForeseesTheWrite
PROPERTIES FileKeepsItsShape SecondValueNeedsACopy
