SPECIFICATION Spec
CONSTANTS
  Collectors = {c1}
  Off = Off
  NoConn = NoConn
  Unplaced = Unplaced
  BatchSize = 2
  MaxRows = 3
  MaxChanges = 2
  MaxFaults = 1
INVARIANTS NoHoleBehindTheCursor
PROPERTIES RowsArriveInOrder BacklogIsCleared
