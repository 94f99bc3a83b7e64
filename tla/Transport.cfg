SPECIFICATION Spec
CONSTANTS
  Writer = Writer
  Testers = {t1}
  Keeper = Keeper
  NoOne = NoOne
  Contents = {c1, c2}
  Part = Part
  NoFile = NoFile
  NoCommand = NoCommand
  Stray = Stray
  Endpoints = {e1, e2}
  FirstEndpoint = e1
  FirstFiles = {c1}
  Kinds = {"ssh", "agent"}
  MaxChanges = 1
  MaxTests = 1
  MaxSaves = 1
  MaxFaults = 1
INVARIANTS ConflictsHaveACause
PROPERTIES ReplacesWhatWasSeen CallsReturn
