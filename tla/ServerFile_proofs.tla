-------------------------- MODULE ServerFile_proofs --------------------------
(***************************************************************************)
(* Theorems about ServerFile for every set of goroutines, records, files   *)
(* and faults, and every value of the bounds.                              *)
(***************************************************************************)
EXTENDS ServerFile, TLAPS

-----------------------------------------------------------------------------
(* The inductive invariant, in the parts the theorems need. *)

(* What a goroutine at a control point is running. *)
JobKnown(t) ==
  /\ pc[t] # "idle" /\ kind[t] = "change" => op[t] \in Ops
  /\ pc[t] \in ChangeAt => kind[t] \in {"change", "restore"}
  /\ pc[t] \in {"check", "undoRead", "undoCompare", "undoMove"} => kind[t] = "change"
  /\ pc[t] \in LadderAt \cup {"mark"} => kind[t] = "reload"
  /\ pc[t] \in LadderAt \cup {"idle", "queued"} => rung[t] \in 1..3

(* Between its read and its move, the holder's reading is the file's. *)
ReadingStands(t) ==
  /\ pc[t] \in {"compare", "move"} => seen[t] = snap[t]
  /\ At(t, "keep") /\ kind[t] = "restore" => seen[t] = snap[t]
  /\ At(t, "move") => file = snap[t] \/ touched
  /\ pc[t] \in {"undoCompare", "undoMove", "store", "state", "mark"}
       => file = seen[t] \/ touched

(* The restore point is the one the holder found, until it keeps its own.  *)
RestorePointStands(t) ==
  pc[t] \in ChangeAt \cup {"failed"} /\ kind[t] = "change"
    => backup = entry.backup

(* The holder's change is on the file and not in the trail yet. *)
Landed(t) ==
  /\ kind[t] \in {"change", "restore"}
  /\ \/ pc[t] \in {"check", "undoRead", "undoCompare", "undoMove", "ok"} \cup RefillAt
     \/ At(t, "keep") /\ kind[t] = "change"

(* Without a disturbance nothing is touched or cancelled. *)
Quiet == faults = 0 => ~ touched /\ \A t \in Tasks : ~ gone[t]

TrailInv ==
  /\ trail <= changes
  /\ \A t \in Tasks : Landed(t) => trail < changes
  /\ faults = 0 => /\ \A t \in Tasks : Landed(t) => changes = trail + 1
                   /\ (\A t \in Tasks : ~ Landed(t)) => changes = trail

HolderInv(t) == JobKnown(t) /\ ReadingStands(t) /\ RestorePointStands(t)

IInv ==
  /\ TypeOK
  /\ OneInside
  /\ \A t \in Tasks : HolderInv(t)
  /\ Quiet
  /\ TrailInv

-----------------------------------------------------------------------------
(* An operation of the record pages turns a file into a file. *)
LEMMA AfterIsContent ==
  ASSUME NEW o \in Operation, NEW c \in Content
  PROVE  After(o, c) \in Content
<1>1. ASSUME NEW d \in Content, NEW rs \in SUBSET Record
      PROVE  DeclareZones(d, rs) \in Content
  BY <1>1, RecordAssumption DEF RecordShape, DeclareZones, Content, Line
<1>2. CASE o \in OneRecord
  BY <1>1, <1>2 DEF OneRecord, After, Content, Line
<1>3. CASE o \in SetOne
  BY <1>1, <1>3, RecordAssumption DEF RecordShape, SetOne, After, Content, Line
<1>4. CASE o \in Edit
  BY <1>1, <1>4 DEF Edit, After, Content, Line
<1>5. CASE o \in Batch
  BY <1>1, <1>5 DEF Batch, After, Content, Line
<1>. QED  BY <1>2, <1>3, <1>4, <1>5 DEF Operation

LEMMA InitInv == Init => IInv
<1>. SUFFICES ASSUME Init PROVE IInv  OBVIOUS
<1>1. {} \in Content
  BY DEF Content
<1>2. /\ file \in FirstFiles
      /\ included = FirstIncluded
      /\ loaded = IF FirstIncluded THEN file ELSE {}
      /\ up = TRUE /\ late = {}
      /\ cache = {} /\ fetched = None /\ applied = None /\ reachable = FALSE
      /\ backup = None /\ trail = 0
      /\ started = 0 /\ faults = 0 /\ touched = FALSE
      /\ entry = NoEntry /\ changes = 0
  BY Zenon DEF Init
<1>3. /\ lock = NoTask
      /\ pc = [t \in Tasks |-> "idle"]
      /\ kind = [t \in Tasks |-> "refresh"]
      /\ op = [t \in Tasks |-> NoOp]
      /\ snap = [t \in Tasks |-> {}]
      /\ seen = [t \in Tasks |-> {}]
      /\ want = [t \in Tasks |-> {}]
      /\ gone = [t \in Tasks |-> FALSE]
      /\ rung = [t \in Tasks |-> 1]
  BY Zenon DEF Init
<1>. HIDE DEF Init
<1>4. RemoteType /\ DatabaseType
  <2>1. file \in Content
    BY <1>2, ServerFileAssumption
  <2>2. loaded \in Content /\ included \in BOOLEAN
    BY <1>1, <1>2, <2>1, ServerFileAssumption
  <2>3. up \in BOOLEAN /\ reachable \in BOOLEAN
    BY <1>2, Zenon
  <2>. QED  BY <1>1, <1>2, <2>1, <2>2, <2>3 DEF RemoteType, DatabaseType
<1>5. ProcessType
  BY <1>1, <1>3 DEF ProcessType, Point, JobKind
<1>6. HistoryType
  <2>1. touched \in BOOLEAN
    BY <1>2, Zenon
  <2>2. entry \in [file : Content, backup : Content \cup {None}, faults : Nat]
    BY <1>1, <1>2 DEF NoEntry
  <2>3. started \in 0..MaxStarts /\ faults \in 0..MaxFaults /\ changes \in Int
    BY <1>2, ServerFileAssumption
  <2>. QED  BY <2>1, <2>2, <2>3 DEF HistoryType
<1>7. OneInside
  BY <1>3, ServerFileAssumption
  DEF OneInside, Inside, ChangeAt, RefillAt, LadderAt, Ended
<1>8. \A t \in Tasks : HolderInv(t)
  BY <1>3
  DEF HolderInv, JobKnown, ReadingStands, RestorePointStands, At, ChangeAt, LadderAt
<1>9. Quiet /\ TrailInv
  BY <1>2, <1>3 DEF Quiet, TrailInv, Landed, RefillAt, At
<1>. QED  BY <1>4, <1>5, <1>6, <1>7, <1>8, <1>9 DEF IInv, TypeOK

-----------------------------------------------------------------------------
(* A call that answers or fails keeps the count of disturbances in bounds. *)
LEMMA FaultsStayBounded ==
  ASSUME HistoryType, NEW t, Answers(t) \/ Fails(t)
  PROVE  faults' \in 0..MaxFaults
BY ServerFileAssumption DEF HistoryType, Answers, Fails, Disturb

(* Every step keeps the types. *)
LEMMA TypeStep ==
  ASSUME IInv, Next
  PROVE  TypeOK'
<1>0. RemoteType /\ DatabaseType /\ ProcessType /\ HistoryType
  BY DEF IInv, TypeOK
<1>. USE <1>0
<1>1. {} \in Content
  BY DEF Content
<1>2. ASSUME NEW t \in Tasks, Apply(t)
     PROVE  TypeOK'
  <2>1. RemoteType'
    BY <1>2 DEF RemoteType, Apply, Start, remote
  <2>2. DatabaseType'
    BY <1>2 DEF DatabaseType, Apply, Start, database
  <2>3. ProcessType'
    BY <1>2 DEF ProcessType, Goto, Point, Inside, ChangeAt, RefillAt, LadderAt,
         Ended, Apply, Start, JobKind
  <2>4. HistoryType'
    BY <1>2, ServerFileAssumption DEF HistoryType, Apply, Start, history
  <2>. QED  BY <2>1, <2>2, <2>3, <2>4 DEF TypeOK
<1>3. ASSUME NEW t \in Tasks, RestoreFile(t)
     PROVE  TypeOK'
  <2>1. RemoteType'
    BY <1>3 DEF RemoteType, RestoreFile, Start, remote
  <2>2. DatabaseType'
    BY <1>3 DEF DatabaseType, RestoreFile, Start, database
  <2>3. ProcessType'
    BY <1>3, ServerFileAssumption DEF ProcessType, Goto, Point, Inside,
         ChangeAt, RefillAt, LadderAt, Ended, RestoreFile, Start, JobKind,
         DatabaseType
  <2>4. HistoryType'
    BY <1>3, ServerFileAssumption DEF HistoryType, RestoreFile, Start, history
  <2>. QED  BY <2>1, <2>2, <2>3, <2>4 DEF TypeOK
<1>4. ASSUME NEW t \in Tasks, Reload(t)
     PROVE  TypeOK'
  <2>1. RemoteType'
    BY <1>4 DEF RemoteType, Reload, Start, remote
  <2>2. DatabaseType'
    BY <1>4 DEF DatabaseType, Reload, Start, database
  <2>3. ProcessType'
    BY <1>4 DEF ProcessType, Goto, Point, Inside, ChangeAt, RefillAt, LadderAt,
         Ended, Reload, Start, JobKind
  <2>4. HistoryType'
    BY <1>4, ServerFileAssumption DEF HistoryType, Reload, Start, history
  <2>. QED  BY <2>1, <2>2, <2>3, <2>4 DEF TypeOK
<1>5. ASSUME NEW t \in Tasks, Refresh(t)
     PROVE  TypeOK'
  <2>1. RemoteType'
    BY <1>5 DEF RemoteType, Refresh, Start, remote
  <2>2. DatabaseType'
    BY <1>5 DEF DatabaseType, Refresh, Start, database
  <2>3. ProcessType'
    BY <1>5 DEF ProcessType, Goto, Point, Inside, ChangeAt, RefillAt, LadderAt,
         Ended, Refresh, Start, JobKind
  <2>4. HistoryType'
    BY <1>5, ServerFileAssumption DEF HistoryType, Refresh, Start, history
  <2>. QED  BY <2>1, <2>2, <2>3, <2>4 DEF TypeOK
<1>6. ASSUME NEW t \in Tasks, Acquire(t)
     PROVE  TypeOK'
  <2>1. RemoteType'
    BY <1>6 DEF RemoteType, Acquire, remote
  <2>2. DatabaseType'
    BY <1>6 DEF DatabaseType, Acquire, database
  <2>3. ProcessType'
    BY <1>6 DEF ProcessType, Goto, Point, Inside, ChangeAt, RefillAt, LadderAt,
         Ended, Acquire, FirstStep, JobKind, job
  <2>4. HistoryType'
    BY <1>6 DEF HistoryType, Acquire, job, RemoteType, DatabaseType
  <2>. QED  BY <2>1, <2>2, <2>3, <2>4 DEF TypeOK
<1>7. ASSUME NEW t \in Tasks, EnsureInclude(t)
     PROVE  TypeOK'
  <2>1. included' \in BOOLEAN
    BY <1>7, Zenon DEF RemoteType, EnsureInclude
  <2>2. RemoteType'
    BY <1>7, <2>1 DEF RemoteType, EnsureInclude, remote
  <2>3. DatabaseType'
    BY <1>7 DEF DatabaseType, EnsureInclude, database
  <2>4. ProcessType'
    BY <1>7 DEF ProcessType, Goto, Point, Inside, ChangeAt, RefillAt, LadderAt,
         Ended, EnsureInclude, job
  <2>5. faults' \in 0..MaxFaults
    BY <1>7, FaultsStayBounded DEF EnsureInclude
  <2>6. HistoryType'
    BY <1>7, <2>5 DEF HistoryType, EnsureInclude, job, history
  <2>. QED  BY <2>2, <2>3, <2>4, <2>6 DEF TypeOK
<1>8. ASSUME NEW t \in Tasks, ReadAllows(t)
     PROVE  TypeOK'
  <2>1. RemoteType'
    BY <1>8 DEF RemoteType, ReadAllows, Look, remote
  <2>2. DatabaseType'
    BY <1>8 DEF DatabaseType, ReadAllows, Look, database
  <2>3. ProcessType'
    BY <1>8, AfterIsContent, ServerFileAssumption DEF ProcessType, Goto, Point,
         Inside, ChangeAt, RefillAt, LadderAt, Ended, ReadAllows, Look, job,
         RemoteType, At, JobKnown, IInv, HolderInv
  <2>4. faults' \in 0..MaxFaults
    BY <1>8, FaultsStayBounded DEF ReadAllows, Look
  <2>5. touched' \in BOOLEAN
    BY <1>8, Zenon DEF HistoryType, ReadAllows, Look
  <2>6. HistoryType'
    BY <1>8, <2>4, <2>5 DEF HistoryType, ReadAllows, Look, job
  <2>. QED  BY <2>1, <2>2, <2>3, <2>6 DEF TypeOK
<1>9. ASSUME NEW t \in Tasks, ReadRefuses(t)
     PROVE  TypeOK'
  <2>1. RemoteType'
    BY <1>9 DEF RemoteType, ReadRefuses, Look, remote
  <2>2. DatabaseType'
    BY <1>9 DEF DatabaseType, ReadRefuses, Look, database
  <2>3. ProcessType'
    BY <1>9 DEF ProcessType, Goto, Point, Inside, ChangeAt, RefillAt, LadderAt,
         Ended, ReadRefuses, Look, job, RemoteType, At
  <2>4. faults' \in 0..MaxFaults
    BY <1>9, FaultsStayBounded DEF ReadRefuses, Look
  <2>5. touched' \in BOOLEAN
    BY <1>9, Zenon DEF HistoryType, ReadRefuses, Look
  <2>6. HistoryType'
    BY <1>9, <2>4, <2>5 DEF HistoryType, ReadRefuses, Look, job
  <2>. QED  BY <2>1, <2>2, <2>3, <2>6 DEF TypeOK
<1>10. ASSUME NEW t \in Tasks, ReadForRestore(t)
     PROVE  TypeOK'
  <2>1. RemoteType'
    BY <1>10 DEF RemoteType, ReadForRestore, Look, remote
  <2>2. DatabaseType'
    BY <1>10 DEF DatabaseType, ReadForRestore, Look, database
  <2>3. ProcessType'
    BY <1>10 DEF ProcessType, Goto, Point, Inside, ChangeAt, RefillAt,
         LadderAt, Ended, ReadForRestore, Look, job, RemoteType, At
  <2>4. faults' \in 0..MaxFaults
    BY <1>10, FaultsStayBounded DEF ReadForRestore, Look
  <2>5. touched' \in BOOLEAN
    BY <1>10, Zenon DEF HistoryType, ReadForRestore, Look
  <2>6. HistoryType'
    BY <1>10, <2>4, <2>5 DEF HistoryType, ReadForRestore, Look, job
  <2>. QED  BY <2>1, <2>2, <2>3, <2>6 DEF TypeOK
<1>11. ASSUME NEW t \in Tasks, ReadFails(t)
     PROVE  TypeOK'
  <2>1. RemoteType'
    BY <1>11 DEF RemoteType, ReadFails, remote
  <2>2. DatabaseType'
    BY <1>11 DEF DatabaseType, ReadFails, database
  <2>3. ProcessType'
    BY <1>11 DEF ProcessType, Goto, Point, Inside, ChangeAt, RefillAt,
         LadderAt, Ended, ReadFails, job
  <2>4. faults' \in 0..MaxFaults
    BY <1>11, FaultsStayBounded DEF ReadFails
  <2>5. HistoryType'
    BY <1>11, <2>4 DEF HistoryType, ReadFails, job, history
  <2>. QED  BY <2>1, <2>2, <2>3, <2>5 DEF TypeOK
<1>12. ASSUME NEW t \in Tasks, Compare(t)
     PROVE  TypeOK'
  <2>1. RemoteType'
    BY <1>12 DEF RemoteType, Compare, MayOutlive, ProcessType
  <2>2. DatabaseType'
    BY <1>12 DEF DatabaseType, Compare, database
  <2>3. ProcessType'
    BY <1>12 DEF ProcessType, Goto, Point, Inside, ChangeAt, RefillAt,
         LadderAt, Ended, Compare, job, process
  <2>4. faults' \in 0..MaxFaults
    BY <1>12, FaultsStayBounded DEF Compare
  <2>5. touched' \in BOOLEAN
    BY <1>12, Zenon DEF HistoryType, Compare
  <2>6. HistoryType'
    BY <1>12, <2>4, <2>5 DEF HistoryType, Compare, job
  <2>. QED  BY <2>1, <2>2, <2>3, <2>6 DEF TypeOK
<1>13. ASSUME NEW t \in Tasks, Moved(t)
     PROVE  TypeOK'
  <2>1. RemoteType'
    BY <1>13 DEF RemoteType, Moved, Replace, ProcessType, remote
  <2>2. DatabaseType'
    BY <1>13 DEF DatabaseType, Moved, database
  <2>3. ProcessType'
    BY <1>13 DEF ProcessType, Goto, Point, Inside, ChangeAt, RefillAt,
         LadderAt, Ended, Moved, job, At
  <2>4. faults' \in 0..MaxFaults
    BY <1>13, FaultsStayBounded DEF Moved
  <2>5. touched' \in BOOLEAN
    BY <1>13, Zenon DEF HistoryType, Moved, Replace
  <2>6. HistoryType'
    BY <1>13, <2>4, <2>5 DEF HistoryType, Moved, job, Replace
  <2>. QED  BY <2>1, <2>2, <2>3, <2>6 DEF TypeOK
<1>14. ASSUME NEW t \in Tasks, MoveFails(t)
     PROVE  TypeOK'
  <2>1. RemoteType'
    BY <1>14 DEF RemoteType, MoveFails, MayOutlive, Replace, ProcessType
  <2>2. DatabaseType'
    BY <1>14 DEF DatabaseType, MoveFails, database
  <2>3. ProcessType'
    BY <1>14 DEF ProcessType, Goto, Point, Inside, ChangeAt, RefillAt,
         LadderAt, Ended, MoveFails, job
  <2>4. faults' \in 0..MaxFaults
    BY <1>14, FaultsStayBounded DEF MoveFails
  <2>5. touched' \in BOOLEAN
    BY <1>14, Zenon DEF HistoryType, MoveFails, Replace
  <2>6. HistoryType'
    BY <1>14, <2>4, <2>5 DEF HistoryType, MoveFails, job, Replace
  <2>. QED  BY <2>1, <2>2, <2>3, <2>6 DEF TypeOK
<1>15. ASSUME NEW t \in Tasks, CheckSkipped(t)
     PROVE  TypeOK'
  <2>1. RemoteType'
    BY <1>15 DEF RemoteType, CheckSkipped, remote
  <2>2. DatabaseType'
    BY <1>15 DEF DatabaseType, CheckSkipped, database
  <2>3. ProcessType'
    BY <1>15 DEF ProcessType, Goto, Point, Inside, ChangeAt, RefillAt,
         LadderAt, Ended, CheckSkipped, job
  <2>4. HistoryType'
    BY <1>15 DEF HistoryType, CheckSkipped, job, history
  <2>. QED  BY <2>1, <2>2, <2>3, <2>4 DEF TypeOK
<1>16. ASSUME NEW t \in Tasks, CheckAccepts(t)
     PROVE  TypeOK'
  <2>1. RemoteType'
    BY <1>16 DEF RemoteType, CheckAccepts, remote
  <2>2. DatabaseType'
    BY <1>16 DEF DatabaseType, CheckAccepts, database
  <2>3. ProcessType'
    BY <1>16 DEF ProcessType, Goto, Point, Inside, ChangeAt, RefillAt,
         LadderAt, Ended, CheckAccepts, job
  <2>4. faults' \in 0..MaxFaults
    BY <1>16, FaultsStayBounded DEF CheckAccepts
  <2>5. HistoryType'
    BY <1>16, <2>4 DEF HistoryType, CheckAccepts, job, history
  <2>. QED  BY <2>1, <2>2, <2>3, <2>5 DEF TypeOK
<1>17. ASSUME NEW t \in Tasks, CheckRefuses(t)
     PROVE  TypeOK'
  <2>1. RemoteType'
    BY <1>17 DEF RemoteType, CheckRefuses, remote
  <2>2. DatabaseType'
    BY <1>17 DEF DatabaseType, CheckRefuses, database
  <2>3. ProcessType'
    BY <1>17 DEF ProcessType, Goto, Point, Inside, ChangeAt, RefillAt,
         LadderAt, Ended, CheckRefuses, job
  <2>4. faults' \in 0..MaxFaults
    BY <1>17, FaultsStayBounded DEF CheckRefuses
  <2>5. HistoryType'
    BY <1>17, <2>4 DEF HistoryType, CheckRefuses, job, history
  <2>. QED  BY <2>1, <2>2, <2>3, <2>5 DEF TypeOK
<1>18. ASSUME NEW t \in Tasks, UndoRead(t)
     PROVE  TypeOK'
  <2>1. RemoteType'
    BY <1>18 DEF RemoteType, UndoRead, remote
  <2>2. DatabaseType'
    BY <1>18 DEF DatabaseType, UndoRead, database
  <2>3. ProcessType'
    BY <1>18 DEF ProcessType, Goto, Point, Inside, ChangeAt, RefillAt,
         LadderAt, Ended, UndoRead, job, RemoteType
  <2>4. faults' \in 0..MaxFaults
    BY <1>18, FaultsStayBounded DEF UndoRead
  <2>5. touched' \in BOOLEAN
    BY <1>18, Zenon DEF HistoryType, UndoRead
  <2>6. HistoryType'
    BY <1>18, <2>4, <2>5 DEF HistoryType, UndoRead, job
  <2>. QED  BY <2>1, <2>2, <2>3, <2>6 DEF TypeOK
<1>19. ASSUME NEW t \in Tasks, KeepPrevious(t)
     PROVE  TypeOK'
  <2>1. RemoteType'
    BY <1>19 DEF RemoteType, KeepPrevious, remote
  <2>2. DatabaseType'
    BY <1>19 DEF DatabaseType, KeepPrevious, ProcessType, database
  <2>3. ProcessType'
    BY <1>19 DEF ProcessType, Goto, Point, Inside, ChangeAt, RefillAt,
         LadderAt, Ended, KeepPrevious, job
  <2>4. faults' \in 0..MaxFaults
    BY <1>19, FaultsStayBounded DEF KeepPrevious
  <2>5. HistoryType'
    BY <1>19, <2>4 DEF HistoryType, KeepPrevious, job, history
  <2>. QED  BY <2>1, <2>2, <2>3, <2>5 DEF TypeOK
<1>20. ASSUME NEW t \in Tasks, Pull(t)
     PROVE  TypeOK'
  <2>1. RemoteType'
    BY <1>20 DEF RemoteType, Pull, remote
  <2>2. reachable' \in BOOLEAN
    BY <1>20, Zenon DEF DatabaseType, Pull
  <2>3. DatabaseType'
    BY <1>20, <2>2 DEF DatabaseType, ProcessType, Pull, database
  <2>4. ProcessType'
    BY <1>20 DEF ProcessType, Goto, Point, Inside, ChangeAt, RefillAt,
         LadderAt, Ended, Pull, job, RemoteType, GiveUp
  <2>5. faults' \in 0..MaxFaults
    BY <1>20, FaultsStayBounded DEF Pull
  <2>6. touched' \in BOOLEAN
    BY <1>20, Zenon DEF HistoryType, Pull
  <2>7. HistoryType'
    BY <1>20, <2>5, <2>6 DEF HistoryType, Pull, job
  <2>. QED  BY <2>1, <2>3, <2>4, <2>7 DEF TypeOK
<1>21. ASSUME NEW t \in Tasks, StoreRecords(t)
     PROVE  TypeOK'
  <2>1. RemoteType'
    BY <1>21 DEF RemoteType, StoreRecords, remote
  <2>2. DatabaseType'
    BY <1>21 DEF DatabaseType, StoreRecords, ProcessType, database
  <2>3. ProcessType'
    BY <1>21 DEF ProcessType, Goto, Point, Inside, ChangeAt, RefillAt,
         LadderAt, Ended, StoreRecords, job, GiveUp
  <2>4. faults' \in 0..MaxFaults
    BY <1>21, FaultsStayBounded DEF StoreRecords
  <2>5. HistoryType'
    BY <1>21, <2>4 DEF HistoryType, StoreRecords, job, history
  <2>. QED  BY <2>1, <2>2, <2>3, <2>5 DEF TypeOK
<1>22. ASSUME NEW t \in Tasks, SetFetched(t)
     PROVE  TypeOK'
  <2>1. RemoteType'
    BY <1>22 DEF RemoteType, SetFetched, remote
  <2>2. reachable' \in BOOLEAN
    BY <1>22, Zenon DEF DatabaseType, SetFetched
  <2>3. DatabaseType'
    BY <1>22, <2>2 DEF DatabaseType, SetFetched, ProcessType, database
  <2>4. ProcessType'
    BY <1>22 DEF ProcessType, Goto, Point, Inside, ChangeAt, RefillAt,
         LadderAt, Ended, SetFetched, job, GiveUp
  <2>5. faults' \in 0..MaxFaults
    BY <1>22, FaultsStayBounded DEF SetFetched
  <2>6. HistoryType'
    BY <1>22, <2>5 DEF HistoryType, SetFetched, job, history
  <2>. QED  BY <2>1, <2>3, <2>4, <2>6 DEF TypeOK
<1>23. ASSUME NEW t \in Tasks, MarkApplied(t)
     PROVE  TypeOK'
  <2>1. RemoteType'
    BY <1>23 DEF RemoteType, MarkApplied, remote
  <2>2. DatabaseType'
    BY <1>23 DEF DatabaseType, MarkApplied, ProcessType, database
  <2>3. ProcessType'
    BY <1>23 DEF ProcessType, Goto, Point, Inside, ChangeAt, RefillAt,
         LadderAt, Ended, MarkApplied, job
  <2>4. faults' \in 0..MaxFaults
    BY <1>23, FaultsStayBounded DEF MarkApplied
  <2>5. HistoryType'
    BY <1>23, <2>4 DEF HistoryType, MarkApplied, job, history
  <2>. QED  BY <2>1, <2>2, <2>3, <2>5 DEF TypeOK
<1>24. ASSUME NEW t \in Tasks, RungSkipped(t)
     PROVE  TypeOK'
  <2>1. RemoteType'
    BY <1>24 DEF RemoteType, RungSkipped, remote
  <2>2. DatabaseType'
    BY <1>24 DEF DatabaseType, RungSkipped, database
  <2>3. ProcessType'
    BY <1>24 DEF ProcessType, Goto, Point, Inside, ChangeAt, RefillAt,
         LadderAt, Ended, RungSkipped, job, NextRung, IInv, HolderInv,
         JobKnown, At
  <2>4. HistoryType'
    BY <1>24 DEF HistoryType, RungSkipped, job, history
  <2>. QED  BY <2>1, <2>2, <2>3, <2>4 DEF TypeOK
<1>25. ASSUME NEW t \in Tasks, RungRuns(t)
     PROVE  TypeOK'
  <2>1. up' \in BOOLEAN
    BY <1>25, Zenon DEF RemoteType, RungRuns, Obeys, Loads
  <2>2. RemoteType'
    BY <1>1, <1>25, <2>1 DEF RemoteType, RungRuns, Obeys, Served, remote
  <2>3. DatabaseType'
    BY <1>25 DEF DatabaseType, RungRuns, database
  <2>4. ProcessType'
    BY <1>25 DEF ProcessType, Goto, Point, Inside, ChangeAt, RefillAt,
         LadderAt, Ended, RungRuns, job
  <2>5. faults' \in 0..MaxFaults
    BY <1>25, FaultsStayBounded DEF RungRuns
  <2>6. HistoryType'
    BY <1>25, <2>5 DEF HistoryType, RungRuns, job, history
  <2>. QED  BY <2>2, <2>3, <2>4, <2>6 DEF TypeOK
<1>26. ASSUME NEW t \in Tasks, RungFails(t)
     PROVE  TypeOK'
  <2>1. up' \in BOOLEAN
    BY <1>26, Zenon DEF RemoteType, RungFails, Obeys, Loads
  <2>2. RemoteType'
    BY <1>1, <1>26, <2>1 DEF RemoteType, RungFails, Obeys, Served, remote
  <2>3. DatabaseType'
    BY <1>26 DEF DatabaseType, RungFails, database
  <2>4. ProcessType'
    BY <1>26 DEF ProcessType, Goto, Point, Inside, ChangeAt, RefillAt,
         LadderAt, Ended, RungFails, job, NextRung, IInv, HolderInv, JobKnown,
         At
  <2>5. faults' \in 0..MaxFaults
    BY <1>26, FaultsStayBounded DEF RungFails
  <2>6. HistoryType'
    BY <1>26, <2>5 DEF HistoryType, RungFails, job, history
  <2>. QED  BY <2>2, <2>3, <2>4, <2>6 DEF TypeOK
<1>27. ASSUME NEW t \in Tasks, Settled(t)
     PROVE  TypeOK'
  <2>1. RemoteType'
    BY <1>27 DEF RemoteType, Settled, remote
  <2>2. DatabaseType'
    BY <1>27 DEF DatabaseType, Settled, database
  <2>3. ProcessType'
    BY <1>27 DEF ProcessType, Goto, Point, Inside, ChangeAt, RefillAt,
         LadderAt, Ended, Settled, job, NextRung, IInv, HolderInv, JobKnown, At
  <2>4. faults' \in 0..MaxFaults
    BY <1>27, FaultsStayBounded DEF Settled
  <2>5. HistoryType'
    BY <1>27, <2>4 DEF HistoryType, Settled, job, history
  <2>. QED  BY <2>1, <2>2, <2>3, <2>5 DEF TypeOK
<1>28. ASSUME NEW t \in Tasks, Release(t)
     PROVE  TypeOK'
  <2>1. RemoteType'
    BY <1>28 DEF RemoteType, Release, EndJob, remote
  <2>2. DatabaseType'
    BY <1>28 DEF DatabaseType, Release, EndJob, WriteRow, database
  <2>3. ProcessType'
    BY <1>28, <1>1 DEF ProcessType, Goto, Point, Inside, ChangeAt, RefillAt,
         LadderAt, Ended, Release, EndJob, JobKind
  <2>4. touched' \in BOOLEAN
    BY <1>28, Zenon DEF HistoryType, Release, EndJob
  <2>5. HistoryType'
    BY <1>28, <2>4, <1>1, ServerFileAssumption DEF HistoryType, Release, EndJob, WriteRow,
         NoEntry, Disturb
  <2>. QED  BY <2>1, <2>2, <2>3, <2>5 DEF TypeOK
<1>29. ASSUME NEW t \in Tasks, RequestEnds(t)
     PROVE  TypeOK'
  <2>1. RemoteType'
    BY <1>29 DEF RemoteType, RequestEnds, remote
  <2>2. DatabaseType'
    BY <1>29 DEF DatabaseType, RequestEnds, database
  <2>3. ProcessType'
    BY <1>29 DEF ProcessType, Goto, Point, Inside, ChangeAt, RefillAt,
         LadderAt, Ended, RequestEnds
  <2>4. HistoryType'
    BY <1>29, ServerFileAssumption DEF HistoryType, RequestEnds, Disturb,
         history
  <2>. QED  BY <2>1, <2>2, <2>3, <2>4 DEF TypeOK
<1>30. CASE HandEdit
  <2>1. RemoteType' /\ DatabaseType' /\ ProcessType'
    BY <1>30 DEF HandEdit, RemoteType, DatabaseType, ProcessType, database,
         process
  <2>2. touched' \in BOOLEAN
    BY <1>30, Zenon DEF HandEdit
  <2>3. HistoryType'
    BY <1>30, <2>2, ServerFileAssumption DEF HandEdit, HistoryType, Disturb
  <2>. QED  BY <2>1, <2>2, <2>3 DEF TypeOK
<1>31. CASE Crash
  <2>1. late' \subseteq Content
    BY <1>31 DEF Crash, RemoteType, ProcessType
  <2>2. RemoteType' /\ DatabaseType'
    BY <1>31, <2>1 DEF Crash, RemoteType, DatabaseType, database
  <2>3. ProcessType'
    BY <1>31, <1>1 DEF Crash, ProcessType, Point, JobKind
  <2>4. touched' \in BOOLEAN
    BY <1>31, Zenon DEF Crash
  <2>5. HistoryType'
    BY <1>31, <1>1, <2>4, ServerFileAssumption DEF Crash, HistoryType, Disturb,
         NoEntry
  <2>. QED  BY <2>2, <2>3, <2>5 DEF TypeOK
<1>32. CASE LateMove
  <2>1. RemoteType' /\ DatabaseType' /\ ProcessType'
    BY <1>32 DEF LateMove, RemoteType, DatabaseType, ProcessType, database,
         process
  <2>2. touched' \in BOOLEAN
    BY <1>32, Zenon DEF LateMove
  <2>3. HistoryType'
    BY <1>32, <2>2, ServerFileAssumption DEF LateMove, HistoryType, Disturb
  <2>. QED  BY <2>1, <2>2, <2>3 DEF TypeOK
<1>. QED
  BY <1>2, <1>3, <1>4, <1>5, <1>6, <1>7, <1>8, <1>9, <1>10, <1>11, <1>12,
       <1>13, <1>14, <1>15, <1>16, <1>17, <1>18, <1>19, <1>20, <1>21, <1>22,
       <1>23, <1>24, <1>25, <1>26, <1>27, <1>28, <1>29, <1>30, <1>31, <1>32
  DEF Next, Arrive, Advance, WriteStep, RefillStep, LadderStep

-----------------------------------------------------------------------------
(* A step inside the critical section that is not the unlock moves its own *)
(* goroutine to another point inside, and leaves everybody else alone.     *)
LEMMA AdvanceShape ==
  ASSUME TypeOK, NEW t \in Tasks, Advance(t), pc[t] \notin Ended
  PROVE  /\ pc[t] \in Inside /\ pc'[t] \in Inside
         /\ \A u \in Tasks \ {t} : pc'[u] = pc[u]
         /\ UNCHANGED <<lock, kind, op, gone, entry>>
         /\ faults' >= faults
         /\ touched' => touched
<1>. USE DEF Goto, At, job, Inside, ChangeAt, RefillAt, LadderAt, Ended
<1>0. pc \in [Tasks -> Point] /\ faults \in Nat
  BY DEF TypeOK, ProcessType, HistoryType
<1>1. ASSUME Answers(t) \/ Fails(t)
      PROVE  faults' >= faults
  BY <1>0, <1>1 DEF Answers, Fails, Disturb
<1>. USE <1>0, <1>1
<1>2. CASE EnsureInclude(t)
  BY <1>2 DEF EnsureInclude, history
<1>3. CASE ReadAllows(t)
  BY <1>3 DEF ReadAllows, Look
<1>4. CASE ReadRefuses(t)
  BY <1>4 DEF ReadRefuses, Look
<1>5. CASE ReadForRestore(t)
  BY <1>5 DEF ReadForRestore, Look
<1>6. CASE ReadFails(t)
  BY <1>6 DEF ReadFails, history
<1>7. CASE Compare(t)
  BY <1>7 DEF Compare
<1>8. CASE Moved(t)
  BY <1>8 DEF Moved, Replace
<1>9. CASE MoveFails(t)
  BY <1>9 DEF MoveFails, Replace
<1>10. CASE CheckSkipped(t)
  BY <1>10 DEF CheckSkipped, history
<1>11. CASE CheckAccepts(t)
  BY <1>11 DEF CheckAccepts, history
<1>12. CASE CheckRefuses(t)
  BY <1>12 DEF CheckRefuses, history
<1>13. CASE UndoRead(t)
  BY <1>13 DEF UndoRead
<1>14. CASE KeepPrevious(t)
  BY <1>14 DEF KeepPrevious, history
<1>15. CASE Pull(t)
  <2>1. touched' => touched
    BY <1>15, Zenon DEF Pull
  <2>2. pc'[t] \in Inside /\ \A u \in Tasks \ {t} : pc'[u] = pc[u]
    BY <1>15 DEF Pull, GiveUp
  <2>3. pc[t] \in Inside /\ UNCHANGED <<lock, kind, op, gone, entry>>
    BY <1>15 DEF Pull
  <2>4. Answers(t) \/ Fails(t)
    BY <1>15 DEF Pull
  <2>. QED  BY <2>1, <2>2, <2>3, <2>4
<1>16. CASE StoreRecords(t)
  BY <1>16 DEF StoreRecords, GiveUp, history
<1>17. CASE SetFetched(t)
  BY <1>17 DEF SetFetched, GiveUp, history
<1>18. CASE MarkApplied(t)
  BY <1>18 DEF MarkApplied, history
<1>19. CASE RungSkipped(t)
  BY <1>19 DEF RungSkipped, NextRung, history
<1>20. CASE RungRuns(t)
  BY <1>20 DEF RungRuns, history
<1>21. CASE RungFails(t)
  BY <1>21 DEF RungFails, NextRung, history
<1>22. CASE Settled(t)
  BY <1>22 DEF Settled, NextRung, history
<1>. QED
  BY <1>2, <1>3, <1>4, <1>5, <1>6, <1>7, <1>8, <1>9, <1>10, <1>11, <1>12, <1>13, <1>14, <1>15, <1>16, <1>17, <1>18, <1>19, <1>20, <1>21, <1>22
  DEF Advance, WriteStep, RefillStep, LadderStep, Release

(* What the other kinds of step do to the control state. *)
LEMMA OtherShapes ==
  ASSUME TypeOK
  PROVE  /\ \A t \in Tasks : Arrive(t) \/ Refresh(t) =>
              /\ pc[t] = "idle" /\ pc' = [pc EXCEPT ![t] = "queued"]
              /\ \A u \in Tasks \ {t} : kind'[u] = kind[u] /\ op'[u] = op[u]
              /\ kind'[t] = "change" => op'[t] \in Ops
              /\ UNCHANGED <<lock, rung, snap, seen, gone, faults, history, file>>
              /\ UNCHANGED database
         /\ \A t \in Tasks : Release(t) =>
              /\ pc[t] \in Inside /\ pc' = [pc EXCEPT ![t] = "idle"]
              /\ lock' = NoTask /\ ~ touched' /\ rung'[t] = 1
              /\ kind' = [kind EXCEPT ![t] = "refresh"]
              /\ op' = [op EXCEPT ![t] = NoOp]
              /\ gone' = [gone EXCEPT ![t] = FALSE]
              /\ \A u \in Tasks \ {t} : rung'[u] = rung[u]
              /\ faults' >= faults
<1>1. ASSUME NEW t \in Tasks, Arrive(t) \/ Refresh(t)
      PROVE  /\ pc[t] = "idle" /\ pc' = [pc EXCEPT ![t] = "queued"]
             /\ \A u \in Tasks \ {t} : kind'[u] = kind[u] /\ op'[u] = op[u]
             /\ kind'[t] = "change" => op'[t] \in Ops
             /\ UNCHANGED <<lock, rung, snap, seen, gone, faults, history, file>>
             /\ UNCHANGED database
  BY <1>1
  DEF TypeOK, ProcessType, Arrive, Apply, RestoreFile, Reload, Refresh, Start,
      Goto, At, remote
<1>2. ASSUME NEW t \in Tasks, Release(t)
      PROVE  /\ pc[t] \in Inside /\ pc' = [pc EXCEPT ![t] = "idle"]
             /\ lock' = NoTask /\ ~ touched' /\ rung'[t] = 1
             /\ kind' = [kind EXCEPT ![t] = "refresh"]
             /\ op' = [op EXCEPT ![t] = NoOp]
             /\ gone' = [gone EXCEPT ![t] = FALSE]
             /\ \A u \in Tasks \ {t} : rung'[u] = rung[u]
             /\ faults' >= faults
  BY <1>2
  DEF TypeOK, ProcessType, HistoryType, Release, EndJob, WriteRow, Goto, Inside,
      Disturb
<1>. QED  BY <1>1, <1>2

(* A goroutine that has reached an outcome can only unlock. *)
LEMMA EndedOnlyReleases ==
  ASSUME NEW t \in Tasks, Advance(t), pc[t] \in Ended
  PROVE  Release(t)
BY DEF Advance, WriteStep, RefillStep, LadderStep, EnsureInclude, ReadAllows,
       ReadRefuses, ReadForRestore, ReadFails, Look, Compare, Moved, MoveFails,
       CheckSkipped, CheckAccepts, CheckRefuses, UndoRead, KeepPrevious, Pull,
       StoreRecords, SetFetched, MarkApplied, RungSkipped, RungRuns, RungFails,
       Settled, At, Ended

(* One goroutine at a time stays inside the critical section. *)
LEMMA InsideStep ==
  ASSUME IInv, Next
  PROVE  OneInside'
<1>0. TypeOK /\ OneInside /\ pc \in [Tasks -> Point] /\ kind \in [Tasks -> JobKind]
  BY DEF IInv, TypeOK, ProcessType
<1>. USE <1>0
<1>1. {"idle", "queued"} \cap Inside = {}
  BY DEF Inside, ChangeAt, RefillAt, LadderAt, Ended
<1>2. ASSUME NEW t \in Tasks, Arrive(t) \/ Refresh(t)
      PROVE  OneInside'
  BY <1>1, <1>2, OtherShapes DEF OneInside
<1>3. ASSUME NEW t \in Tasks, Acquire(t)
      PROVE  OneInside'
  <2>1. pc'[t] \in Inside /\ \A u \in Tasks \ {t} : pc'[u] = pc[u]
    BY <1>3 DEF Acquire, Goto, FirstStep, JobKind, Inside, ChangeAt, RefillAt, LadderAt
  <2>2. lock = NoTask /\ lock' = t
    BY <1>3 DEF Acquire
  <2>. QED  BY <2>1, <2>2, ServerFileAssumption DEF OneInside
<1>4. ASSUME NEW t \in Tasks, Advance(t), pc[t] \notin Ended
      PROVE  OneInside'
  BY <1>4, AdvanceShape DEF OneInside
<1>5. ASSUME NEW t \in Tasks, Release(t)
      PROVE  OneInside'
  BY <1>1, <1>5, OtherShapes, ServerFileAssumption DEF OneInside
<1>6. ASSUME NEW t \in Tasks, Advance(t), pc[t] \in Ended
      PROVE  Release(t)
  BY <1>6, EndedOnlyReleases
<1>7. CASE HandEdit \/ LateMove \/ \E t \in Tasks : RequestEnds(t)
  BY <1>7 DEF OneInside, HandEdit, LateMove, RequestEnds, process
<1>8. CASE Crash
  BY <1>1, <1>8, ServerFileAssumption DEF OneInside, Crash
<1>. QED  BY <1>2, <1>3, <1>4, <1>5, <1>6, <1>7, <1>8 DEF Next

(* Only a disturbance touches the file or cancels a request. *)
LEMMA QuietStep ==
  ASSUME IInv, Next
  PROVE  Quiet' /\ faults' >= faults
<1>0. /\ TypeOK /\ Quiet
      /\ faults \in Nat /\ gone \in [Tasks -> BOOLEAN]
  BY DEF IInv, TypeOK, ProcessType, HistoryType
<1>. USE <1>0
<1>1. ASSUME NEW t \in Tasks, Arrive(t) \/ Refresh(t)
      PROVE  Quiet' /\ faults' >= faults
  BY <1>1, OtherShapes DEF Quiet, history
<1>2. ASSUME NEW t \in Tasks, Acquire(t)
      PROVE  Quiet' /\ faults' >= faults
  BY <1>2 DEF Quiet, Acquire, job
<1>3. ASSUME NEW t \in Tasks, Advance(t), pc[t] \notin Ended
      PROVE  Quiet' /\ faults' >= faults
  <2>1. faults' \in Nat
    BY TypeStep DEF TypeOK, HistoryType
  <2>. QED  BY <1>3, <2>1, AdvanceShape DEF Quiet
<1>4. ASSUME NEW t \in Tasks, Release(t)
      PROVE  Quiet' /\ faults' >= faults
  <2>1. faults' \in Nat
    BY TypeStep DEF TypeOK, HistoryType
  <2>. QED  BY <1>4, <2>1, OtherShapes DEF Quiet
<1>5. CASE HandEdit \/ LateMove \/ \E t \in Tasks : RequestEnds(t)
  BY <1>5 DEF Quiet, HandEdit, LateMove, RequestEnds, Disturb
<1>6. CASE Crash
  BY <1>6 DEF Quiet, Crash, Disturb
<1>. QED
  BY <1>1, <1>2, <1>3, <1>4, <1>5, <1>6, EndedOnlyReleases DEF Next

-----------------------------------------------------------------------------
(* Nothing is claimed of a goroutine outside but the job it waits with. *)
LEMMA OutsideHolds ==
  ASSUME NEW t \in Tasks, pc[t] \in {"idle", "queued"}, rung[t] \in 1..3,
         pc[t] = "queued" /\ kind[t] = "change" => op[t] \in Ops
  PROVE  HolderInv(t)
BY DEF HolderInv, JobKnown, ReadingStands, RestorePointStands, At, ChangeAt, LadderAt

(* A step inside keeps what is known of the goroutine that takes it. *)
LEMMA AdvanceKeepsHolder ==
  ASSUME IInv, NEW t \in Tasks, Advance(t), pc[t] \notin Ended
  PROVE  HolderInv(t)'
<1>0. /\ TypeOK /\ HolderInv(t)
      /\ pc \in [Tasks -> Point] /\ kind \in [Tasks -> JobKind]
      /\ snap \in [Tasks -> Content] /\ seen \in [Tasks -> Content]
      /\ rung \in [Tasks -> 1..4]
  BY DEF IInv, TypeOK, ProcessType
<1>. USE <1>0
<1>1. UNCHANGED <<kind, op, entry>>
  BY AdvanceShape
<1>. USE <1>1
<1>. USE DEF HolderInv, JobKnown, ReadingStands, RestorePointStands, At, Goto,
             ChangeAt, LadderAt, RefillAt
<1>2. CASE EnsureInclude(t)
  BY <1>2 DEF EnsureInclude, history, remote, database
<1>3. CASE ReadAllows(t)
  BY <1>3 DEF ReadAllows, Look, remote, database
<1>4. CASE ReadRefuses(t)
  BY <1>4 DEF ReadRefuses, Look, remote, database
<1>5. CASE ReadForRestore(t)
  BY <1>5 DEF ReadForRestore, Look, remote, database
<1>6. CASE ReadFails(t)
  BY <1>6 DEF ReadFails, history, remote, database
<1>7. CASE Compare(t)
  BY <1>7 DEF Compare, remote, database
<1>8. CASE Moved(t)
  BY <1>8 DEF Moved, Replace, remote, database
<1>9. CASE MoveFails(t)
  BY <1>9 DEF MoveFails, Replace, remote, database
<1>10. CASE CheckSkipped(t)
  BY <1>10 DEF CheckSkipped, history, remote, database
<1>11. CASE CheckAccepts(t)
  BY <1>11 DEF CheckAccepts, history, remote, database
<1>12. CASE CheckRefuses(t)
  BY <1>12 DEF CheckRefuses, history, remote, database
<1>13. CASE UndoRead(t)
  BY <1>13 DEF UndoRead, remote, database
<1>14. CASE KeepPrevious(t)
  BY <1>14 DEF KeepPrevious, history, remote, database
<1>15. CASE Pull(t)
  BY <1>15 DEF Pull, GiveUp, remote, database
<1>16. CASE StoreRecords(t)
  BY <1>16 DEF StoreRecords, GiveUp, history, remote, database
<1>17. CASE SetFetched(t)
  BY <1>17 DEF SetFetched, GiveUp, history, remote, database
<1>18. CASE MarkApplied(t)
  BY <1>18 DEF MarkApplied, history, remote, database
<1>19. CASE RungSkipped(t)
  BY <1>19 DEF RungSkipped, NextRung, history, remote, database
<1>20. CASE RungRuns(t)
  BY <1>20 DEF RungRuns, history, remote, database
<1>21. CASE RungFails(t)
  BY <1>21 DEF RungFails, NextRung, history, remote, database
<1>22. CASE Settled(t)
  BY <1>22 DEF Settled, NextRung, history, remote, database
<1>. QED
  BY <1>2, <1>3, <1>4, <1>5, <1>6, <1>7, <1>8, <1>9, <1>10, <1>11, <1>12, <1>13, <1>14, <1>15, <1>16, <1>17, <1>18, <1>19, <1>20, <1>21, <1>22
  DEF Advance, WriteStep, RefillStep, LadderStep, Release

(* Every step keeps what is known of every goroutine. *)
LEMMA HolderStep ==
  ASSUME IInv, Next
  PROVE  \A u \in Tasks : HolderInv(u)'
<1>. SUFFICES ASSUME NEW u \in Tasks PROVE HolderInv(u)'  OBVIOUS
<1>0. /\ TypeOK /\ OneInside /\ HolderInv(u)
      /\ pc \in [Tasks -> Point] /\ kind \in [Tasks -> JobKind]
      /\ rung \in [Tasks -> 1..4] /\ op \in [Tasks -> Ops \cup {NoOp}]
  BY DEF IInv, TypeOK, ProcessType
<1>. USE <1>0
<1>1. pc[u] \in {"idle", "queued"} \/ (pc[u] \in Inside /\ lock = u)
  BY DEF Point, OneInside
<1>2. pc[u] \in {"idle", "queued"}
        => rung[u] \in 1..3 /\ (pc[u] = "queued" /\ kind[u] = "change" => op[u] \in Ops)
  BY DEF HolderInv, JobKnown
<1>3. ASSUME NEW t \in Tasks, Arrive(t) \/ Refresh(t)
      PROVE  HolderInv(u)'
  <2>1. CASE u = t
    <3>1. pc'[u] = "queued" /\ rung'[u] \in 1..3 /\ (kind'[u] = "change" => op'[u] \in Ops)
      BY <1>2, <1>3, <2>1, OtherShapes
    <3>. QED  BY <3>1 DEF HolderInv, JobKnown, ReadingStands, RestorePointStands,
                          At, ChangeAt, LadderAt
  <2>2. CASE u # t
    <3>1. /\ pc'[u] = pc[u] /\ kind'[u] = kind[u] /\ op'[u] = op[u]
          /\ UNCHANGED <<rung, snap, seen, file, touched, entry, backup>>
      BY <1>3, <2>2, OtherShapes DEF history, database
    <3>. QED  BY <3>1 DEF HolderInv, JobKnown, ReadingStands, RestorePointStands, At
  <2>. QED  BY <2>1, <2>2
<1>4. ASSUME NEW t \in Tasks, Acquire(t)
      PROVE  HolderInv(u)'
  <2>1. lock # u /\ UNCHANGED <<kind, op, rung, backup>>
    BY <1>4, ServerFileAssumption DEF Acquire, job, database
  <2>2. CASE u = t
    <3>1. pc[u] = "queued" /\ pc'[u] = FirstStep[kind[u]] /\ entry'.backup = backup
      BY <1>4, <2>2 DEF Acquire, At, Goto
    <3>2. \/ kind[u] \in {"change", "restore"} /\ pc'[u] = "include"
          \/ kind[u] = "reload" /\ pc'[u] = "rung"
          \/ kind[u] = "refresh" /\ pc'[u] = "pull"
      BY <3>1 DEF FirstStep, JobKind
    <3>. QED  BY <1>2, <2>1, <3>1, <3>2
              DEF HolderInv, JobKnown, ReadingStands, RestorePointStands, At,
                  ChangeAt, LadderAt
  <2>3. CASE u # t
    <3>1. pc'[u] = pc[u]
      BY <1>4, <2>3 DEF Acquire, Goto
    <3>. QED  BY <1>1, <1>2, <2>1, <3>1
              DEF HolderInv, JobKnown, ReadingStands, RestorePointStands, At,
                  ChangeAt, LadderAt
  <2>. QED  BY <2>2, <2>3
<1>5. ASSUME NEW t \in Tasks, Advance(t), pc[t] \notin Ended
      PROVE  HolderInv(u)'
  <2>1. CASE u = t
    BY <1>5, <2>1, AdvanceKeepsHolder
  <2>2. CASE u # t
    <3>1. pc[t] \in Inside /\ pc'[u] = pc[u] /\ UNCHANGED <<kind, op>>
      BY <1>5, <2>2, AdvanceShape
    <3>2. pc[u] \in {"idle", "queued"}
      BY <1>1, <2>2, <3>1 DEF OneInside
    <3>3. rung'[u] = rung[u]
      BY <1>5, <2>2
      DEF Advance, WriteStep, RefillStep, LadderStep, EnsureInclude, ReadAllows,
          ReadRefuses, ReadForRestore, ReadFails, Look, Compare, Moved, MoveFails,
          CheckSkipped, CheckAccepts, CheckRefuses, UndoRead, KeepPrevious, Pull,
          StoreRecords, SetFetched, MarkApplied, RungSkipped, RungRuns, RungFails,
          Settled, NextRung, Release
    <3>. QED  BY <1>2, <3>1, <3>2, <3>3
              DEF HolderInv, JobKnown, ReadingStands, RestorePointStands, At,
                  ChangeAt, LadderAt
  <2>. QED  BY <2>1, <2>2
<1>6. ASSUME NEW t \in Tasks, Release(t)
      PROVE  HolderInv(u)'
  <2>1. pc[t] \in Inside /\ pc' = [pc EXCEPT ![t] = "idle"]
        /\ rung'[t] = 1 /\ (u # t => rung'[u] = rung[u] /\ kind'[u] = kind[u] /\ op'[u] = op[u])
    BY <1>6, OtherShapes
  <2>2. u # t => pc[u] \in {"idle", "queued"}
    BY <1>1, <2>1 DEF OneInside
  <2>. QED  BY <1>2, <2>1, <2>2
            DEF HolderInv, JobKnown, ReadingStands, RestorePointStands, At,
                ChangeAt, LadderAt
<1>7. ASSUME NEW t \in Tasks, RequestEnds(t)
      PROVE  HolderInv(u)'
  BY <1>7
  DEF RequestEnds, HolderInv, JobKnown, ReadingStands, RestorePointStands, At,
      remote, database, history
<1>8. CASE HandEdit \/ LateMove
  <2>1. pc[u] \in Inside => lock # NoTask
    BY <1>1, ServerFileAssumption DEF Inside, ChangeAt, RefillAt, LadderAt, Ended
  <2>2. pc[u] \in Inside => touched'
    BY <1>8, <2>1, Zenon DEF HandEdit, LateMove
  <2>. QED  BY <1>8, <2>2
            DEF HandEdit, LateMove, HolderInv, JobKnown, ReadingStands, RestorePointStands,
                At, process, database, Inside, ChangeAt, RefillAt
<1>9. CASE Crash
  BY <1>9
  DEF Crash, HolderInv, JobKnown, ReadingStands, RestorePointStands, At,
      ChangeAt, LadderAt
<1>. QED
  BY <1>3, <1>4, <1>5, <1>6, <1>7, <1>8, <1>9, EndedOnlyReleases DEF Next

-----------------------------------------------------------------------------
(* A landed change is the holder's. *)
LEMMA LandedIsInside ==
  ASSUME NEW t \in Tasks, Landed(t)
  PROVE  pc[t] \in Inside
BY DEF Landed, At, Inside, ChangeAt, RefillAt, Ended

(* A step inside moves the file and the trail of its own change together.  *)
LEMMA AdvanceKeepsTrail ==
  ASSUME IInv, NEW t \in Tasks, Advance(t), pc[t] \notin Ended
  PROVE  /\ trail' = trail
         /\ Landed(t) => changes' = changes \/ (changes' = changes - 1 /\ ~ Landed(t)')
         /\ ~ Landed(t) => changes' = changes \/ changes' = changes + 1
         /\ Landed(t)' => (~ Landed(t) => changes' = changes + 1)
         /\ faults' = 0 /\ (Landed(t)' <=> Landed(t)) => changes' = changes
         /\ faults' = 0 /\ Landed(t) /\ ~ Landed(t)' => changes' = changes - 1
<1>0. /\ TypeOK /\ HolderInv(t) /\ Quiet
      /\ pc \in [Tasks -> Point] /\ kind \in [Tasks -> JobKind]
      /\ changes \in Int /\ trail \in Int /\ faults \in Nat
  BY DEF IInv, TypeOK, ProcessType, HistoryType, DatabaseType
<1>. USE <1>0
<1>1. UNCHANGED <<kind, op, entry>> /\ faults' >= faults
  BY AdvanceShape
<1>2. faults' = 0 => faults = 0 /\ ~ touched /\ ~ gone[t] /\ ~ Fails(t)
  BY <1>1 DEF Quiet, Fails, Cancelled, Disturb
<1>. USE <1>1, <1>2
<1>. USE DEF HolderInv, JobKnown, ReadingStands, Landed, At, Goto,
             ChangeAt, LadderAt, RefillAt
<1>3. CASE EnsureInclude(t)
  BY <1>3 DEF EnsureInclude, history, database
<1>4. CASE ReadAllows(t)
  BY <1>4 DEF ReadAllows, Look, database
<1>5. CASE ReadRefuses(t)
  BY <1>5 DEF ReadRefuses, Look, database
<1>6. CASE ReadForRestore(t)
  BY <1>6 DEF ReadForRestore, Look, database
<1>7. CASE ReadFails(t)
  BY <1>7 DEF ReadFails, history, database
<1>8. CASE Compare(t)
  BY <1>8 DEF Compare, database
<1>9. CASE Moved(t)
  BY <1>9 DEF Moved, Replace, database
<1>10. CASE MoveFails(t)
  BY <1>10 DEF MoveFails, Replace, database
<1>11. CASE CheckSkipped(t)
  BY <1>11 DEF CheckSkipped, history, database
<1>12. CASE CheckAccepts(t)
  BY <1>12 DEF CheckAccepts, history, database
<1>13. CASE CheckRefuses(t)
  BY <1>13 DEF CheckRefuses, history, database
<1>14. CASE UndoRead(t)
  BY <1>14 DEF UndoRead, database
<1>15. CASE KeepPrevious(t)
  BY <1>15 DEF KeepPrevious, history, database
<1>16. CASE Pull(t)
  <2>1. UNCHANGED <<trail, changes>>
    BY <1>16 DEF Pull
  <2>2. pc[t] = "pull" /\ (pc'[t] \in {"store", "ok"} \/ (kind[t] = "refresh"))
    BY <1>16 DEF Pull, GiveUp
  <2>. QED  BY <2>1, <2>2
<1>17. CASE StoreRecords(t)
  BY <1>17 DEF StoreRecords, GiveUp, history, database
<1>18. CASE SetFetched(t)
  BY <1>18 DEF SetFetched, GiveUp, history, database
<1>19. CASE MarkApplied(t)
  BY <1>19 DEF MarkApplied, history, database
<1>20. CASE RungSkipped(t)
  BY <1>20 DEF RungSkipped, NextRung, history, database
<1>21. CASE RungRuns(t)
  BY <1>21 DEF RungRuns, history, database
<1>22. CASE RungFails(t)
  BY <1>22 DEF RungFails, NextRung, history, database
<1>23. CASE Settled(t)
  BY <1>23 DEF Settled, NextRung, history, database
<1>. QED
  BY <1>3, <1>4, <1>5, <1>6, <1>7, <1>8, <1>9, <1>10, <1>11, <1>12, <1>13, <1>14, <1>15, <1>16, <1>17, <1>18, <1>19, <1>20, <1>21, <1>22, <1>23
  DEF Advance, WriteStep, RefillStep, LadderStep, Release

(* Every step keeps the trail behind the file. *)
LEMMA TrailStep ==
  ASSUME IInv, Next
  PROVE  TrailInv'
<1>0. /\ TypeOK /\ OneInside /\ TrailInv /\ Quiet
      /\ pc \in [Tasks -> Point] /\ kind \in [Tasks -> JobKind]
      /\ changes \in Int /\ trail \in Int /\ faults \in Nat
  BY DEF IInv, TypeOK, ProcessType, HistoryType, DatabaseType
<1>. USE <1>0
<1>1. faults' >= faults /\ faults' \in Nat
  BY QuietStep, TypeStep DEF TypeOK, HistoryType
<1>2. \A t, u \in Tasks : pc[t] \in Inside /\ u # t => ~ Landed(u)
  BY LandedIsInside DEF OneInside
<1>3. {"idle", "queued"} \cap Inside = {}
  BY DEF Inside, ChangeAt, RefillAt, LadderAt, Ended
<1>4. ASSUME NEW t \in Tasks, Arrive(t) \/ Refresh(t)
      PROVE  TrailInv'
  <2>1. UNCHANGED <<trail, changes, faults>>
    BY <1>4, OtherShapes DEF history, database
  <2>2. \A u \in Tasks : Landed(u)' <=> Landed(u)
    BY <1>4, OtherShapes DEF Landed, At, RefillAt
  <2>. QED  BY <2>1, <2>2 DEF TrailInv
<1>5. ASSUME NEW t \in Tasks, Acquire(t)
      PROVE  TrailInv'
  <2>1. UNCHANGED <<trail, changes, faults, kind>>
    BY <1>5 DEF Acquire, database, job
  <2>2. pc[t] = "queued" /\ pc'[t] \in {"include", "rung", "pull"}
        /\ (pc'[t] = "pull" => kind[t] = "refresh")
        /\ \A u \in Tasks \ {t} : pc'[u] = pc[u]
    BY <1>5 DEF Acquire, At, Goto, FirstStep, JobKind
  <2>3. \A u \in Tasks : Landed(u)' <=> Landed(u)
    BY <2>1, <2>2 DEF Landed, At, RefillAt
  <2>. QED  BY <2>1, <2>3 DEF TrailInv
<1>6. ASSUME NEW t \in Tasks, Advance(t), pc[t] \notin Ended
      PROVE  TrailInv'
  <2>1. /\ pc[t] \in Inside /\ UNCHANGED kind
        /\ \A u \in Tasks \ {t} : pc'[u] = pc[u]
    BY <1>6, AdvanceShape
  <2>2. \A u \in Tasks \ {t} : ~ Landed(u) /\ ~ Landed(u)'
    <3>1. \A u \in Tasks \ {t} : ~ Landed(u)
      BY <1>2, <2>1
    <3>. QED  BY <2>1, <3>1 DEF Landed, At
  <2>3. changes' \in Int
    BY TypeStep DEF TypeOK, HistoryType
  <2>4. /\ trail' = trail
        /\ Landed(t) => changes' = changes \/ (changes' = changes - 1 /\ ~ Landed(t)')
        /\ ~ Landed(t) => changes' = changes \/ changes' = changes + 1
        /\ Landed(t)' => (~ Landed(t) => changes' = changes + 1)
        /\ faults' = 0 /\ (Landed(t)' <=> Landed(t)) => changes' = changes
        /\ faults' = 0 /\ Landed(t) /\ ~ Landed(t)' => changes' = changes - 1
    BY <1>6, AdvanceKeepsTrail
  <2>5. /\ trail <= changes /\ (Landed(t) => trail < changes)
        /\ faults = 0 /\ Landed(t) => changes = trail + 1
        /\ faults = 0 /\ ~ Landed(t) => changes = trail
    BY <2>2 DEF TrailInv
  <2>6. trail' <= changes' /\ (Landed(t)' => trail' < changes')
    BY <2>3, <2>4, <2>5
  <2>7. faults' = 0 => faults = 0
    BY <1>1
  <2>8. faults' = 0 /\ Landed(t)' => changes' = trail' + 1
    <3>1. CASE Landed(t)
      BY <2>3, <2>4, <2>5, <2>7, <3>1
    <3>2. CASE ~ Landed(t)
      BY <2>3, <2>4, <2>5, <2>7, <3>2
    <3>. QED  BY <3>1, <3>2
  <2>9. faults' = 0 /\ ~ Landed(t)' => changes' = trail'
    <3>1. CASE Landed(t)
      BY <2>3, <2>4, <2>5, <2>7, <3>1
    <3>2. CASE ~ Landed(t)
      BY <2>3, <2>4, <2>5, <2>7, <3>2
    <3>. QED  BY <3>1, <3>2
  <2>. QED  BY <2>2, <2>6, <2>8, <2>9 DEF TrailInv
<1>7. ASSUME NEW t \in Tasks, Release(t)
      PROVE  TrailInv'
  <2>1. pc[t] \in Inside /\ pc' = [pc EXCEPT ![t] = "idle"]
        /\ kind' = [kind EXCEPT ![t] = "refresh"]
    BY <1>7, OtherShapes
  <2>2. \A u \in Tasks : ~ Landed(u)'
    BY <1>2, <2>1 DEF Landed, At, RefillAt
  <2>3. /\ changes' = changes
        /\ pc[t] \in Ended
        /\ IF At(t, "ok") /\ kind[t] \in {"change", "restore"}
             THEN trail' = trail + 1 \/ (trail' = trail /\ faults' # 0)
             ELSE trail' = trail
    BY <1>7 DEF Release, WriteRow, EndJob, Disturb
  <2>4. Landed(t) <=> At(t, "ok") /\ kind[t] \in {"change", "restore"}
    BY <2>3 DEF Landed, At, RefillAt, Ended
  <2>5. \A u \in Tasks \ {t} : ~ Landed(u)
    BY <1>2, <2>1
  <2>. QED  BY <1>1, <2>2, <2>3, <2>4, <2>5 DEF TrailInv
<1>8. CASE HandEdit \/ LateMove \/ \E t \in Tasks : RequestEnds(t)
  <2>1. UNCHANGED <<trail, changes, pc, kind>>
    BY <1>8 DEF HandEdit, LateMove, RequestEnds, process, database, history
  <2>. QED  BY <1>1, <2>1 DEF TrailInv, Landed, At
<1>9. CASE Crash
  <2>1. UNCHANGED <<trail, changes>> /\ faults' # 0
        /\ \A t \in Tasks : pc'[t] = "idle"
    BY <1>9 DEF Crash, database, Disturb
  <2>. QED  BY <2>1 DEF TrailInv, Landed, At, RefillAt
<1>. QED
  BY <1>4, <1>5, <1>6, <1>7, <1>8, <1>9, EndedOnlyReleases DEF Next

-----------------------------------------------------------------------------
LEMMA NextInv == IInv /\ [Next]_vars => IInv'
<1>. SUFFICES ASSUME IInv, [Next]_vars PROVE IInv'  OBVIOUS
<1>1. CASE Next
  BY <1>1, TypeStep, InsideStep, HolderStep, QuietStep, TrailStep DEF IInv
<1>2. CASE UNCHANGED vars
  BY <1>2
  DEF IInv, TypeOK, RemoteType, DatabaseType, ProcessType, HistoryType,
      OneInside, HolderInv, JobKnown, ReadingStands, RestorePointStands, At,
      Quiet, TrailInv, Landed, vars, remote, database, process, history
<1>. QED  BY <1>1, <1>2

(* Every reachable state satisfies the inductive invariant. *)
THEOREM Invariance == Spec => []IInv
BY InitInv, NextInv, PTL DEF Spec

(* Every variable keeps to its type. *)
THEOREM TypeCorrect == Spec => []TypeOK
<1>1. IInv => TypeOK
  BY DEF IInv
<1>. QED  BY <1>1, Invariance, PTL

(* lockFor: however jobs, cancellations and restarts interleave, at most   *)
(* one goroutine is inside the read, change and write cycle of a server,   *)
(* and it is the one that holds the mutex.                                 *)
THEOREM MutualExclusion == Spec => []OneInside
<1>1. IInv => OneInside
  BY DEF IInv
<1>. QED  BY <1>1, Invariance, PTL

(* write, WriteRecords: what a move replaces is what the change was made   *)
(* from, unless the file was edited by hand, or changed by a write that    *)
(* outlived its call, after the last comparison: whatever fails, ends or   *)
(* restarts, and whatever lands late, there is no third way.               *)
THEOREM UpdatesAreNotLost == Spec => []NoLostUpdate
<1>1. IInv => NoLostUpdate
  BY DEF IInv, HolderInv, ReadingStands, NoLostUpdate, At
<1>. QED  BY <1>1, Invariance, PTL

(* write: whatever makes a change fail, the restore point it found is the  *)
(* one it leaves.                                                          *)
THEOREM RestorePointSurvives == Spec => []FailedChangeKeepsTheRestorePoint
<1>1. IInv => FailedChangeKeepsTheRestorePoint
  BY DEF IInv, HolderInv, RestorePointStands, FailedChangeKeepsTheRestorePoint, At
<1>. QED  BY <1>1, Invariance, PTL

(* writeAudit: the trail never runs ahead of the file, and follows it      *)
(* exactly while nothing disturbs the panel.                               *)
THEOREM TrailIsHonest == Spec => []TrailMatchesTheFile
<1>1. IInv => TrailMatchesTheFile
  <2>. SUFFICES ASSUME IInv PROVE TrailMatchesTheFile  OBVIOUS
  <2>1. lock = NoTask => \A t \in Tasks : ~ Landed(t)
    BY LandedIsInside, ServerFileAssumption DEF IInv, OneInside
  <2>. QED  BY <2>1 DEF IInv, TrailInv, TrailMatchesTheFile
<1>. QED  BY <1>1, Invariance, PTL

(* oneHeld: what a refresh stores in the cache and in the state row is     *)
(* what the file holds when it is stored, also next to a write: only a     *)
(* hand edit or a write that outlived its call, between the read and the   *)
(* store, makes it describe a file that is gone.                           *)
THEOREM CacheIsTrue == Spec => CacheDescribesTheFile
<1>1. IInv /\ [Next]_vars
        => [/\ cache' # cache => cache' = file \/ touched
            /\ fetched' # fetched => fetched' = file \/ touched]_vars
  <2>. SUFFICES ASSUME IInv, Next
                PROVE  /\ cache' # cache => cache' = file \/ touched
                       /\ fetched' # fetched => fetched' = file \/ touched
    OBVIOUS
  <2>1. ASSUME NEW t \in Tasks, StoreRecords(t) \/ SetFetched(t)
        PROVE  file = seen[t] \/ touched
    BY <2>1 DEF IInv, HolderInv, ReadingStands, StoreRecords, SetFetched, At
  <2>2. ASSUME NEW t \in Tasks, StoreRecords(t) \/ SetFetched(t)
        PROVE  /\ cache' \in {cache, seen[t]} /\ fetched' \in {fetched, seen[t]}
    BY <2>2 DEF StoreRecords, SetFetched
  <2>3. ASSUME NEW t \in Tasks, Advance(t), ~ StoreRecords(t), ~ SetFetched(t)
        PROVE  UNCHANGED <<cache, fetched>>
    BY <2>3
    DEF Advance, WriteStep, RefillStep, LadderStep, EnsureInclude, ReadAllows,
        ReadRefuses, ReadForRestore, ReadFails, Look, Compare, Moved, MoveFails,
        CheckSkipped, CheckAccepts, CheckRefuses, UndoRead, KeepPrevious, Pull,
        MarkApplied, RungSkipped, RungRuns, RungFails, Settled, Release, EndJob,
        WriteRow, database
  <2>4. ASSUME \/ HandEdit \/ LateMove \/ Crash
               \/ \E t \in Tasks : Arrive(t) \/ Refresh(t) \/ Acquire(t) \/ RequestEnds(t)
        PROVE  UNCHANGED <<cache, fetched>>
    BY <2>4
    DEF HandEdit, LateMove, Crash, Arrive, Apply, RestoreFile, Reload, Refresh, Start,
        Acquire, RequestEnds, database
  <2>. QED  BY <2>1, <2>2, <2>3, <2>4 DEF Next
<1>. QED  BY <1>1, Invariance, PTL DEF Spec, CacheDescribesTheFile

-----------------------------------------------------------------------------
(* What stands while nothing disturbs the holder of the mutex. *)

Changing(t) == kind[t] \in {"change", "restore"}

(* An undisturbed change is on its way from the file the holder found to   *)
(* the one its operation makes of it, or back.                             *)
HoldsSteady(t) ==
  /\ ~ touched
  /\ Changing(t) /\ pc[t] \in {"include", "read", "compare", "move", "failed"}
       => file = entry.file
  /\ kind[t] = "restore" /\ At(t, "keep") => file = entry.file
  /\ Changing(t) /\ pc[t] \in {"compare", "move", "check", "undoRead", "keep"}
       => snap[t] = entry.file
  /\ pc[t] \in {"undoCompare", "undoMove"} => want[t] = entry.file
  /\ kind[t] = "change" /\ pc[t] \in {"compare", "move"}
       => Allowed(op[t], entry.file) /\ want[t] = After(op[t], entry.file)
  /\ kind[t] = "change" /\ pc[t] \in {"check", "keep", "pull", "store", "state", "ok"}
       => Allowed(op[t], entry.file) /\ file = After(op[t], entry.file)
  /\ kind[t] = "change" /\ pc[t] \in {"pull", "store", "state", "ok"}
       => backup = entry.file
  /\ kind[t] = "change" /\ pc[t] \in {"state", "ok"} => cache = file
  /\ kind[t] = "change" /\ At(t, "ok") => fetched = file

CalmInv ==
  /\ lock = NoTask => ~ touched
  /\ \A t \in Tasks : pc[t] \in Inside =>
       /\ entry.faults <= faults
       /\ Calm(t) => HoldsSteady(t)

(* A change or a restore that has not refilled the cache, and a reload     *)
(* that has restarted the resolver and not said so yet.                    *)
Unfetched(t) == Changing(t) /\ pc[t] \in ChangeAt \cup {"pull", "store", "state"}
Reloaded(t) == kind[t] = "reload" /\ (pc[t] \in RefillAt \/ (At(t, "settle") /\ up))

(* Without a disturbance the panel knows the file, and what it calls       *)
(* applied is what the resolver loaded last.                               *)
ServedInv ==
  faults = 0 /\ FirstIncluded =>
    /\ included
    /\ \A t \in Tasks : Unfetched(t) => fetched \in {None, entry.file}
    /\ (\A t \in Tasks : ~ Unfetched(t)) => fetched \in {None, file}
    /\ \A t \in Tasks : Reloaded(t) => loaded = file
    /\ (\A t \in Tasks : ~ Reloaded(t)) => applied \in {None, loaded}

-----------------------------------------------------------------------------
(* A call inside that leaves the holder undisturbed has answered. *)
LEMMA CalmCallsAnswer ==
  ASSUME IInv, NEW t \in Tasks, Advance(t), pc[t] \notin Ended,
         entry.faults <= faults, Calm(t)'
  PROVE  Calm(t) /\ faults' = faults /\ ~ Fails(t)
<1>1. /\ TypeOK /\ faults \in Nat /\ faults' \in Nat /\ entry.faults \in Nat
  BY TypeStep DEF IInv, TypeOK, HistoryType, Next
<1>2. UNCHANGED <<gone, entry>> /\ faults' >= faults
  BY <1>1, AdvanceShape
<1>3. faults' = faults /\ ~ gone[t]
  BY <1>1, <1>2 DEF Calm
<1>. QED  BY <1>1, <1>2, <1>3 DEF Calm, Fails, Cancelled, Disturb

(* A step inside keeps an undisturbed change on its way. *)
LEMMA AdvanceHoldsSteady ==
  ASSUME IInv, NEW t \in Tasks, Advance(t), pc[t] \notin Ended,
         ~ Fails(t), HoldsSteady(t)
  PROVE  HoldsSteady(t)'
<1>0. /\ TypeOK /\ HolderInv(t)
      /\ pc \in [Tasks -> Point] /\ kind \in [Tasks -> JobKind]
      /\ snap \in [Tasks -> Content] /\ seen \in [Tasks -> Content]
      /\ want \in [Tasks -> Content]
  BY DEF IInv, TypeOK, ProcessType
<1>. USE <1>0
<1>1. UNCHANGED <<kind, op, entry>> /\ (touched' => touched)
  BY AdvanceShape
<1>. USE <1>1
<1>. USE DEF HoldsSteady, Changing, HolderInv, JobKnown, ReadingStands, At, Goto,
             ChangeAt, LadderAt, RefillAt
<1>2. CASE EnsureInclude(t)
  BY <1>2 DEF EnsureInclude, history, remote, database
<1>3. CASE ReadAllows(t)
  BY <1>3 DEF ReadAllows, Look, history, remote, database
<1>4. CASE ReadRefuses(t)
  BY <1>4 DEF ReadRefuses, Look, history, remote, database
<1>5. CASE ReadForRestore(t)
  BY <1>5 DEF ReadForRestore, Look, history, remote, database
<1>6. CASE ReadFails(t)
  BY <1>6 DEF ReadFails, history, remote, database
<1>7. CASE Compare(t)
  BY <1>7 DEF Compare, history, remote, database
<1>8. CASE Moved(t)
  BY <1>8 DEF Moved, Replace, history, remote, database
<1>9. CASE MoveFails(t)
  BY <1>9 DEF MoveFails, Replace, history, remote, database
<1>10. CASE CheckSkipped(t)
  BY <1>10 DEF CheckSkipped, history, remote, database
<1>11. CASE CheckAccepts(t)
  BY <1>11 DEF CheckAccepts, history, remote, database
<1>12. CASE CheckRefuses(t)
  BY <1>12 DEF CheckRefuses, history, remote, database
<1>13. CASE UndoRead(t)
  BY <1>13 DEF UndoRead, history, remote, database
<1>14. CASE KeepPrevious(t)
  BY <1>14 DEF KeepPrevious, history, remote, database
<1>15. CASE Pull(t)
  BY <1>15 DEF Pull, GiveUp, history, remote, database
<1>16. CASE StoreRecords(t)
  BY <1>16 DEF StoreRecords, GiveUp, history, remote, database
<1>17. CASE SetFetched(t)
  BY <1>17 DEF SetFetched, GiveUp, history, remote, database
<1>18. CASE MarkApplied(t)
  BY <1>18 DEF MarkApplied, history, remote, database
<1>19. CASE RungSkipped(t)
  BY <1>19 DEF RungSkipped, NextRung, history, remote, database
<1>20. CASE RungRuns(t)
  BY <1>20 DEF RungRuns, Obeys, history, remote, database
<1>21. CASE RungFails(t)
  BY <1>21 DEF RungFails, NextRung, history, remote, database
<1>22. CASE Settled(t)
  BY <1>22 DEF Settled, NextRung, history, remote, database
<1>. QED
  BY <1>2, <1>3, <1>4, <1>5, <1>6, <1>7, <1>8, <1>9, <1>10, <1>11, <1>12, <1>13, <1>14, <1>15, <1>16, <1>17, <1>18, <1>19, <1>20, <1>21, <1>22
  DEF Advance, WriteStep, RefillStep, LadderStep, Release

(* Every step keeps what stands of an undisturbed holder. *)
LEMMA CalmStep ==
  ASSUME IInv, CalmInv, Next
  PROVE  CalmInv'
<1>0. /\ TypeOK /\ OneInside
      /\ pc \in [Tasks -> Point] /\ kind \in [Tasks -> JobKind]
      /\ op \in [Tasks -> Ops \cup {NoOp}]
      /\ snap \in [Tasks -> Content] /\ seen \in [Tasks -> Content]
      /\ want \in [Tasks -> Content] /\ gone \in [Tasks -> BOOLEAN]
      /\ faults \in Nat /\ entry.faults \in Nat
  BY DEF IInv, TypeOK, ProcessType, HistoryType
<1>. USE <1>0
<1>1. {"idle", "queued"} \cap Inside = {}
  BY DEF Inside, ChangeAt, RefillAt, LadderAt, Ended
<1>2. NoTask \notin Tasks
  BY ServerFileAssumption
<1>3. ASSUME NEW t \in Tasks, Arrive(t) \/ Refresh(t)
      PROVE  CalmInv'
  <2>1. /\ pc' = [pc EXCEPT ![t] = "queued"]
        /\ UNCHANGED <<lock, snap, seen, gone, faults, history, file, database>>
        /\ \A u \in Tasks \ {t} : kind'[u] = kind[u] /\ op'[u] = op[u]
    BY <1>3, OtherShapes
  <2>2. \A u \in Tasks \ {t} : want'[u] = want[u]
    BY <1>3 DEF Arrive, Apply, RestoreFile, Reload, Refresh
  <2>3. UNCHANGED <<touched, entry, backup, cache, fetched>>
    BY <2>1 DEF history, database
  <2>4. ASSUME NEW u \in Tasks, pc'[u] \in Inside
        PROVE  /\ entry'.faults <= faults'
               /\ Calm(u)' => HoldsSteady(u)'
    <3>1. u # t /\ pc'[u] = pc[u]
      BY <1>1, <2>1, <2>4
    <3>. QED  BY <2>1, <2>2, <2>3, <2>4, <3>1 DEF CalmInv, Calm, HoldsSteady, Changing, At
  <2>. QED  BY <2>1, <2>3, <2>4 DEF CalmInv
<1>4. ASSUME NEW t \in Tasks, Acquire(t)
      PROVE  CalmInv'
  <2>1. /\ pc[t] = "queued" /\ pc' = [pc EXCEPT ![t] = FirstStep[kind[t]]]
        /\ lock = NoTask /\ lock' = t
        /\ entry' = [file |-> file, backup |-> backup, faults |-> faults]
        /\ UNCHANGED <<file, kind, touched, faults>>
    BY <1>4 DEF Acquire, At, Goto, job, remote
  <2>2. \A u \in Tasks : pc[u] \notin Inside
    BY <1>2, <2>1 DEF OneInside
  <2>3. \/ kind[t] \in {"change", "restore"} /\ pc'[t] = "include"
        \/ kind[t] = "reload" /\ pc'[t] = "rung"
        \/ kind[t] = "refresh" /\ pc'[t] = "pull"
    BY <2>1 DEF FirstStep, JobKind
  <2>4. \A u \in Tasks : pc'[u] \in Inside => u = t
    BY <2>1, <2>2
  <2>5. HoldsSteady(t)'
    BY <2>1, <2>3 DEF CalmInv, HoldsSteady, Changing, At
  <2>6. entry'.faults <= faults'
    BY <2>1
  <2>. QED  BY <1>2, <2>1, <2>4, <2>5, <2>6 DEF CalmInv
<1>5. ASSUME NEW t \in Tasks, Advance(t), pc[t] \notin Ended
      PROVE  CalmInv'
  <2>1. /\ pc[t] \in Inside /\ UNCHANGED <<lock, entry>> /\ faults' >= faults
        /\ \A u \in Tasks \ {t} : pc'[u] = pc[u]
    BY <1>5, AdvanceShape
  <2>2. lock = t /\ \A u \in Tasks \ {t} : pc[u] \notin Inside
    BY <2>1 DEF OneInside
  <2>3. faults' \in Nat
    BY TypeStep DEF TypeOK, HistoryType
  <2>4. entry.faults <= faults /\ entry'.faults <= faults'
    BY <2>1, <2>3 DEF CalmInv
  <2>5. Calm(t)' => HoldsSteady(t)'
    BY <1>5, <2>1, <2>4, CalmCallsAnswer, AdvanceHoldsSteady DEF CalmInv
  <2>. QED  BY <1>2, <2>1, <2>2, <2>4, <2>5 DEF CalmInv
<1>6. ASSUME NEW t \in Tasks, Release(t)
      PROVE  CalmInv'
  <2>1. ~ touched' /\ \A u \in Tasks : pc'[u] \notin Inside
    BY <1>1, <1>6, OtherShapes DEF OneInside
  <2>. QED  BY <2>1 DEF CalmInv
<1>7. ASSUME HandEdit \/ LateMove \/ \E t \in Tasks : RequestEnds(t)
      PROVE  CalmInv'
  <2>1. /\ faults' = faults + 1
        /\ UNCHANGED <<pc, lock, entry>>
        /\ lock = NoTask => ~ touched'
    <3>1. lock = NoTask => ~ touched'
      BY <1>7, Zenon DEF HandEdit, LateMove, RequestEnds, history, CalmInv
    <3>. QED  BY <1>7, <3>1 DEF HandEdit, LateMove, RequestEnds, Disturb, process, history
  <2>2. ASSUME NEW u \in Tasks, pc'[u] \in Inside
        PROVE  entry'.faults <= faults' /\ ~ Calm(u)'
    BY <2>1, <2>2 DEF CalmInv, Calm
  <2>. QED  BY <2>1, <2>2 DEF CalmInv
<1>8. CASE Crash
  BY <1>1, <1>8 DEF Crash, CalmInv
<1>. QED
  BY <1>3, <1>4, <1>5, <1>6, <1>7, <1>8, EndedOnlyReleases DEF Next

(* The part of it a step of the holder decides. *)
ServedBy(t) ==
  /\ included
  /\ Unfetched(t) => fetched \in {None, entry.file}
  /\ ~ Unfetched(t) => fetched \in {None, file}
  /\ Reloaded(t) => loaded = file
  /\ ~ Reloaded(t) => applied \in {None, loaded}

(* What a command of the ladder leaves behind on a target that includes    *)
(* the records file: a resolver that runs serves it.                       *)
LEMMA CommandLoadsTheFile ==
  ASSUME NEW t \in Tasks, included, Obeys(t)
  PROVE  IF up' THEN loaded' = file ELSE loaded' = loaded
<1>1. up' = Loads /\ loaded' = IF Loads THEN file ELSE loaded
  BY DEF Obeys, Served
<1>2. CASE Loads
  <2>1. up'
    BY <1>1, <1>2, Zenon
  <2>. QED  BY <1>1, <1>2, <2>1
<1>3. CASE ~ Loads
  <2>1. ~ up'
    BY <1>1, <1>3, Zenon
  <2>. QED  BY <1>1, <1>3, <2>1
<1>. QED  BY <1>2, <1>3

LEMMA AdvanceServes ==
  ASSUME IInv, NEW t \in Tasks, Advance(t), pc[t] \notin Ended,
         ~ Fails(t), HoldsSteady(t), ServedBy(t)
  PROVE  ServedBy(t)'
<1>0. /\ TypeOK /\ HolderInv(t)
      /\ pc \in [Tasks -> Point] /\ kind \in [Tasks -> JobKind]
      /\ snap \in [Tasks -> Content] /\ seen \in [Tasks -> Content]
      /\ want \in [Tasks -> Content]
  BY DEF IInv, TypeOK, ProcessType
<1>. USE <1>0
<1>1. UNCHANGED <<kind, op, entry>> /\ ~ touched /\ HoldsSteady(t)'
  BY AdvanceShape, AdvanceHoldsSteady DEF HoldsSteady
<1>. USE <1>1
<1>. USE DEF ServedBy, Unfetched, Reloaded, Changing, HolderInv, JobKnown, ReadingStands,
             At, Goto, ChangeAt, LadderAt, RefillAt
<1>2. CASE EnsureInclude(t)
  <2>1. included'
    BY <1>2, Zenon DEF EnsureInclude
  <2>. QED  BY <1>2, <2>1 DEF EnsureInclude, history, database
<1>3. CASE ReadAllows(t)
  BY <1>3 DEF ReadAllows, Look, history, remote, database
<1>4. CASE ReadRefuses(t)
  BY <1>4 DEF ReadRefuses, Look, HoldsSteady, history, remote, database
<1>5. CASE ReadForRestore(t)
  BY <1>5 DEF ReadForRestore, Look, HoldsSteady, history, remote, database
<1>6. CASE ReadFails(t)
  BY <1>6 DEF ReadFails, HoldsSteady, history, remote, database
<1>7. CASE Compare(t)
  BY <1>7 DEF Compare, HoldsSteady, history, remote, database
<1>8. CASE Moved(t)
  BY <1>8 DEF Moved, Replace, HoldsSteady, history, remote, database
<1>9. CASE MoveFails(t)
  BY <1>9 DEF MoveFails, Replace, HoldsSteady, history, remote, database
<1>10. CASE CheckSkipped(t)
  BY <1>10 DEF CheckSkipped, history, remote, database
<1>11. CASE CheckAccepts(t)
  BY <1>11 DEF CheckAccepts, history, remote, database
<1>12. CASE CheckRefuses(t)
  BY <1>12 DEF CheckRefuses, history, remote, database
<1>13. CASE UndoRead(t)
  BY <1>13 DEF UndoRead, HoldsSteady, history, remote, database
<1>14. CASE KeepPrevious(t)
  BY <1>14 DEF KeepPrevious, history, remote, database
<1>15. CASE Pull(t)
  BY <1>15 DEF Pull, GiveUp, history, remote, database
<1>16. CASE StoreRecords(t)
  BY <1>16 DEF StoreRecords, GiveUp, history, remote, database
<1>17. CASE SetFetched(t)
  BY <1>17 DEF SetFetched, GiveUp, history, remote, database
<1>18. CASE MarkApplied(t)
  BY <1>18 DEF MarkApplied, history, remote, database
<1>19. CASE RungSkipped(t)
  BY <1>19 DEF RungSkipped, NextRung, history, remote, database
<1>20. CASE RungRuns(t)
  <2>1. IF up' THEN loaded' = file ELSE loaded' = loaded
    BY <1>20, CommandLoadsTheFile DEF RungRuns
  <2>2. pc[t] = "rung" /\ pc'[t] = "settle" /\ UNCHANGED <<file, included, fetched, applied>>
    BY <1>20 DEF RungRuns, database
  <2>. QED  BY <2>1, <2>2
<1>21. CASE RungFails(t)
  BY <1>21 DEF RungFails, NextRung, history, remote, database
<1>22. CASE Settled(t)
  BY <1>22 DEF Settled, NextRung, history, remote, database
<1>. QED
  BY <1>2, <1>3, <1>4, <1>5, <1>6, <1>7, <1>8, <1>9, <1>10, <1>11, <1>12, <1>13, <1>14, <1>15, <1>16, <1>17, <1>18, <1>19, <1>20, <1>21, <1>22
  DEF Advance, WriteStep, RefillStep, LadderStep, Release

(* Every step keeps it. *)
LEMMA ServedStep ==
  ASSUME IInv, CalmInv, ServedInv, Next
  PROVE  ServedInv'
<1>. SUFFICES ASSUME faults' = 0, FirstIncluded
              PROVE  /\ included'
                     /\ \A t \in Tasks : Unfetched(t)' => fetched' \in {None, entry'.file}
                     /\ (\A t \in Tasks : ~ Unfetched(t)') => fetched' \in {None, file'}
                     /\ \A t \in Tasks : Reloaded(t)' => loaded' = file'
                     /\ (\A t \in Tasks : ~ Reloaded(t)') => applied' \in {None, loaded'}
  BY DEF ServedInv
<1>0. /\ TypeOK /\ OneInside
      /\ pc \in [Tasks -> Point] /\ kind \in [Tasks -> JobKind]
      /\ faults = 0
  BY QuietStep DEF IInv, TypeOK, ProcessType, HistoryType
<1>. USE <1>0
<1>1. /\ included
      /\ \A t \in Tasks : Unfetched(t) => fetched \in {None, entry.file}
      /\ (\A t \in Tasks : ~ Unfetched(t)) => fetched \in {None, file}
      /\ \A t \in Tasks : Reloaded(t) => loaded = file
      /\ (\A t \in Tasks : ~ Reloaded(t)) => applied \in {None, loaded}
  BY DEF ServedInv
<1>2. \A t \in Tasks : Unfetched(t) \/ Reloaded(t) => pc[t] \in Inside /\ pc[t] \notin Ended
  BY DEF Unfetched, Reloaded, Inside, ChangeAt, RefillAt, LadderAt, Ended, At
<1>3. \A t \in Tasks : Unfetched(t)' \/ Reloaded(t)' => pc'[t] \in Inside /\ pc'[t] \notin Ended
  BY DEF Unfetched, Reloaded, Inside, ChangeAt, RefillAt, LadderAt, Ended, At
<1>4. {"idle", "queued"} \cap Inside = {}
  BY DEF Inside, ChangeAt, RefillAt, LadderAt, Ended
<1>5. ASSUME NEW t \in Tasks, Arrive(t) \/ Refresh(t)
      PROVE  ServedInv'
  <2>1. /\ pc[t] = "idle" /\ pc' = [pc EXCEPT ![t] = "queued"]
        /\ \A u \in Tasks \ {t} : kind'[u] = kind[u]
        /\ UNCHANGED <<history, database>>
    BY <1>5, OtherShapes
  <2>2. UNCHANGED remote
    BY <1>5 DEF Arrive, Apply, RestoreFile, Reload, Refresh, Start
  <2>3. UNCHANGED <<file, included, loaded, up, fetched, applied, entry>>
    BY <2>1, <2>2 DEF remote, database, history
  <2>4. \A u \in Tasks : (Unfetched(u)' <=> Unfetched(u)) /\ (Reloaded(u)' <=> Reloaded(u))
    BY <1>2, <1>3, <1>4, <2>1, <2>3 DEF Unfetched, Reloaded, Changing, At
  <2>. QED  BY <1>1, <2>3, <2>4 DEF ServedInv
<1>6. ASSUME NEW t \in Tasks, Acquire(t)
      PROVE  ServedInv'
  <2>1. /\ pc[t] = "queued" /\ pc' = [pc EXCEPT ![t] = FirstStep[kind[t]]]
        /\ lock = NoTask /\ entry'.file = file
        /\ UNCHANGED <<file, included, loaded, fetched, applied, kind>>
    BY <1>6 DEF Acquire, At, Goto, job, remote, database
  <2>2. \A u \in Tasks : pc[u] \notin Inside
    BY <2>1, ServerFileAssumption DEF OneInside
  <2>3. fetched \in {None, file} /\ applied \in {None, loaded}
    BY <1>1, <1>2, <2>2
  <2>4. pc'[t] = "pull" => kind[t] = "refresh"
    BY <2>1 DEF FirstStep, JobKind
  <2>5. pc'[t] # "settle" /\ (pc'[t] \in RefillAt => pc'[t] = "pull")
    BY <2>1 DEF FirstStep, JobKind, RefillAt
  <2>6. \A u \in Tasks : ~ Reloaded(u)'
    BY <1>3, <2>1, <2>2, <2>4, <2>5 DEF Reloaded, At
  <2>. QED  BY <1>1, <2>1, <2>3, <2>6 DEF ServedInv
<1>7. ASSUME NEW t \in Tasks, Advance(t), pc[t] \notin Ended
      PROVE  ServedInv'
  <2>1. /\ pc[t] \in Inside
        /\ \A u \in Tasks \ {t} : pc'[u] = pc[u]
    BY <1>7, AdvanceShape
  <2>2. \A u \in Tasks \ {t} : pc[u] \notin Inside /\ pc'[u] \notin Inside
    BY <2>1 DEF OneInside
  <2>3. \A u \in Tasks \ {t} : /\ ~ Unfetched(u) /\ ~ Reloaded(u)
                               /\ ~ Unfetched(u)' /\ ~ Reloaded(u)'
    BY <1>2, <1>3, <2>2
  <2>4. Calm(t)
    <3>1. entry.faults \in Nat /\ entry.faults <= faults
      BY <2>1 DEF CalmInv, TypeOK, HistoryType
    <3>2. ~ gone[t]
      BY DEF IInv, Quiet
    <3>. QED  BY <3>1, <3>2 DEF Calm
  <2>5. HoldsSteady(t) /\ ~ Fails(t)
    BY <2>1, <2>4 DEF CalmInv, Calm, Fails, Cancelled, Disturb
  <2>6. ServedBy(t)
    BY <1>1, <2>3 DEF ServedBy
  <2>7. ServedBy(t)'
    BY <1>7, <2>5, <2>6, AdvanceServes
  <2>. QED  BY <2>3, <2>7 DEF ServedBy, ServedInv
<1>8. ASSUME NEW t \in Tasks, Release(t)
      PROVE  ServedInv'
  <2>1. /\ pc[t] \in Inside /\ pc' = [pc EXCEPT ![t] = "idle"]
    BY <1>8, OtherShapes
  <2>2. /\ pc[t] \in Ended
        /\ UNCHANGED <<file, included, loaded, fetched, applied>>
    BY <1>8 DEF Release, EndJob, remote
  <2>3. \A u \in Tasks \ {t} : pc[u] \notin Inside /\ pc'[u] \notin Inside
    BY <2>1 DEF OneInside
  <2>4. \A u \in Tasks : /\ ~ Unfetched(u) /\ ~ Reloaded(u)
                        /\ ~ Unfetched(u)' /\ ~ Reloaded(u)'
    BY <1>2, <1>3, <1>4, <2>1, <2>2, <2>3
  <2>. QED  BY <1>1, <2>2, <2>4 DEF ServedInv
<1>9. ~ HandEdit /\ ~ LateMove /\ ~ Crash /\ \A t \in Tasks : ~ RequestEnds(t)
  BY DEF HandEdit, LateMove, Crash, RequestEnds, Disturb
<1>. QED
  BY <1>5, <1>6, <1>7, <1>8, <1>9, EndedOnlyReleases DEF Next, ServedInv

-----------------------------------------------------------------------------
Steady == IInv /\ CalmInv /\ ServedInv

LEMMA InitSteady == Init => Steady
<1>. SUFFICES ASSUME Init PROVE Steady  OBVIOUS
<1>1. \A t \in Tasks : pc[t] = "idle" /\ pc[t] \notin Inside
  BY DEF Init, Inside, ChangeAt, RefillAt, LadderAt, Ended
<1>2. CalmInv
  BY <1>1, Zenon DEF Init, CalmInv
<1>3. ServedInv
  BY <1>1 DEF Init, ServedInv, Unfetched, Reloaded, ChangeAt, RefillAt, At
<1>. QED  BY <1>2, <1>3, InitInv DEF Steady

LEMMA NextSteady == Steady /\ [Next]_vars => Steady'
<1>. SUFFICES ASSUME Steady, [Next]_vars PROVE Steady'  OBVIOUS
<1>1. CASE Next
  BY <1>1, NextInv, CalmStep, ServedStep DEF Steady
<1>2. CASE UNCHANGED vars
  <2>1. IInv'
    BY <1>2, NextInv DEF Steady
  <2>2. CalmInv'
    BY <1>2 DEF Steady, CalmInv, Calm, HoldsSteady, Changing, At, vars, remote,
                database, process, history
  <2>3. ServedInv'
    BY <1>2 DEF Steady, ServedInv, Unfetched, Reloaded, Changing, At, vars, remote,
                database, process, history
  <2>. QED  BY <2>1, <2>2, <2>3 DEF Steady
<1>. QED  BY <1>1, <1>2

LEMMA SteadyInvariance == Spec => []Steady
BY InitSteady, NextSteady, PTL DEF Spec

(* write, checkConfig: a change or a restore that failed without a         *)
(* disturbance left the file as it found it, whatever it is asked to write *)
(* and whatever the resolver refuses.                                      *)
THEOREM FailureLeavesTheFile == Spec => []FailedChangeLeavesTheFile
<1>1. Steady => FailedChangeLeavesTheFile
  BY DEF Steady, CalmInv, HoldsSteady, Changing, FailedChangeLeavesTheFile, At,
         Inside, Ended
<1>. QED  BY <1>1, SteadyInvariance, PTL

(* applyOne: an undisturbed success is exactly the operation, applied to   *)
(* the file the panel found when its turn came, with that file kept and    *)
(* the cache refilled.                                                     *)
THEOREM ChangeIsExact == Spec => []SuccessIsExact
<1>1. Steady => SuccessIsExact
  BY DEF Steady, CalmInv, HoldsSteady, SuccessIsExact, At, Inside, Ended
<1>. QED  BY <1>1, SteadyInvariance, PTL

(* reloadOne, recordApplied: while nothing disturbs the panel, a server    *)
(* without pending changes serves the file the panel knows, also when      *)
(* changes, restores and reloads of several people interleave.             *)
THEOREM NothingPendingIsServed == Spec => []AppliedIsServed
<1>1. Steady => AppliedIsServed
  <2>. SUFFICES ASSUME Steady, faults = 0, FirstIncluded, fetched # None,
                       fetched = applied
                PROVE  loaded = fetched
    BY DEF AppliedIsServed, Pending
  <2>1. CASE \E t \in Tasks : Reloaded(t)
    <3>1. PICK t \in Tasks : Reloaded(t)
      BY <2>1
    <3>2. pc[t] \in Inside /\ pc[t] \notin Ended /\ ~ Unfetched(t)
      BY <3>1 DEF Reloaded, Unfetched, Changing, Inside, RefillAt, LadderAt, Ended, At
    <3>3. \A u \in Tasks : ~ Unfetched(u)
      <4>1. \A u \in Tasks : Unfetched(u) => pc[u] \in Inside
        BY DEF Unfetched, Inside, ChangeAt, RefillAt
      <4>. QED  BY <3>2, <4>1 DEF Steady, IInv, OneInside
    <3>. QED  BY <3>1, <3>3 DEF Steady, ServedInv
  <2>2. CASE \A t \in Tasks : ~ Reloaded(t)
    BY <2>2 DEF Steady, ServedInv
  <2>. QED  BY <2>1, <2>2
<1>. QED  BY <1>1, SteadyInvariance, PTL

=============================================================================
