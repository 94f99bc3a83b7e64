--------------------------- MODULE Scheduler_proofs ---------------------------
(***************************************************************************)
(* Theorems about Scheduler for every number of jobs, clock, set of        *)
(* servers, requests and reports, and every number of crashes and refused  *)
(* statements.                                                             *)
(***************************************************************************)
EXTENDS Scheduler, TLAPS

-----------------------------------------------------------------------------
(* The inductive invariant. *)

(* A row that exists has been created, and it asks for something. *)
RowsKnown ==
  \A i \in Ids :
    /\ rows[i].status # "none" => i <= made /\ rows[i].request \in Requests
    /\ rows[i].status = "none" => rows[i] = NoRow
    /\ i > made => began[i] = 0
    /\ i \in cancelled => i <= made /\ rows[i] = NoRow

(* The job being applied is one Due answered, and its row is running until *)
(* it is closed or goes with its target.                                   *)
CurKnown ==
  /\ pc \in Running => /\ cur \in Due /\ cur.id <= made
  /\ pc \notin Running => cur = NoJob
  /\ pc = "apply" => left >= 1
  /\ CancelledIsNotApplied
  /\ pc \in {"apply", "finish"} => rows[cur.id].status \in {"running", "none"}
  /\ pc = "audit" /\ IsRunning(cur.id) => cur.id \in lost

(* Every pending job older than one the pass has not reached is still to   *)
(* be reached itself, with the time it has now.                            *)
NothingOlderForgotten ==
  \A j \in batch, k \in Ids :
    rows[k].status = "pending" /\ k # j.id =>
      \/ Before(j, [id |-> k, at |-> rows[k].at])
      \/ k \in missed
      \/ \E m \in batch : m.id = k /\ m.at = rows[k].at

BatchKnown ==
  /\ batch # {} => pc \in Running \cup {"pass"}
  /\ \A j \in batch : j.at <= now
  /\ NothingOlderForgotten

(* Only a start of the panel makes a job that ran pending again. *)
RunsLeft ==
  \A i \in Ids :
    /\ began[i] <= boots
    /\ rows[i].status = "pending" /\ pc # "down" => began[i] < boots
    /\ IsRunning(i) /\ pc = "reset" => began[i] < boots
    /\ pc # "down" => boots >= 1

(* The reports folded so far stand for all the results heard. *)
FoldStands ==
  /\ \A s \in Servers : "none" \notin took[s]
  /\ err = "nil" => \A s \in Servers :
       \/ merged[s] = "none" /\ took[s] = {}
       \/ /\ merged[s] \in took[s]
          /\ \A r \in took[s] : Severity[r] <= Severity[merged[s]]
  /\ pc \notin Running => merged = Unheard /\ took = [s \in Servers |-> {}]

(* The run in progress is the only one without its row. *)
RunsAudited ==
  \A i \in Ids :
    LET open == IF pc \in Running /\ cur.id = i THEN 1 ELSE 0
    IN  /\ trail[i] + open <= began[i]
        /\ faults = 0 => trail[i] + open = began[i]

IInv ==
  /\ TypeOK
  /\ RowsKnown
  /\ CurKnown
  /\ RunningIsBeingApplied
  /\ BatchKnown
  /\ RunsLeft
  /\ FoldStands
  /\ RunsAudited

LEMMA InitInv == Init => IInv
<1>. SUFFICES ASSUME Init PROVE IInv  OBVIOUS
<1>. USE SchedulerAssumption DEF Init, Ids
<1>1. TypeOK
  BY DEF TypeOK, Row, Status, NoRow, Point, NoJob, Unheard, Result
<1>2. RowsKnown /\ CurKnown /\ RunningIsBeingApplied /\ BatchKnown /\ RunsLeft
  BY DEF RowsKnown, CurKnown, CancelledIsNotApplied, RunningIsBeingApplied, IsRunning, BatchKnown,
         NothingOlderForgotten, RunsLeft, NoRow, Running
<1>3. FoldStands /\ RunsAudited
  BY DEF FoldStands, RunsAudited, Unheard, Running
<1>. QED  BY <1>1, <1>2, <1>3 DEF IInv

-----------------------------------------------------------------------------
(* Folding reports keeps a result per server. *)
LEMMA MergeType ==
  ASSUME NEW m \in [Servers -> Result], NEW r \in [Servers -> Result]
  PROVE  Merge(m, r) \in [Servers -> Result]
BY DEF Merge

(* What the statements write is a row. *)
LEMMA WrittenRows ==
  /\ NoRow \in Row
  /\ \A r \in Requests, at \in 0..MaxTime :
       [status |-> "pending", request |-> r, at |-> at] \in Row
  /\ \A r \in Row, st \in Status : WithStatus(r, st) \in Row
BY SchedulerAssumption DEF NoRow, Row, Status, WithStatus

(* A row of the table that asks for something makes a snapshot. *)
LEMMA SnapshotType ==
  ASSUME TypeOK, RowsKnown, NEW i \in Ids, rows[i].status # "none"
  PROVE  Snapshot(i) \in Due
BY DEF TypeOK, RowsKnown, Snapshot, Due, Row

LEMMA RowsTypeStep ==
  ASSUME TypeOK, CurKnown, [Next]_vars
  PROVE  rows' \in [Ids -> Row]
<1>. USE SchedulerAssumption, WrittenRows
<1>0. rows \in [Ids -> Row] /\ made \in 0..MaxJobs /\ batch \subseteq Due
  BY DEF TypeOK
<1>. USE <1>0
<1>1. CASE Create
  BY <1>1 DEF Create, SetRow, Ids
<1>2. ASSUME NEW i \in Ids, Update(i) PROVE rows' \in [Ids -> Row]
  BY <1>2 DEF Update, SetRow
<1>3. ASSUME NEW i \in Ids, Cancel(i) PROVE rows' \in [Ids -> Row]
  BY <1>3 DEF Cancel, SetRow
<1>4. ASSUME NEW x \in Targets, DeleteTarget(x) PROVE rows' \in [Ids -> Row]
  BY <1>4 DEF DeleteTarget
<1>5. CASE Reset
  <2>1. "pending" \in Status
    BY DEF Status
  <2>. QED  BY <1>5, <2>1 DEF Reset
<1>6. ASSUME NEW j \in batch, Claim(j) PROVE rows' \in [Ids -> Row]
  <2>1. "running" \in Status /\ j.id \in Ids
    BY DEF Status, Due
  <2>. QED  BY <1>6, <2>1 DEF Claim, SetRow
<1>7. CASE Finish
  <2>1. Outcome \in Status
    BY DEF Outcome, Status
  <2>2. cur.id \in Ids
    BY <1>7 DEF Finish, CurKnown, Running, Due
  <2>. QED  BY <1>7, <2>1, <2>2 DEF Finish, SetRow
<1>8. CASE UNCHANGED rows
  BY <1>8
<1>9. Boot \/ ReadDue \/ EndPass \/ Timer \/ (\E j \in batch : NotClaimed(j))
      \/ Applied \/ ApplyFails \/ Audit \/ Tick \/ Crash \/ UNCHANGED vars
        => UNCHANGED rows
  BY DEF Boot, ReadDue, EndPass, Timer, NotClaimed, Applied, ApplyFails, Audit,
         Tick, Crash, vars, table
<1>. QED
  BY <1>1, <1>2, <1>3, <1>4, <1>5, <1>6, <1>7, <1>8, <1>9 DEF Next, Operators, Run

LEMMA TypeStep ==
  ASSUME TypeOK, CurKnown, RowsKnown, [Next]_vars
  PROVE  TypeOK'
<1>. USE SchedulerAssumption
<1>0. rows' \in [Ids -> Row]
  BY RowsTypeStep
<1>. USE <1>0 DEF TypeOK
<1>1. CASE Create
  BY <1>1 DEF Create, run, history
<1>2. ASSUME NEW i \in Ids, Update(i) PROVE TypeOK'
  BY <1>2 DEF Update, run, history
<1>3. ASSUME NEW i \in Ids, Cancel(i) PROVE TypeOK'
  BY <1>3 DEF Cancel, run
<1>4. ASSUME NEW x \in Targets, DeleteTarget(x) PROVE TypeOK'
  BY <1>4 DEF DeleteTarget, run, history
<1>5. CASE Boot
  BY <1>5 DEF Boot, Goto, Point, table, run
<1>6. CASE Reset
  BY <1>6 DEF Reset, Goto, Point, Disturb, run
<1>7. CASE ReadDue
  <2>1. \A i \in Ids : IsDue(i) => Snapshot(i) \in Due
    BY SnapshotType DEF IsDue
  <2>. QED  BY <1>7, <2>1 DEF ReadDue, Goto, Point, Disturb, table, run
<1>8. CASE EndPass \/ Timer
  BY <1>8 DEF EndPass, Timer, Goto, Point, table, run, history
<1>9. ASSUME NEW j \in batch, Claim(j) PROVE TypeOK'
  <2>1. Applications(j.request) \in Nat /\ j.id \in Ids
    BY DEF Applications, Due, Request
  <2>2. began' \in [Ids -> Nat]
    BY <1>9, <2>1 DEF Claim
  <2>. QED  BY <1>9, <2>1, <2>2 DEF Claim, Unreadable, Goto, Point, Running
<1>10. ASSUME NEW j \in batch, NotClaimed(j) PROVE TypeOK'
  <2>1. j.id \in Ids
    BY DEF Due
  <2>. QED  BY <1>10, <2>1 DEF NotClaimed, Disturb, table, run
<1>11. CASE Applied
  <2>1. PICK r \in Reports :
          /\ merged' = Merge(merged, r)
          /\ took' = [s \in Servers |-> took[s] \cup ({r[s]} \ {"none"})]
    BY <1>11 DEF Applied
  <2>2. merged' \in [Servers -> Result]
    BY <2>1, MergeType
  <2>3. took' \in [Servers -> SUBSET Result]
    BY <2>1
  <2>4. left' \in Nat
    BY <1>11 DEF Applied, CurKnown
  <2>. QED  BY <1>11, <2>2, <2>3, <2>4 DEF Applied, Goto, Point, Running, table, history
<1>12. CASE ApplyFails
  BY <1>12 DEF ApplyFails, Goto, Point, Running, Unheard, Result, table, history
<1>13. CASE Finish
  <2>1. cur.id \in Ids
    BY <1>13 DEF Finish, CurKnown, Running, Due
  <2>. QED  BY <1>13, <2>1 DEF Finish, Goto, Point, Running, Disturb, run
<1>14. CASE Audit
  <2>1. cur.id \in Ids
    BY <1>14 DEF Audit, CurKnown, Running, Due
  <2>2. trail' \in [Ids -> Nat]
    BY <1>14, <2>1 DEF Audit
  <2>. QED  BY <1>14, <2>2 DEF Audit, Forget, Goto, Point, Running, Disturb, Unheard,
                          Result, table
<1>15. CASE Tick
  BY <1>15 DEF Tick, table, run, history
<1>16. CASE Crash
  BY <1>16 DEF Crash, Forget, Goto, Point, Disturb, Unheard, Result, table
<1>17. CASE UNCHANGED vars
  BY <1>17 DEF vars, table, run, history
<1>. QED
  BY <1>1, <1>2, <1>3, <1>4, <1>5, <1>6, <1>7, <1>8, <1>9, <1>10, <1>11, <1>12,
     <1>13, <1>14, <1>15, <1>16, <1>17 DEF Next, Operators, Run

-----------------------------------------------------------------------------
(* The steps that leave the table, the snapshots and the histories of jobs *)
(* alone, as one case.                                                     *)
Elsewhere ==
  \/ Boot \/ EndPass \/ Timer \/ Applied \/ ApplyFails \/ Audit \/ Tick \/ Crash
  \/ ReadDue \/ (\E j \in batch : NotClaimed(j)) \/ UNCHANGED vars

LEMMA ElsewhereKeeps ==
  ASSUME Elsewhere
  PROVE  UNCHANGED <<rows, made, targets, began, cancelled>>
BY DEF Elsewhere, Boot, EndPass, Timer, Applied, ApplyFails, Audit, Tick, Crash,
       ReadDue, NotClaimed, vars, table, history

LEMMA RowsKnownStep ==
  ASSUME TypeOK, CurKnown, RowsKnown, [Next]_vars
  PROVE  RowsKnown'
<1>. USE SchedulerAssumption DEF TypeOK, Ids
<1>1. CASE Create
  <2>1. PICK r \in Requests, at \in 0..MaxTime :
          rows' = [rows EXCEPT ![made + 1] =
                     [status |-> "pending", request |-> r, at |-> at]]
    BY <1>1 DEF Create, SetRow
  <2>. QED  BY <1>1, <2>1 DEF Create, RowsKnown, history
<1>2. ASSUME NEW i \in Ids, Update(i) PROVE RowsKnown'
  <2>1. PICK r \in Requests, at \in 0..MaxTime :
          rows' = [rows EXCEPT ![i] =
                     [status |-> "pending", request |-> r, at |-> at]]
    BY <1>2 DEF Update, SetRow
  <2>. QED  BY <1>2, <2>1 DEF Update, RowsKnown, NoRow, history
<1>3. ASSUME NEW i \in Ids, Cancel(i) PROVE RowsKnown'
  BY <1>3 DEF Cancel, SetRow, RowsKnown, NoRow
<1>4. ASSUME NEW x \in Targets, DeleteTarget(x) PROVE RowsKnown'
  BY <1>4 DEF DeleteTarget, RowsKnown, NoRow, history
<1>5. CASE Reset
  <2>1. \A i \in Ids : \/ rows'[i] = rows[i]
                        \/ /\ IsRunning(i)
                           /\ rows'[i] = WithStatus(rows[i], "pending")
    BY <1>5 DEF Reset
  <2>2. \A i \in Ids : i \in cancelled => ~ IsRunning(i)
    BY DEF RowsKnown, IsRunning, NoRow
  <2>3. \A i \in Ids : IsRunning(i) =>
          rows[i].status # "none" /\ WithStatus(rows[i], "pending").status = "pending"
          /\ WithStatus(rows[i], "pending").request = rows[i].request
    BY DEF IsRunning, WithStatus
  <2>. QED  BY <1>5, <2>1, <2>2, <2>3 DEF Reset, RowsKnown
<1>6. ASSUME NEW j \in batch, Claim(j) PROVE RowsKnown'
  <2>1. j.id \in Ids
    BY DEF Due
  <2>2. \A i \in Ids : rows'[i] = IF i = j.id THEN WithStatus(rows[i], "running")
                                             ELSE rows[i]
    BY <1>6, <2>1 DEF Claim, SetRow
  <2>3. /\ WithStatus(rows[j.id], "running").status = "running"
        /\ WithStatus(rows[j.id], "running").request = rows[j.id].request
        /\ rows[j.id].status # "none" /\ j.id \notin cancelled
        /\ \A i \in Ids : i # j.id => began'[i] = began[i]
    BY <1>6, <2>1 DEF Claim, WithStatus, RowsKnown, NoRow
  <2>. QED  BY <1>6, <2>1, <2>2, <2>3 DEF Claim, RowsKnown
<1>7. CASE Finish
  <2>1. cur.id \in Ids
    BY <1>7 DEF Finish, CurKnown, Running, Due
  <2>2. Outcome # "none"
    BY DEF Outcome
  <2>3. \A i \in Ids : \/ rows'[i] = rows[i]
                        \/ /\ IsRunning(i)
                           /\ rows'[i] = WithStatus(rows[i], Outcome)
    BY <1>7, <2>1 DEF Finish, SetRow
  <2>4. \A i \in Ids : IsRunning(i) =>
          /\ rows[i].status # "none" /\ i \notin cancelled
          /\ WithStatus(rows[i], Outcome).status = Outcome
          /\ WithStatus(rows[i], Outcome).request = rows[i].request
    BY DEF IsRunning, WithStatus, RowsKnown, NoRow
  <2>. QED  BY <1>7, <2>2, <2>3, <2>4 DEF Finish, RowsKnown
<1>8. CASE Elsewhere
  BY <1>8, ElsewhereKeeps DEF RowsKnown
<1>. QED
  BY <1>1, <1>2, <1>3, <1>4, <1>5, <1>6, <1>7, <1>8
  DEF Next, Operators, Run, Elsewhere

LEMMA CurKnownStep ==
  ASSUME TypeOK, CurKnown, RowsKnown, [Next]_vars
  PROVE  CurKnown'
<1>. USE SchedulerAssumption DEF Ids
<1>0. /\ rows \in [Ids -> Row] /\ made \in 0..MaxJobs /\ batch \subseteq Due
      /\ left \in Nat
  BY DEF TypeOK
<1>. USE <1>0 DEF Running, CancelledIsNotApplied
<1>1. CASE Create
  BY <1>1 DEF Create, SetRow, CurKnown, IsRunning, Due, run, history
<1>2. ASSUME NEW i \in Ids, Update(i) PROVE CurKnown'
  BY <1>2 DEF Update, SetRow, CurKnown, IsRunning, Due, run, history
<1>3. ASSUME NEW i \in Ids, Cancel(i) PROVE CurKnown'
  BY <1>3 DEF Cancel, SetRow, CurKnown, IsRunning, Due, NoRow, run
<1>4. ASSUME NEW x \in Targets, DeleteTarget(x) PROVE CurKnown'
  BY <1>4 DEF DeleteTarget, CurKnown, IsRunning, Due, NoRow, run, history
<1>5. CASE Boot \/ Reset \/ ReadDue \/ EndPass \/ Timer
  BY <1>5 DEF Boot, Reset, ReadDue, EndPass, Timer, Goto, CurKnown, run
<1>6. ASSUME NEW j \in batch, Claim(j) PROVE CurKnown'
  <2>1. j \in Due /\ j.id \in Ids /\ j.id <= made /\ j.id \notin cancelled
    BY <1>6 DEF Claim, Due, RowsKnown, NoRow
  <2>2. Applications(j.request) >= 1
    BY DEF Applications, Due, Request
  <2>3. rows'[j.id].status = "running"
    BY <1>6, <2>1 DEF Claim, SetRow, WithStatus
  <2>. QED  BY <1>6, <2>1, <2>2, <2>3 DEF Claim, Goto, CurKnown
<1>7. ASSUME NEW j \in batch, NotClaimed(j) PROVE CurKnown'
  BY <1>7 DEF NotClaimed, CurKnown, table, run
<1>8. CASE Applied \/ ApplyFails
  BY <1>8 DEF Applied, ApplyFails, Goto, CurKnown, table, history
<1>9. CASE Finish
  <2>1. cur.id \in Ids
    BY <1>9 DEF Finish, CurKnown, Due
  <2>2. Outcome # "running"
    BY DEF Outcome
  <2>. QED  BY <1>9, <2>1, <2>2 DEF Finish, Goto, SetRow, WithStatus, IsRunning,
                               CurKnown, run
<1>10. CASE Audit \/ Crash
  BY <1>10 DEF Audit, Crash, Forget, Goto, CurKnown
<1>11. CASE Tick \/ UNCHANGED vars
  BY <1>11 DEF Tick, vars, CurKnown, IsRunning, table, run, history
<1>. QED
  BY <1>1, <1>2, <1>3, <1>4, <1>5, <1>6, <1>7, <1>8, <1>9, <1>10, <1>11
  DEF Next, Operators, Run

LEMMA RunningStep ==
  ASSUME TypeOK, CurKnown, RowsKnown, RunningIsBeingApplied, [Next]_vars
  PROVE  RunningIsBeingApplied'
<1>. USE SchedulerAssumption DEF Ids, IsRunning
<1>0. /\ rows \in [Ids -> Row] /\ made \in 0..MaxJobs /\ batch \subseteq Due
  BY DEF TypeOK
<1>. USE <1>0 DEF Running, RunningIsBeingApplied
<1>1. CASE Create
  BY <1>1 DEF Create, SetRow, run, history
<1>2. ASSUME NEW i \in Ids, Update(i) PROVE RunningIsBeingApplied'
  BY <1>2 DEF Update, SetRow, run, history
<1>3. ASSUME NEW i \in Ids, Cancel(i) PROVE RunningIsBeingApplied'
  BY <1>3 DEF Cancel, SetRow, NoRow, run
<1>4. ASSUME NEW x \in Targets, DeleteTarget(x) PROVE RunningIsBeingApplied'
  BY <1>4 DEF DeleteTarget, NoRow, run, history
<1>5. CASE Boot \/ ReadDue \/ EndPass \/ Timer
  BY <1>5 DEF Boot, ReadDue, EndPass, Timer, Goto, table, run, history
<1>6. CASE Reset
  BY <1>6 DEF Reset, Goto, WithStatus
<1>7. ASSUME NEW j \in batch, Claim(j) PROVE RunningIsBeingApplied'
  BY <1>7 DEF Claim, Goto, SetRow
<1>8. ASSUME NEW j \in batch, NotClaimed(j) PROVE RunningIsBeingApplied'
  BY <1>8 DEF NotClaimed, table, run
<1>9. CASE Applied \/ ApplyFails
  BY <1>9 DEF Applied, ApplyFails, Goto, table, history
<1>10. CASE Finish
  BY <1>10 DEF Finish, Goto, SetRow, run
<1>11. CASE Audit \/ Crash
  BY <1>11 DEF Audit, Crash, Goto, CurKnown, table
<1>12. CASE Tick \/ UNCHANGED vars
  BY <1>12 DEF Tick, vars, table, run, history
<1>. QED
  BY <1>1, <1>2, <1>3, <1>4, <1>5, <1>6, <1>7, <1>8, <1>9, <1>10, <1>11, <1>12
  DEF Next, Operators, Run

LEMMA RunsLeftStep ==
  ASSUME TypeOK, CurKnown, RowsKnown, BatchKnown, RunsLeft, [Next]_vars
  PROVE  RunsLeft'
<1>. USE SchedulerAssumption DEF Ids
<1>0. /\ rows \in [Ids -> Row] /\ made \in 0..MaxJobs /\ batch \subseteq Due
      /\ boots \in Nat /\ began \in [Ids -> Nat]
  BY DEF TypeOK
<1>. USE <1>0 DEF RunsLeft, IsRunning
<1>1. CASE Create
  BY <1>1 DEF Create, SetRow, RowsKnown, Up, history
<1>2. ASSUME NEW i \in Ids, Update(i) PROVE RunsLeft'
  BY <1>2 DEF Update, SetRow, Up, history
<1>3. ASSUME NEW i \in Ids, Cancel(i) PROVE RunsLeft'
  BY <1>3 DEF Cancel, SetRow, NoRow
<1>4. ASSUME NEW x \in Targets, DeleteTarget(x) PROVE RunsLeft'
  BY <1>4 DEF DeleteTarget, NoRow, history
<1>5. CASE Boot \/ Reset
  BY <1>5 DEF Boot, Reset, Goto, WithStatus, table
<1>6. ASSUME NEW j \in batch, Claim(j) PROVE RunsLeft'
  <2>1. j.id \in Ids
    BY DEF Due
  <2>2. \A i \in Ids : rows'[i] = IF i = j.id THEN WithStatus(rows[i], "running")
                                             ELSE rows[i]
    BY <1>6, <2>1 DEF Claim, SetRow
  <2>3. /\ WithStatus(rows[j.id], "running").status = "running"
        /\ pc = "pass" /\ pc' \notin {"down", "reset"} /\ boots' = boots
        /\ rows[j.id].status = "pending"
        /\ \A i \in Ids : began'[i] = IF i = j.id THEN began[i] + 1 ELSE began[i]
    BY <1>6, <2>1 DEF Claim, WithStatus, Goto
  <2>. QED  BY <2>1, <2>2, <2>3
<1>7. CASE ReadDue \/ EndPass \/ Timer \/ Applied \/ ApplyFails
  BY <1>7 DEF ReadDue, EndPass, Timer, Applied, ApplyFails, Goto, table, history
<1>8. ASSUME NEW j \in batch, NotClaimed(j) PROVE RunsLeft'
  BY <1>8 DEF NotClaimed, table
<1>9. CASE Finish
  <2>1. Outcome \notin {"running", "pending"}
    BY DEF Outcome
  <2>. QED  BY <1>9, <2>1 DEF Finish, Goto, SetRow, WithStatus
<1>10. CASE Audit \/ Crash
  BY <1>10 DEF Audit, Crash, Goto, table
<1>11. CASE Tick \/ UNCHANGED vars
  BY <1>11 DEF Tick, vars, table, history
<1>. QED
  BY <1>1, <1>2, <1>3, <1>4, <1>5, <1>6, <1>7, <1>8, <1>9, <1>10, <1>11
  DEF Next, Operators, Run

LEMMA RunsAuditedStep ==
  ASSUME TypeOK, CurKnown, RunsAudited, [Next]_vars
  PROVE  RunsAudited'
<1>. USE SchedulerAssumption
<1>0. /\ batch \subseteq Due /\ trail \in [Ids -> Nat] /\ began \in [Ids -> Nat]
      /\ faults \in Nat
  BY DEF TypeOK
<1>. USE <1>0 DEF RunsAudited, Running
<1>1. CASE Operators \/ Tick \/ UNCHANGED vars
  BY <1>1 DEF Operators, Create, Update, Cancel, DeleteTarget, Tick, vars, run, history
<1>2. CASE Boot \/ Reset \/ ReadDue \/ EndPass \/ Timer
  BY <1>2 DEF Boot, Reset, ReadDue, EndPass, Timer, Goto, Disturb, run, history
<1>3. ASSUME NEW j \in batch, Claim(j) PROVE RunsAudited'
  <2>1. j.id \in Ids
    BY DEF Due
  <2>. QED  BY <1>3, <2>1 DEF Claim, Goto
<1>4. ASSUME NEW j \in batch, NotClaimed(j) PROVE RunsAudited'
  BY <1>4 DEF NotClaimed, Disturb, run
<1>5. CASE Applied \/ ApplyFails \/ Finish
  BY <1>5 DEF Applied, ApplyFails, Finish, Goto, Disturb, run, history
<1>6. CASE Audit
  <2>1. cur.id \in Ids
    BY <1>6 DEF Audit, CurKnown, Due
  <2>. QED  BY <1>6, <2>1 DEF Audit, Goto, Disturb
<1>7. CASE Crash
  BY <1>7 DEF Crash, Goto, Disturb
<1>. QED
  BY <1>1, <1>2, <1>3, <1>4, <1>5, <1>6, <1>7 DEF Next, Run

(* What an operator creates or moves is later than all the pass has read.  *)
LEMMA BatchStep ==
  ASSUME TypeOK, CurKnown, RowsKnown, BatchKnown, [Next]_vars
  PROVE  BatchKnown'
<1>. USE SchedulerAssumption DEF Ids
<1>0. /\ rows \in [Ids -> Row] /\ made \in 0..MaxJobs /\ batch \subseteq Due
      /\ now \in 0..MaxTime
  BY DEF TypeOK
<1>. USE <1>0 DEF Running
<1>a. \A j \in batch : j.at <= now /\ j.at \in Nat /\ j.id \in Ids
  BY DEF BatchKnown, Due
<1>1. CASE Create
  <2>1. PICK r \in Requests, at \in 0..MaxTime :
          /\ at > now
          /\ rows' = [rows EXCEPT ![made + 1] =
                        [status |-> "pending", request |-> r, at |-> at]]
    BY <1>1 DEF Create, SetRow
  <2>2. \A j \in batch : Before(j, [id |-> made + 1, at |-> at])
    BY <1>a, <2>1 DEF Before
  <2>3. NothingOlderForgotten'
    BY <1>1, <2>1, <2>2 DEF Create, BatchKnown, NothingOlderForgotten, history
  <2>. QED  BY <1>1, <2>3 DEF Create, BatchKnown
<1>2. ASSUME NEW i \in Ids, Update(i) PROVE BatchKnown'
  <2>1. PICK r \in Requests, at \in 0..MaxTime :
          /\ at > now
          /\ rows' = [rows EXCEPT ![i] =
                        [status |-> "pending", request |-> r, at |-> at]]
    BY <1>2 DEF Update, SetRow
  <2>2. \A j \in batch : Before(j, [id |-> i, at |-> at])
    BY <1>a, <2>1 DEF Before
  <2>3. NothingOlderForgotten'
    BY <1>2, <2>1, <2>2 DEF Update, BatchKnown, NothingOlderForgotten, history
  <2>. QED  BY <1>2, <2>3 DEF Update, BatchKnown
<1>3. ASSUME NEW i \in Ids, Cancel(i) PROVE BatchKnown'
  <2>1. \A k \in Ids : rows'[k].status = "pending" => rows'[k] = rows[k]
    BY <1>3 DEF Cancel, SetRow, NoRow
  <2>2. NothingOlderForgotten'
    BY <1>3, <2>1 DEF Cancel, BatchKnown, NothingOlderForgotten
  <2>. QED  BY <1>3, <2>2 DEF Cancel, BatchKnown
<1>4. ASSUME NEW x \in Targets, DeleteTarget(x) PROVE BatchKnown'
  <2>1. \A k \in Ids : rows'[k].status = "pending" => rows'[k] = rows[k]
    BY <1>4 DEF DeleteTarget, NoRow
  <2>2. NothingOlderForgotten'
    BY <1>4, <2>1 DEF DeleteTarget, BatchKnown, NothingOlderForgotten, history
  <2>. QED  BY <1>4, <2>2 DEF DeleteTarget, BatchKnown
<1>5. CASE Boot \/ Reset \/ EndPass \/ Timer \/ Crash
  <2>1. batch' = {}
    BY <1>5 DEF Boot, Reset, EndPass, Timer, Crash, BatchKnown
  <2>. QED  BY <2>1 DEF BatchKnown, NothingOlderForgotten
<1>6. CASE ReadDue
  <2>1. CASE batch' = {Snapshot(i) : i \in {k \in Ids : IsDue(k)}} /\ Goto("pass")
    <3>1. \A i \in Ids : /\ Snapshot(i).id = i /\ Snapshot(i).at = rows[i].at
      BY DEF Snapshot
    <3>2. \A i \in Ids : rows[i].at \in 0..MaxTime
      BY DEF Row
    <3>3. \A j \in batch' : j.at <= now
      BY <2>1, <3>1 DEF IsDue
    <3>4. ASSUME NEW j \in batch', NEW k \in Ids, rows[k].status = "pending", k # j.id
          PROVE  \/ Before(j, [id |-> k, at |-> rows[k].at])
                 \/ \E m \in batch' : m.id = k /\ m.at = rows[k].at
      <4>1. CASE IsDue(k)
        BY <2>1, <3>1, <4>1
      <4>2. CASE rows[k].at > now
        BY <2>1, <3>1, <3>2, <3>3, <3>4, <4>2 DEF Before
      <4>. QED  BY <3>2, <3>4, <4>1, <4>2 DEF IsDue
    <3>5. UNCHANGED <<rows, now>> /\ pc' = "pass"
      BY <1>6, <2>1 DEF ReadDue, table, Goto
    <3>6. NothingOlderForgotten'
      BY <3>4, <3>5 DEF NothingOlderForgotten
    <3>. QED  BY <3>3, <3>5, <3>6 DEF BatchKnown
  <2>2. CASE UNCHANGED batch
    <3>1. batch = {}
      BY <1>6 DEF ReadDue, BatchKnown
    <3>. QED  BY <2>2, <3>1 DEF BatchKnown, NothingOlderForgotten
  <2>. QED  BY <1>6, <2>1, <2>2 DEF ReadDue
<1>7. ASSUME NEW j \in batch, Claim(j) PROVE BatchKnown'
  <2>1. j.id \in Ids /\ j \in Due
    BY DEF Due
  <2>2. \A k \in Ids : rows'[k].status = "pending" => rows'[k] = rows[k] /\ k # j.id
    BY <1>7, <2>1 DEF Claim, SetRow, WithStatus
  <2>3. batch' = batch \ {j} /\ UNCHANGED <<now, missed>>
        /\ pc' \in {"apply", "finish"}
    BY <1>7 DEF Claim, Goto
  <2>4. NothingOlderForgotten'
    BY <2>2, <2>3 DEF BatchKnown, NothingOlderForgotten
  <2>. QED  BY <2>3, <2>4 DEF BatchKnown
<1>8. ASSUME NEW j \in batch, NotClaimed(j) PROVE BatchKnown'
  <2>1. batch' = batch \ {j} /\ UNCHANGED <<rows, now, pc>> /\ pc = "pass"
        /\ \/ rows[j.id].status # "pending" /\ missed' = missed
           \/ missed' = missed \cup {j.id}
    BY <1>8 DEF NotClaimed, table
  <2>2. NothingOlderForgotten'
    BY <2>1 DEF BatchKnown, NothingOlderForgotten
  <2>. QED  BY <2>1, <2>2 DEF BatchKnown
<1>9. CASE Finish
  <2>1. cur.id \in Ids /\ Outcome # "pending"
    BY <1>9 DEF Finish, CurKnown, Due, Outcome
  <2>2. \A k \in Ids : rows'[k].status = "pending" => rows'[k] = rows[k]
    BY <1>9, <2>1 DEF Finish, SetRow, WithStatus
  <2>3. UNCHANGED <<now, batch, missed>> /\ pc' = "audit"
    BY <1>9 DEF Finish, Goto
  <2>4. NothingOlderForgotten'
    BY <2>2, <2>3 DEF BatchKnown, NothingOlderForgotten
  <2>. QED  BY <2>3, <2>4 DEF BatchKnown
<1>10. CASE Applied \/ ApplyFails \/ Audit
  <2>1. UNCHANGED <<rows, now, batch, missed>> /\ pc' \in Running \cup {"pass"}
    BY <1>10 DEF Applied, ApplyFails, Audit, Goto, table, history
  <2>. QED  BY <2>1 DEF BatchKnown, NothingOlderForgotten
<1>11. CASE Tick \/ UNCHANGED vars
  <2>1. UNCHANGED <<rows, batch, missed, pc>> /\ now' \in {now, now + 1}
    BY <1>11 DEF Tick, vars, table, history
  <2>. QED  BY <1>a, <2>1 DEF BatchKnown, NothingOlderForgotten
<1>. QED
  BY <1>1, <1>2, <1>3, <1>4, <1>5, <1>6, <1>7, <1>8, <1>9, <1>10, <1>11
  DEF Next, Operators, Run

LEMMA FoldStep ==
  ASSUME TypeOK, CurKnown, FoldStands, [Next]_vars
  PROVE  FoldStands'
<1>. USE SchedulerAssumption
<1>0. /\ merged \in [Servers -> Result] /\ took \in [Servers -> SUBSET Result]
  BY DEF TypeOK
<1>. USE <1>0 DEF FoldStands, Running
<1>1. CASE Operators \/ Boot \/ Reset \/ ReadDue \/ EndPass \/ Timer \/ Finish \/ Tick
           \/ UNCHANGED vars
  BY <1>1 DEF Operators, Create, Update, Cancel, DeleteTarget, Boot, Reset, ReadDue,
     EndPass, Timer, Finish, Tick, vars, run, Goto
<1>2. ASSUME NEW j \in batch, NotClaimed(j) PROVE FoldStands'
  BY <1>2 DEF NotClaimed, run
<1>3. ASSUME NEW j \in batch, Claim(j) PROVE FoldStands'
  BY <1>3 DEF Claim, Goto, Unheard
<1>4. CASE Applied
  <2>1. PICK r \in Reports :
          /\ merged' = Merge(merged, r)
          /\ took' = [s \in Servers |-> took[s] \cup ({r[s]} \ {"none"})]
    BY <1>4 DEF Applied
  <2>2. r \in [Servers -> Result] /\ err' = err /\ pc' \in Running
    BY <1>4 DEF Applied, Goto
  <2>3. \A s \in Servers : "none" \notin took'[s]
    BY <2>1
  <2>4. ASSUME err = "nil", NEW s \in Servers
        PROVE  \/ merged'[s] = "none" /\ took'[s] = {}
               \/ /\ merged'[s] \in took'[s]
                  /\ \A x \in took'[s] : Severity[x] <= Severity[merged'[s]]
    <3>1. /\ r[s] \in Result /\ merged[s] \in Result /\ took[s] \subseteq Result
          /\ took'[s] = took[s] \cup ({r[s]} \ {"none"})
          /\ merged'[s] = IF Severity[r[s]] > Severity[merged[s]] THEN r[s] ELSE merged[s]
      BY <2>1, <2>2 DEF Merge
    <3>2. \A x \in Result : Severity[x] \in Nat /\ (Severity[x] = 0 <=> x = "none")
      BY DEF Severity, Result
    <3>. QED  BY <2>4, <3>1, <3>2
  <2>. QED  BY <2>2, <2>3, <2>4
<1>5. CASE ApplyFails
  BY <1>5 DEF ApplyFails, Goto
<1>6. CASE Audit \/ Crash
  BY <1>6 DEF Audit, Crash, Forget, Goto, Unheard
<1>. QED  BY <1>1, <1>2, <1>3, <1>4, <1>5, <1>6 DEF Next, Run

-----------------------------------------------------------------------------
(* What the invariant says of every behaviour. *)

THEOREM Invariance == Spec => []IInv
<1>1. IInv /\ [Next]_vars => IInv'
  BY TypeStep, RowsKnownStep, CurKnownStep, RunningStep, BatchStep, RunsLeftStep,
     FoldStep, RunsAuditedStep DEF IInv
<1>. QED  BY InitInv, <1>1, PTL DEF Spec

(* Every variable keeps its type. *)
THEOREM TypeCorrect == Spec => []TypeOK
<1>1. IInv => TypeOK
  BY DEF IInv
<1>. QED  BY Invariance, <1>1, PTL

(* Schedule.Delete: a job an operator was told is cancelled is not applied *)
(* afterwards.                                                             *)
THEOREM CancelledStaysCancelled == Spec => []CancelledIsNotApplied
<1>1. IInv => CancelledIsNotApplied
  BY DEF IInv, CurKnown
<1>. QED  BY Invariance, <1>1, PTL

(* ResetRunning: a row says running while the goroutine applies it, while  *)
(* the panel is down, or because the database refused to close it.         *)
THEOREM RunningRowsAreApplied == Spec => []RunningIsBeingApplied
<1>1. IInv => RunningIsBeingApplied
  BY DEF IInv
<1>. QED  BY Invariance, <1>1, PTL

(* Claim, ResetRunning: a job runs at most once per start of the panel,    *)
(* and never again once its outcome is stored.                             *)
THEOREM RunsAreCounted == Spec => []RunsOncePerBoot
<1>1. IInv => RunsOncePerBoot
  BY DEF IInv, RunsLeft, CurKnown, RunsOncePerBoot, Finished
<1>. QED  BY Invariance, <1>1, PTL

(* finish: every run leaves its audit row, and no row claims another.      *)
THEOREM RunsAreAudited == Spec => []EveryRunIsAudited
<1>1. IInv => EveryRunIsAudited
  <2>. SUFFICES ASSUME IInv, NEW i \in Ids
                PROVE  /\ trail[i] <= began[i]
                       /\ faults = 0 => began[i] - trail[i] =
                            IF pc \in Running /\ cur.id = i THEN 1 ELSE 0
    BY DEF EveryRunIsAudited
  <2>1. trail[i] \in Nat /\ began[i] \in Nat
    BY DEF IInv, TypeOK
  <2>. QED  BY <2>1 DEF IInv, RunsAudited
<1>. QED  BY Invariance, <1>1, PTL

(* outcome, mergeReports: what a run stores is true of all its reports.    *)
THEOREM OutcomesAreTrue == Spec => []OutcomeIsTrue
<1>1. IInv => OutcomeIsTrue
  <2>. SUFFICES ASSUME IInv, pc \in {"finish", "audit"}, err = "nil"
                PROVE  /\ Outcome = "done" <=>
                            \/ \E s \in Servers : took[s] = {"success"}
                            \/ \A s \in Servers : "failed" \notin took[s]
                       /\ \A s \in Servers : merged[s] = "success" <=> took[s] = {"success"}
    BY DEF OutcomeIsTrue
  <2>1. ASSUME NEW s \in Servers
        PROVE  /\ merged[s] = "success" <=> took[s] = {"success"}
               /\ merged[s] = "failed" <=> "failed" \in took[s]
    <3>1. took[s] \subseteq {"success", "skipped", "failed"}
      BY DEF IInv, TypeOK, FoldStands, Result
    <3>2. \/ merged[s] = "none" /\ took[s] = {}
          \/ /\ merged[s] \in took[s]
             /\ \A r \in took[s] : Severity[r] <= Severity[merged[s]]
      BY DEF IInv, FoldStands
    <3>. QED  BY <3>1, <3>2 DEF Severity
  <2>. QED  BY <2>1 DEF Outcome
<1>. QED  BY Invariance, <1>1, PTL

(* Update, Finish: a job that has an outcome keeps it, unless it is        *)
(* removed with its row.                                                   *)
THEOREM OutcomesAreFinal == Spec => OutcomeIsFinal
<1>1. IInv /\ [Next]_vars =>
        \A i \in Ids : Finished(i) => rows'[i] \in {rows[i], NoRow}
  <2>. SUFFICES ASSUME IInv, [Next]_vars, NEW i \in Ids, Finished(i)
                PROVE  rows'[i] \in {rows[i], NoRow}
    OBVIOUS
  <2>0. /\ TypeOK /\ RowsKnown /\ CurKnown /\ rows \in [Ids -> Row]
        /\ made \in 0..MaxJobs /\ batch \subseteq Due
    BY DEF IInv, TypeOK
  <2>. USE <2>0, SchedulerAssumption DEF Finished, Ids
  <2>1. CASE Create
    <3>1. rows[made + 1].status = "none"
      BY <2>1 DEF Create, RowsKnown
    <3>. QED  BY <2>1, <3>1 DEF Create, SetRow
  <2>2. CASE \E k \in Ids : Update(k) \/ Cancel(k)
    BY <2>2 DEF Update, Cancel, SetRow
  <2>3. CASE \E x \in Targets : DeleteTarget(x)
    BY <2>3 DEF DeleteTarget
  <2>4. CASE Reset
    BY <2>4 DEF Reset, IsRunning
  <2>5. CASE \E j \in batch : Claim(j)
    BY <2>5 DEF Claim, SetRow
  <2>6. CASE Finish
    BY <2>6 DEF Finish, SetRow, IsRunning
  <2>7. CASE Elsewhere
    BY <2>7, ElsewhereKeeps
  <2>. QED  BY <2>1, <2>2, <2>3, <2>4, <2>5, <2>6, <2>7
            DEF Next, Operators, Run, Elsewhere
<1>. QED  BY Invariance, <1>1, PTL DEF Spec, OutcomeIsFinal

(* runDue, "oldest first": a job starts only when no pending job with an   *)
(* earlier time is left, except one the database refused to hand over.     *)
THEOREM OldestJobsFirst == Spec => OldestFirst
<1>1. IInv /\ [Next]_vars =>
        \A i, k \in Ids :
          /\ began'[i] # began[i]
          /\ rows[k].status = "pending" /\ k # i
          => \/ Before(cur', [id |-> k, at |-> rows[k].at])
             \/ k \in missed
  <2>. SUFFICES ASSUME IInv, [Next]_vars, NEW i \in Ids, NEW k \in Ids,
                       began'[i] # began[i], rows[k].status = "pending", k # i
                PROVE  Before(cur', [id |-> k, at |-> rows[k].at]) \/ k \in missed
    OBVIOUS
  <2>0. TypeOK /\ BatchKnown /\ batch \subseteq Due /\ began \in [Ids -> Nat]
    BY DEF IInv, TypeOK
  <2>1. \E j \in batch : Claim(j)
    <3>1. Elsewhere => UNCHANGED began
      BY ElsewhereKeeps
    <3>2. Operators \/ Reset \/ Finish => UNCHANGED began
      BY DEF Operators, Create, Update, Cancel, DeleteTarget, Reset, Finish, history
    <3>. QED  BY <3>1, <3>2 DEF Next, Run, Elsewhere
  <2>2. PICK j \in batch : Claim(j)
    BY <2>1
  <2>3. j.id = i /\ cur' = j
    BY <2>0, <2>2 DEF Claim, Due
  <2>4. CASE \E m \in batch : m.id = k /\ m.at = rows[k].at
    <3>1. PICK m \in batch : m.id = k /\ m.at = rows[k].at
      BY <2>4
    <3>2. Before(j, m)
      BY <2>2, <2>3, <3>1 DEF Claim, Oldest
    <3>. QED  BY <2>3, <3>1, <3>2 DEF Before
  <2>. QED  BY <2>0, <2>3, <2>4 DEF BatchKnown, NothingOlderForgotten
<1>. QED  BY Invariance, <1>1, PTL DEF Spec, OldestFirst
=============================================================================
