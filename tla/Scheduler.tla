------------------------------- MODULE Scheduler -------------------------------
(***************************************************************************)
(* Scheduled changes: the table of jobs, the operators who create, edit    *)
(* and cancel them, and the one goroutine that claims the jobs whose time  *)
(* has come, applies them and stores how they went, in a panel that stops  *)
(* and starts again over a database that may refuse a statement.           *)
(*                                                                         *)
(* What a job does to a server is ServerFile's matter.  Here an            *)
(* application is the report it answers with, or the error.                *)
(***************************************************************************)
EXTENDS Integers, FiniteSets

CONSTANTS
  MaxJobs,    \* bound: jobs ever created; identifiers are never reused
  MaxTime,    \* bound: the clock
  MaxFaults,  \* bound: crashes and refused statements
  Servers,
  Reports,    \* what an application may answer with
  Targets,    \* servers and groups a job may name
  Requests,   \* what an operator may ask for
  Nothing     \* the request of a row that does not exist

Ids == 1..MaxJobs

(* What a row carries besides its time and status.  The stored operation   *)
(* of another version of the panel may be unreadable.                      *)
Request == [target : Targets,
            kind : {"add", "add_many", "edit", "delete", "unreadable"},
            records : Nat \ {0},
            overwrite : BOOLEAN]

Result == {"none", "success", "skipped", "failed"}

ASSUME SchedulerAssumption ==
  /\ MaxJobs \in Nat /\ MaxTime \in Nat /\ MaxFaults \in Nat
  /\ Reports \subseteq [Servers -> Result]
  /\ Requests \subseteq Request
  /\ Nothing \notin Request

VARIABLES
  rows,       \* scheduled_jobs
  made,       \* the largest identifier handed out
  targets,    \* the servers and groups that still exist
  now,        \* the clock
  pc,         \* where the scheduler goroutine is
  batch,      \* what Due answered and the pass has not reached yet
  cur,        \* the job it is applying, as Due answered it
  left,       \* applications still to make for it
  merged,     \* the reports so far, folded into one result per server
  err,        \* an application, or reading the stored operation, failed
  faults,     \* crashes and refused statements so far
  boots,      \* history: starts of the panel
  began,      \* history: runs of each job
  trail,      \* audit rows of runs, by job
  took,       \* history: the results of each server in this run
  cancelled,  \* history: jobs an operator was told are cancelled
  lost,       \* history: jobs left running by a statement that failed
  missed      \* history: jobs of this pass whose claim failed

table   == <<rows, made, targets>>
run     == <<cur, left, merged, err, took>>
history == <<boots, began, trail, cancelled, lost, missed>>
vars    == <<table, now, pc, batch, run, faults, history>>

-----------------------------------------------------------------------------
NoRow == [status |-> "none", request |-> Nothing, at |-> 0]

Status == {"none", "pending", "running", "done", "failed"}
Row == [status : Status, request : Requests \cup {Nothing}, at : 0..MaxTime]
Due == [id : Ids, request : Requests, at : 0..MaxTime]
NoJob  == [id |-> 0, request |-> Nothing, at |-> 0]

Unheard == [s \in Servers |-> "none"]

Running == {"apply", "finish", "audit"}
Point == {"down", "reset", "due", "pass", "wait"} \cup Running

TypeOK ==
  /\ rows \in [Ids -> Row]
  /\ made \in 0..MaxJobs
  /\ targets \subseteq Targets
  /\ now \in 0..MaxTime
  /\ pc \in Point
  /\ batch \subseteq Due
  /\ cur \in Due \cup {NoJob}
  /\ left \in Nat
  /\ merged \in [Servers -> Result]
  /\ err \in {"nil", "error"}
  /\ faults \in 0..MaxFaults
  /\ boots \in Nat
  /\ began \in [Ids -> Nat]
  /\ trail \in [Ids -> Nat]
  /\ took \in [Servers -> SUBSET Result]
  /\ cancelled \subseteq Ids
  /\ lost \subseteq Ids
  /\ missed \subseteq Ids

Init ==
  /\ rows = [i \in Ids |-> NoRow] /\ made = 0 /\ targets = Targets
  /\ now = 0
  /\ pc = "down" /\ batch = {}
  /\ cur = NoJob /\ left = 0 /\ merged = Unheard /\ err = "nil"
  /\ took = [s \in Servers |-> {}]
  /\ faults = 0
  /\ boots = 0
  /\ began = [i \in Ids |-> 0] /\ trail = [i \in Ids |-> 0]
  /\ cancelled = {} /\ lost = {} /\ missed = {}

-----------------------------------------------------------------------------
(* Helpers. *)

Goto(p) == pc' = p
SetRow(i, r) == rows' = [rows EXCEPT ![i] = r]
WithStatus(r, st) == [status |-> st, request |-> r.request, at |-> r.at]
Finished(i) == rows[i].status \in {"done", "failed"}
IsRunning(i) == rows[i].status = "running"
Up == pc # "down"

(* A statement that fails, and the panel that stops. *)
Disturb ==
  /\ faults < MaxFaults
  /\ faults' = faults + 1

Before(j, k) == j.at < k.at \/ (j.at = k.at /\ j.id < k.id)

(* A pending job whose time has come. *)
IsDue(i) == rows[i].status = "pending" /\ rows[i].at <= now
Snapshot(i) == [id |-> i, request |-> rows[i].request, at |-> rows[i].at]

(* applyJob: a batch that overwrites becomes one application per record. *)
Applications(r) == IF r.overwrite /\ r.kind = "add_many" THEN r.records ELSE 1

Unreadable(j) == j.request.kind = "unreadable"

Severity == [none |-> 0, success |-> 1, skipped |-> 2, failed |-> 3]

(* mergeReports: the worst result of a server stands. *)
Merge(m, r) ==
  [s \in Servers |-> IF Severity[r[s]] > Severity[m[s]] THEN r[s] ELSE m[s]]

(* outcome *)
Outcome ==
  IF err = "error" \/ ((\A s \in Servers : merged[s] # "success")
               /\ (\E s \in Servers : merged[s] = "failed"))
    THEN "failed"
    ELSE "done"

-----------------------------------------------------------------------------
(* The operators. *)

(* storeJob: the form refuses a time that has passed. *)
Create ==
  /\ Up
  /\ made < MaxJobs
  /\ made' = made + 1
  /\ \E r \in Requests, at \in 0..MaxTime :
       /\ at > now
       /\ r.target \in targets
       /\ SetRow(made + 1, [status |-> "pending", request |-> r, at |-> at])
  /\ UNCHANGED <<targets, now, pc, batch, run, faults, history>>

(* updateJob: only a pending row is rewritten. *)
Update(i) ==
  /\ Up
  /\ rows[i].status = "pending"
  /\ \E r \in Requests, at \in 0..MaxTime :
       /\ at > now
       /\ r.target \in targets
       /\ SetRow(i, [status |-> "pending", request |-> r, at |-> at])
  /\ UNCHANGED <<made, targets, now, pc, batch, run, faults, history>>

(* Mutant: a cancel removes whatever row is there. *)
CancelAny(i) ==
  /\ Up
  /\ rows[i].status # "none"
  /\ SetRow(i, NoRow)
  /\ cancelled' = cancelled \cup {i}
  /\ UNCHANGED <<made, targets, now, pc, batch, run, faults, boots, began,
                 trail, lost, missed>>

(* handleScheduledCancel: a running row is refused. *)
Cancel(i) ==
  /\ Up
  /\ rows[i].status \notin {"none", "running"}
  /\ SetRow(i, NoRow)
  /\ cancelled' = cancelled \cup {i}
  /\ UNCHANGED <<made, targets, now, pc, batch, run, faults, boots, began,
                 trail, lost, missed>>

(* ON DELETE CASCADE: the jobs of a server or a group that is deleted go   *)
(* with it, whatever their status.                                         *)
DeleteTarget(x) ==
  /\ Up
  /\ x \in targets
  /\ targets' = targets \ {x}
  /\ rows' = [i \in Ids |->
       IF rows[i].status # "none" /\ rows[i].request.target = x
         THEN NoRow ELSE rows[i]]
  /\ UNCHANGED <<made, now, pc, batch, run, faults, history>>

-----------------------------------------------------------------------------
(* The scheduler goroutine. *)

Boot ==
  /\ pc = "down"
  /\ boots' = boots + 1
  /\ Goto("reset")
  /\ UNCHANGED <<table, now, batch, run, faults, began, trail, cancelled, lost,
                 missed>>

(* Mutant: a job a crash interrupted stays as it is. *)
ResetNothing ==
  /\ pc = "reset"
  /\ Goto("due")
  /\ UNCHANGED <<table, now, batch, run, faults, history>>

(* ResetRunning; a statement that fails is only logged. *)
Reset ==
  /\ pc = "reset"
  /\ \/ /\ rows' = [i \in Ids |->
             IF IsRunning(i) THEN WithStatus(rows[i], "pending")
                             ELSE rows[i]]
        /\ lost' = {}
        /\ UNCHANGED faults
     \/ /\ Disturb
        /\ lost' = {i \in Ids : IsRunning(i)}
        /\ UNCHANGED rows
  /\ Goto("due")
  /\ UNCHANGED <<made, targets, now, batch, run, boots, began, trail,
                 cancelled, missed>>

(* Mutants: a pass takes up the jobs left running as well; a pass reads    *)
(* one job only, the first by identifier.                                  *)
ReadDueAndRunning ==
  /\ pc = "due"
  /\ batch' = {Snapshot(i) : i \in {k \in Ids : IsDue(k) \/ IsRunning(k)}}
  /\ rows' = [i \in Ids |->
       IF IsRunning(i) THEN WithStatus(rows[i], "pending") ELSE rows[i]]
  /\ missed' = {}
  /\ Goto("pass")
  /\ UNCHANGED <<made, targets, now, run, faults, boots, began, trail,
                 cancelled, lost>>
ReadDueById ==
  /\ pc = "due"
  /\ batch' = {Snapshot(i) : i \in {k \in Ids :
                 IsDue(k) /\ \A m \in Ids : IsDue(m) => k <= m}}
  /\ missed' = {}
  /\ Goto("pass")
  /\ UNCHANGED <<table, now, run, faults, boots, began, trail, cancelled, lost>>

ReadDue ==
  /\ pc = "due"
  /\ missed' = {}
  /\ \/ /\ batch' = {Snapshot(i) : i \in {k \in Ids : IsDue(k)}}
        /\ Goto("pass")
        /\ UNCHANGED faults
     \/ /\ Disturb
        /\ Goto("wait")
        /\ UNCHANGED batch
  /\ UNCHANGED <<table, now, run, boots, began, trail, cancelled, lost>>

(* The oldest job the pass has not reached. *)
Oldest(j) == j \in batch /\ \A k \in batch : k = j \/ Before(j, k)

(* Claim moves a pending row to running; the job that runs is the one Due  *)
(* answered.                                                               *)
Claim(j) ==
  /\ pc = "pass" /\ Oldest(j)
  /\ rows[j.id].status = "pending"
  /\ batch' = batch \ {j}
  /\ cur' = j
  /\ left' = Applications(j.request)
  /\ err' = IF Unreadable(j) THEN "error" ELSE "nil"
  /\ SetRow(j.id, WithStatus(rows[j.id], "running"))
  /\ began' = [began EXCEPT ![j.id] = @ + 1]
  /\ Goto(IF Unreadable(j) THEN "finish" ELSE "apply")
  /\ UNCHANGED <<made, targets, now, merged, took, faults, boots, trail,
                 cancelled, lost, missed>>

(* Mutant: a job that could not be claimed is tried again at once. *)
NotClaimedRetries(j) ==
  /\ pc = "pass" /\ Oldest(j)
  /\ \/ rows[j.id].status # "pending" /\ UNCHANGED <<faults, missed>>
     \/ Disturb /\ missed' = missed \cup {j.id}
  /\ UNCHANGED <<table, now, pc, batch, run, boots, began, trail, cancelled, lost>>

(* The row has left pending, or the statement failed. *)
NotClaimed(j) ==
  /\ pc = "pass" /\ Oldest(j)
  /\ batch' = batch \ {j}
  /\ \/ rows[j.id].status # "pending" /\ UNCHANGED <<faults, missed>>
     \/ Disturb /\ missed' = missed \cup {j.id}
  /\ UNCHANGED <<table, now, pc, run, boots, began, trail, cancelled, lost>>

EndPass ==
  /\ pc = "pass" /\ batch = {}
  /\ Goto("wait")
  /\ UNCHANGED <<table, now, batch, run, faults, history>>

Timer ==
  /\ pc = "wait"
  /\ Goto("due")
  /\ UNCHANGED <<table, now, batch, run, faults, history>>

(* One application answers with a result for every server it reached. *)
Applied ==
  /\ pc = "apply"
  /\ cur.request.target \in targets
  /\ \E r \in Reports :
       /\ merged' = Merge(merged, r)
       /\ took' = [s \in Servers |-> took[s] \cup ({r[s]} \ {"none"})]
  /\ left' = left - 1
  /\ Goto(IF left = 1 THEN "finish" ELSE "apply")
  /\ UNCHANGED <<table, now, batch, cur, err, faults, history>>

(* An application that fails drops the reports before it. *)
ApplyFails ==
  /\ pc = "apply"
  /\ err' = "error" /\ merged' = Unheard
  /\ left' = 0
  /\ Goto("finish")
  /\ UNCHANGED <<table, now, batch, cur, took, faults, history>>

(* Finish closes a running row only; a row that is gone, or a statement    *)
(* that fails, is only logged.                                             *)
Finish ==
  /\ pc = "finish"
  /\ \/ /\ IsRunning(cur.id)
        /\ SetRow(cur.id, WithStatus(rows[cur.id], Outcome))
        /\ UNCHANGED <<faults, lost>>
     \/ /\ ~ IsRunning(cur.id)
        /\ UNCHANGED <<rows, faults, lost>>
     \/ /\ Disturb
        /\ lost' = lost \cup {cur.id}
        /\ UNCHANGED rows
  /\ Goto("audit")
  /\ UNCHANGED <<made, targets, now, batch, run, boots, began, trail,
                 cancelled, missed>>

Forget ==
  /\ cur' = NoJob /\ left' = 0 /\ merged' = Unheard /\ err' = "nil"
  /\ took' = [s \in Servers |-> {}]

(* Mutant: a run that failed leaves no audit row. *)
AuditDone ==
  /\ pc = "audit"
  /\ trail' = [trail EXCEPT ![cur.id] = @ + (IF Outcome = "done" THEN 1 ELSE 0)]
  /\ Forget
  /\ Goto("pass")
  /\ UNCHANGED <<table, now, batch, faults, boots, began, cancelled, lost, missed>>

(* The audit row of the run; one that cannot be written is only logged. *)
Audit ==
  /\ pc = "audit"
  /\ \/ trail' = [trail EXCEPT ![cur.id] = @ + 1] /\ UNCHANGED faults
     \/ UNCHANGED trail /\ Disturb
  /\ Forget
  /\ Goto("pass")
  /\ UNCHANGED <<table, now, batch, boots, began, cancelled, lost, missed>>

-----------------------------------------------------------------------------
Tick ==
  /\ now < MaxTime
  /\ now' = now + 1
  /\ UNCHANGED <<table, pc, batch, run, faults, history>>

(* The panel stops, also in the middle of a run.  A shutdown cancels the   *)
(* context of the goroutine, and the statements after it fail with it.     *)
Crash ==
  /\ Up
  /\ Disturb
  /\ Goto("down")
  /\ batch' = {} /\ lost' = {} /\ missed' = {}
  /\ Forget
  /\ UNCHANGED <<table, now, boots, began, trail, cancelled>>

Operators ==
  \/ Create
  \/ \E i \in Ids : Update(i) \/ Cancel(i)
  \/ \E x \in Targets : DeleteTarget(x)

(* runDue and run *)
Run ==
  \/ Reset \/ ReadDue \/ EndPass \/ Timer
  \/ \E j \in batch : Claim(j) \/ NotClaimed(j)
  \/ Applied \/ ApplyFails \/ Finish \/ Audit

Next == Operators \/ Boot \/ Run \/ Tick \/ Crash

(* The goroutine runs while the panel does, and a panel that stopped is    *)
(* started again.  Nobody has to schedule anything.                        *)
Spec == Init /\ [][Next]_vars /\ WF_vars(Boot) /\ WF_vars(Run)

-----------------------------------------------------------------------------
(* Properties. *)

(* Schedule.Delete: a job an operator was told is cancelled is not applied *)
(* afterwards, "removing the row mid-run would let the change land while   *)
(* the operator was told it was cancelled".                                *)
CancelledIsNotApplied ==
  pc \in {"apply", "finish"} => cur.id \notin cancelled

(* ResetRunning: a row says running while the goroutine applies it, while  *)
(* the panel is down, or because the database refused to close it.         *)
RunningIsBeingApplied ==
  \A i \in Ids : IsRunning(i) =>
    pc \in {"down", "reset"} \/ (pc \in Running /\ cur.id = i) \/ i \in lost

(* Claim, ResetRunning: a job runs at most once per start of the panel,    *)
(* and it never runs again once its outcome is stored.                     *)
RunsOncePerBoot ==
  \A i \in Ids :
    /\ began[i] <= boots
    /\ Finished(i) => ~ (pc = "apply" /\ cur.id = i)

(* Update, Finish: a job that has an outcome keeps it, unless it is        *)
(* removed with its row.                                                   *)
OutcomeIsFinal ==
  [][\A i \in Ids : Finished(i) => rows'[i] \in {rows[i], NoRow}]_vars

(* runDue, "oldest first": a job starts only when no pending job with an   *)
(* earlier time is left, except one the database refused to hand over.     *)
OldestFirst ==
  [][\A i, k \in Ids :
       /\ began'[i] # began[i]
       /\ rows[k].status = "pending" /\ k # i
       => \/ Before(cur', [id |-> k, at |-> rows[k].at])
          \/ k \in missed]_vars

(* outcome, mergeReports: a job is done only when some server took every   *)
(* record of it or no server failed any, and the results that count as a   *)
(* success are of servers that took them all.                              *)
OutcomeIsTrue ==
  pc \in {"finish", "audit"} /\ err = "nil" =>
    /\ Outcome = "done" <=> \/ \E s \in Servers : took[s] = {"success"}
                            \/ \A s \in Servers : "failed" \notin took[s]
    /\ \A s \in Servers : merged[s] = "success" <=> took[s] = {"success"}

(* finish: every run leaves its audit row, and no row claims another.      *)
EveryRunIsAudited ==
  \A i \in Ids :
    /\ trail[i] <= began[i]
    /\ faults = 0 => began[i] - trail[i] =
         IF pc \in Running /\ cur.id = i THEN 1 ELSE 0

(* Start: a job whose time has passed runs, also when the panel was down   *)
(* or a statement failed when it came.                                     *)
DueJobsRun == \A i \in Ids : IsDue(i) ~> ~ IsDue(i)

(* Start, ResetRunning: a job a crash interrupted is taken up again.       *)
InterruptedJobsRunAgain ==
  \A i \in Ids : IsRunning(i) ~> (~ IsRunning(i) \/ i \in lost)

=============================================================================
