------------------------------ MODULE ServerFile ------------------------------
(***************************************************************************)
(* The records file of one managed server and everything in the panel that *)
(* touches it: changes (Writer.Apply), restores (Writer.RestoreFile),      *)
(* reloads (Writer.Reload) and refreshes (Refresher.One and All), run by   *)
(* concurrent goroutines that share one mutex per server, against a target *)
(* somebody also edits by hand, over calls that fail and calls that go on  *)
(* on the target after the panel gave them up.  Servers share nothing but  *)
(* the fan-out slots, so one server is the whole story here.               *)
(*                                                                         *)
(* A digest is modelled by the content it is the digest of, and the empty  *)
(* digest of a server nobody has read by None.                             *)
(***************************************************************************)
EXTENDS RecordOps, Integers

CONSTANTS
  Workers,        \* goroutines that serve requests and scheduled jobs
  Timers,         \* goroutines that only run the timed refresh pass
  None,           \* no digest, no stored copy
  NoTask,         \* the mutex is free
  NoOp,           \* the goroutine runs no operation
  Ops,            \* the operations requests ask for
  FirstFiles,     \* the files a server may hold when the panel first sees it
  Loadable,       \* the files the resolver accepts
  HasCheck,       \* the server record names a configuration check
  Commands,       \* the rungs of the reload ladder it names commands for
  FirstIncluded,  \* the resolver already includes the records file
  Faults,         \* the kinds of disturbance that happen
  MaxStarts,      \* bound: jobs the workers start
  MaxFaults       \* bound: disturbances

Tasks == Workers \cup Timers
FaultKind == {"call", "cancel", "edit", "crash", "late"}

ASSUME ServerFileAssumption ==
  /\ Workers \cap Timers = {}
  /\ None \notin Content
  /\ NoTask \notin Tasks
  /\ NoOp \notin Operation
  /\ Ops \subseteq Operation
  /\ FirstFiles \subseteq Content
  /\ Loadable \subseteq Content
  /\ HasCheck \in BOOLEAN
  /\ Commands \subseteq 1..3
  /\ FirstIncluded \in BOOLEAN
  /\ Faults \subseteq FaultKind
  /\ MaxStarts \in Nat
  /\ MaxFaults \in Nat

VARIABLES
  file,       \* the records file on the target
  included,   \* its main configuration includes the records file
  loaded,     \* what the resolver has read and serves
  up,         \* the resolver is running
  late,       \* contents of given up writes that may still reach the file
  cache,      \* record_cache
  fetched,    \* server_state.file_sha256
  applied,    \* server_state.applied_sha256
  reachable,  \* server_state.reachable
  backup,     \* file_backups
  trail,      \* audit rows of changes and restores
  lock,       \* who holds the mutex of this server
  pc,         \* where each goroutine is
  kind,       \* the job it runs
  op,         \* the operation of a change
  snap,       \* the content it read before changing anything
  seen,       \* the content of its latest read, which is the digest it sends
  want,       \* the content it sends
  gone,       \* its request context is cancelled
  rung,       \* the rung of the ladder it is on
  started,    \* jobs the workers have started
  faults,     \* disturbances so far
  touched,    \* history: changed by hand or by a given up write since the
              \* holder last looked
  entry,      \* history: what was there when the mutex was taken
  changes     \* history: changes put on the file and not rolled back, by
              \* moves whose goroutine still held the mutex

remote   == <<file, included, loaded, up, late>>
database == <<cache, fetched, applied, reachable, backup, trail>>
process  == <<lock, pc, kind, op, snap, seen, want, gone, rung>>
history  == <<touched, entry, changes>>
vars     == <<remote, database, process, started, faults, history>>

job == <<kind, op, gone, started>>

-----------------------------------------------------------------------------
(* Control points. *)

ChangeAt == {"include", "read", "compare", "move", "check", "undoRead",
             "undoCompare", "undoMove", "keep"}
RefillAt == {"pull", "store", "state", "mark"}
LadderAt == {"rung", "settle"}
Ended    == {"ok", "failed", "skipped"}
Inside   == ChangeAt \cup RefillAt \cup LadderAt \cup Ended
Point    == {"idle", "queued"} \cup Inside

FirstStep == [change |-> "include", restore |-> "include",
              reload |-> "rung", refresh |-> "pull"]

JobKind == {"change", "restore", "reload", "refresh"}

RemoteType ==
  /\ file \in Content /\ loaded \in Content
  /\ included \in BOOLEAN /\ up \in BOOLEAN
  /\ late \subseteq Content

DatabaseType ==
  /\ cache \in Content
  /\ fetched \in Content \cup {None}
  /\ applied \in Content \cup {None}
  /\ reachable \in BOOLEAN
  /\ backup \in Content \cup {None}
  /\ trail \in Int

ProcessType ==
  /\ lock \in Tasks \cup {NoTask}
  /\ pc \in [Tasks -> Point]
  /\ kind \in [Tasks -> JobKind]
  /\ op \in [Tasks -> Ops \cup {NoOp}]
  /\ snap \in [Tasks -> Content]
  /\ seen \in [Tasks -> Content]
  /\ want \in [Tasks -> Content]
  /\ gone \in [Tasks -> BOOLEAN]
  /\ rung \in [Tasks -> 1..4]

HistoryType ==
  /\ started \in 0..MaxStarts
  /\ faults \in 0..MaxFaults
  /\ touched \in BOOLEAN
  /\ entry \in [file : Content, backup : Content \cup {None}, faults : Nat]
  /\ changes \in Int

TypeOK == RemoteType /\ DatabaseType /\ ProcessType /\ HistoryType

NoEntry == [file |-> {}, backup |-> None, faults |-> 0]

Init ==
  /\ file \in FirstFiles
  /\ included = FirstIncluded
  /\ loaded = IF FirstIncluded THEN file ELSE {}
  /\ up = TRUE /\ late = {}
  /\ cache = {} /\ fetched = None /\ applied = None /\ reachable = FALSE
  /\ backup = None /\ trail = 0
  /\ lock = NoTask
  /\ pc = [t \in Tasks |-> "idle"]
  /\ kind = [t \in Tasks |-> "refresh"]
  /\ op = [t \in Tasks |-> NoOp]
  /\ snap = [t \in Tasks |-> {}]
  /\ seen = [t \in Tasks |-> {}]
  /\ want = [t \in Tasks |-> {}]
  /\ gone = [t \in Tasks |-> FALSE]
  /\ rung = [t \in Tasks |-> 1]
  /\ started = 0 /\ faults = 0
  /\ touched = FALSE
  /\ entry = NoEntry
  /\ changes = 0

-----------------------------------------------------------------------------
(* Helpers. *)

At(t, p) == pc[t] = p
Goto(t, p) == pc' = [pc EXCEPT ![t] = p]

Disturb(f) ==
  /\ f \in Faults
  /\ faults < MaxFaults
  /\ faults' = faults + 1

(* The refill that follows a change runs on a context of its own           *)
(* (afterChange); a refresh that a request asked for runs on the request's.*)
Cancelled(t) == gone[t] /\ (kind[t] = "refresh" \/ pc[t] \notin RefillAt)

(* A remote call or a database call that answers, and one that does not.   *)
Answers(t) == ~ Cancelled(t) /\ UNCHANGED faults
Fails(t) ==
  \/ Cancelled(t) /\ UNCHANGED faults
  \/ ~ Cancelled(t) /\ Disturb("call")

(* A write that is given up, and may be on its way to the file. *)
MayOutlive(t) == late' \in {late, late \cup {want[t]}}

(* What the resolver makes of the file where it stands. *)
Loads == included => file \in Loadable
Served == IF included THEN file ELSE {}

-----------------------------------------------------------------------------
(* A job arrives.  What it captures before the mutex is captured here: a   *)
(* restore reads the stored copy before it waits for the server.           *)

Start(t, k) ==
  /\ At(t, "idle")
  /\ \/ t \in Workers /\ started < MaxStarts /\ started' = started + 1
     \/ t \in Timers /\ k = "refresh" /\ UNCHANGED started
  /\ Goto(t, "queued")
  /\ kind' = [kind EXCEPT ![t] = k]
  /\ UNCHANGED <<remote, database, history, lock, snap, seen, gone, rung, faults>>

Apply(t) ==
  /\ Start(t, "change")
  /\ \E o \in Ops : op' = [op EXCEPT ![t] = o]
  /\ UNCHANGED want

RestoreFile(t) ==
  /\ Start(t, "restore")
  /\ backup # None
  /\ want' = [want EXCEPT ![t] = backup]
  /\ UNCHANGED op

Reload(t) == Start(t, "reload") /\ UNCHANGED <<op, want>>

Refresh(t) == Start(t, "refresh") /\ UNCHANGED <<op, want>>

(* Mutant: the refresher and the writer each have a mutex of their own. *)
AcquireUnguarded(t) ==
  /\ At(t, "queued")
  /\ lock' = t
  /\ Goto(t, FirstStep[kind[t]])
  /\ entry' = [file |-> file, backup |-> backup, faults |-> faults]
  /\ UNCHANGED <<remote, database, job, snap, seen, want, rung, faults,
                 touched, changes>>

(* lock.Lock() *)
Acquire(t) ==
  /\ At(t, "queued")
  /\ lock = NoTask
  /\ lock' = t
  /\ Goto(t, FirstStep[kind[t]])
  /\ entry' = [file |-> file, backup |-> backup, faults |-> faults]
  /\ UNCHANGED <<remote, database, job, snap, seen, want, rung, faults,
                 touched, changes>>

-----------------------------------------------------------------------------
(* A change and a restore. *)

(* ensureInclude: a failure does not stop the change. *)
EnsureInclude(t) ==
  /\ At(t, "include")
  /\ \/ Answers(t) /\ included' = TRUE
     \/ Fails(t) /\ included' \in {included, TRUE}
  /\ Goto(t, "read")
  /\ UNCHANGED <<file, loaded, up, late, database, lock, job, snap, seen, want,
                 rung, history>>

(* client.ReadRecords answers, and what it read becomes both the previous  *)
(* file and the digest the write sends back.                               *)
Look(t) ==
  /\ At(t, "read")
  /\ Answers(t)
  /\ snap' = [snap EXCEPT ![t] = file]
  /\ seen' = [seen EXCEPT ![t] = file]
  /\ touched' = FALSE
  /\ UNCHANGED <<remote, database, lock, job, rung, entry, changes>>

ReadAllows(t) ==
  /\ kind[t] = "change"
  /\ Allowed(op[t], file)
  /\ Look(t)
  /\ want' = [want EXCEPT ![t] = After(op[t], file)]
  /\ Goto(t, "compare")

ReadRefuses(t) ==
  /\ kind[t] = "change"
  /\ ~ Allowed(op[t], file)
  /\ Look(t)
  /\ Goto(t, IF AlreadyInPlace(op[t], file) THEN "skipped" ELSE "failed")
  /\ UNCHANGED want

ReadForRestore(t) ==
  /\ kind[t] = "restore"
  /\ Look(t)
  /\ Goto(t, IF file = want[t] THEN "skipped" ELSE "keep")
  /\ UNCHANGED want

ReadFails(t) ==
  /\ At(t, "read")
  /\ Fails(t)
  /\ Goto(t, "failed")
  /\ UNCHANGED <<remote, database, lock, job, snap, seen, want, rung, history>>

(* Mutant: the digest that came with the change is not compared. *)
CompareNothing(t) ==
  /\ \E undo \in BOOLEAN :
       /\ At(t, IF undo THEN "undoCompare" ELSE "compare")
       /\ Answers(t)
       /\ touched' = FALSE
       /\ Goto(t, IF undo THEN "undoMove" ELSE "move")
  /\ UNCHANGED <<remote, database, lock, job, snap, seen, want, rung, entry, changes>>

(* WriteRecords reads the target again and refuses a digest that moved.    *)
(* A change and the rollback of one both go through it.  Towards an agent  *)
(* this is the beginning of the one request that also replaces the file,   *)
(* so a write given up here may be on its way.                             *)
Compare(t) ==
  /\ \E undo \in BOOLEAN :
       /\ At(t, IF undo THEN "undoCompare" ELSE "compare")
       /\ \/ /\ Answers(t)
             /\ file = seen[t]
             /\ touched' = FALSE
             /\ Goto(t, IF undo THEN "undoMove" ELSE "move")
             /\ UNCHANGED late
          \/ /\ file # seen[t] /\ Answers(t)
             /\ Goto(t, "failed")
             /\ UNCHANGED <<late, touched>>
          \/ /\ Fails(t) /\ MayOutlive(t)
             /\ Goto(t, "failed")
             /\ UNCHANGED touched
  /\ UNCHANGED <<file, included, loaded, up, database, lock, job, snap, seen,
                 want, rung, entry, changes>>

(* The temporary file is moved over the records file. *)
Replace(t) ==
  /\ file' = want[t]
  /\ touched' = FALSE
  /\ changes' = IF At(t, "move") THEN changes + 1 ELSE changes - 1

Moved(t) ==
  /\ pc[t] \in {"move", "undoMove"}
  /\ Answers(t)
  /\ Replace(t)
  /\ Goto(t, CASE At(t, "undoMove") -> "failed"
               [] At(t, "move") /\ kind[t] = "change" -> "check"
               [] At(t, "move") /\ kind[t] # "change" -> "pull")
  /\ UNCHANGED <<included, loaded, up, late, database, lock, job, snap, seen,
                 want, rung, entry>>

(* An answer that never came says nothing about whether the move ran, nor  *)
(* whether it still will: the call returns, and what it started on the     *)
(* target may go on.                                                       *)
MoveFails(t) ==
  /\ pc[t] \in {"move", "undoMove"}
  /\ Fails(t)
  /\ \/ Replace(t) /\ UNCHANGED late
     \/ MayOutlive(t) /\ UNCHANGED <<file, touched, changes>>
  /\ Goto(t, "failed")
  /\ UNCHANGED <<included, loaded, up, database, lock, job, snap, seen, want,
                 rung, entry>>

CheckSkipped(t) ==
  /\ At(t, "check")
  /\ ~ HasCheck
  /\ Goto(t, "keep")
  /\ UNCHANGED <<remote, database, lock, job, snap, seen, want, rung, faults,
                 history>>

CheckAccepts(t) ==
  /\ At(t, "check")
  /\ HasCheck /\ Loads
  /\ Answers(t)
  /\ Goto(t, "keep")
  /\ UNCHANGED <<remote, database, lock, job, snap, seen, want, rung, history>>

(* Mutant: a restore point saved before the check has answered.            *)
CheckAfterKeep(t) ==
  /\ At(t, "check") /\ HasCheck
  /\ (~ Loads /\ Answers(t)) \/ Fails(t)
  /\ backup' = snap[t]
  /\ Goto(t, "undoRead")
  /\ UNCHANGED <<remote, cache, fetched, applied, reachable, trail, lock, job,
                 snap, seen, want, rung, history>>

(* A check that could not run at all is refused the same way. *)
CheckRefuses(t) ==
  /\ At(t, "check")
  /\ HasCheck
  /\ (~ Loads /\ Answers(t)) \/ Fails(t)
  /\ Goto(t, "undoRead")
  /\ UNCHANGED <<remote, database, lock, job, snap, seen, want, rung, history>>

(* Mutant: the rollback sends the refused file once more. *)
UndoWithTheChange(t) ==
  /\ At(t, "undoRead")
  /\ Answers(t)
  /\ seen' = [seen EXCEPT ![t] = file]
  /\ touched' = FALSE
  /\ Goto(t, "undoCompare")
  /\ UNCHANGED <<remote, database, lock, job, snap, want, rung, entry, changes>>

(* The rollback takes the digest of what the target holds now. *)
UndoRead(t) ==
  /\ At(t, "undoRead")
  /\ \/ /\ Answers(t)
        /\ seen' = [seen EXCEPT ![t] = file]
        /\ want' = [want EXCEPT ![t] = snap[t]]
        /\ touched' = FALSE
        /\ Goto(t, "undoCompare")
     \/ /\ Fails(t)
        /\ Goto(t, "failed")
        /\ UNCHANGED <<seen, want, touched>>
  /\ UNCHANGED <<remote, database, lock, job, snap, rung, entry, changes>>

(* Mutant: the file just written is stored as the previous one. *)
KeepWritten(t) ==
  /\ At(t, "keep")
  /\ Answers(t) /\ backup' = want[t]
  /\ Goto(t, IF kind[t] = "change" THEN "pull" ELSE "compare")
  /\ UNCHANGED <<remote, cache, fetched, applied, reachable, trail, lock, job,
                 snap, seen, want, rung, history>>

(* keepPrevious: a copy that cannot be stored is only logged. *)
KeepPrevious(t) ==
  /\ At(t, "keep")
  /\ \/ Answers(t) /\ backup' = snap[t]
     \/ Fails(t) /\ UNCHANGED backup
  /\ Goto(t, IF kind[t] = "change" THEN "pull" ELSE "compare")
  /\ UNCHANGED <<remote, cache, fetched, applied, reachable, trail, lock, job,
                 snap, seen, want, rung, history>>

-----------------------------------------------------------------------------
(* The refill: Refresher.refresh inside the same critical section. *)

(* A refill that fails does not undo the change it follows. *)
GiveUp(t) == Goto(t, IF kind[t] = "refresh" THEN "failed" ELSE "ok")

(* Mutant: a digest the panel already knows is not stored again. *)
PullOnlyNews(t) ==
  /\ At(t, "pull")
  /\ \/ /\ Answers(t)
        /\ seen' = [seen EXCEPT ![t] = file]
        /\ touched' = FALSE
        /\ Goto(t, IF fetched = file THEN "ok" ELSE "store")
        /\ UNCHANGED reachable
     \/ /\ Fails(t)
        /\ reachable' \in IF Cancelled(t) THEN {reachable} ELSE {FALSE}
        /\ GiveUp(t)
        /\ UNCHANGED <<seen, touched>>
  /\ UNCHANGED <<remote, cache, fetched, applied, backup, trail, lock, job,
                 snap, want, rung, entry, changes>>

Pull(t) ==
  /\ At(t, "pull")
  /\ \/ /\ Answers(t)
        /\ seen' = [seen EXCEPT ![t] = file]
        /\ touched' = FALSE
        /\ Goto(t, "store")
        /\ UNCHANGED reachable
     \/ /\ Fails(t)
        /\ reachable' \in IF Cancelled(t) THEN {reachable} ELSE {FALSE}
        /\ GiveUp(t)
        /\ UNCHANGED <<seen, touched>>
  /\ UNCHANGED <<remote, cache, fetched, applied, backup, trail, lock, job,
                 snap, want, rung, entry, changes>>

(* records.Replace *)
StoreRecords(t) ==
  /\ At(t, "store")
  /\ \/ Answers(t) /\ cache' = seen[t] /\ Goto(t, "state")
     \/ Fails(t) /\ UNCHANGED cache /\ GiveUp(t)
  /\ UNCHANGED <<remote, fetched, applied, reachable, backup, trail, lock, job,
                 snap, seen, want, rung, history>>

(* Mutant: a refill that follows a change marks the file as applied. *)
FetchAndMark(t) ==
  /\ At(t, "state")
  /\ Answers(t)
  /\ fetched' = seen[t] /\ reachable' = TRUE
  /\ Goto(t, IF kind[t] # "refresh" THEN "mark" ELSE "ok")
  /\ UNCHANGED <<remote, cache, applied, backup, trail, lock, job, snap, seen,
                 want, rung, history>>

(* states.SetFetched *)
SetFetched(t) ==
  /\ At(t, "state")
  /\ \/ /\ Answers(t)
        /\ fetched' = seen[t] /\ reachable' = TRUE
        /\ Goto(t, IF kind[t] = "reload" THEN "mark" ELSE "ok")
     \/ /\ Fails(t)
        /\ UNCHANGED <<fetched, reachable>>
        /\ GiveUp(t)
  /\ UNCHANGED <<remote, cache, applied, backup, trail, lock, job, snap, seen,
                 want, rung, history>>

(* recordApplied, after the ladder succeeded *)
MarkApplied(t) ==
  /\ At(t, "mark")
  /\ \/ Answers(t) /\ applied' = seen[t]
     \/ Fails(t) /\ UNCHANGED applied
  /\ Goto(t, "ok")
  /\ UNCHANGED <<remote, cache, fetched, reachable, backup, trail, lock, job,
                 snap, seen, want, rung, history>>

-----------------------------------------------------------------------------
(* A reload: the ladder, climbed until the resolver is running again. *)

NextRung(t) ==
  /\ rung' = [rung EXCEPT ![t] = rung[t] + 1]
  /\ Goto(t, IF rung[t] = 3 THEN "failed" ELSE "rung")

RungSkipped(t) ==
  /\ At(t, "rung")
  /\ rung[t] \notin Commands
  /\ NextRung(t)
  /\ UNCHANGED <<remote, database, lock, job, snap, seen, want, faults, history>>

(* What the target does when the command runs there.  The first two rungs  *)
(* signal a running daemon, which a file it does not accept stops; the     *)
(* third starts one.                                                       *)
Obeys(t) ==
  /\ rung[t] = 3 \/ up
  /\ up' = Loads
  /\ loaded' = IF Loads THEN Served ELSE loaded

RungRuns(t) ==
  /\ At(t, "rung")
  /\ rung[t] \in Commands
  /\ Answers(t)
  /\ Obeys(t)
  /\ Goto(t, "settle")
  /\ UNCHANGED <<file, included, late, database, lock, job, snap, seen, want,
                 rung, history>>

(* A daemon that is down cannot be signalled, and a command whose answer   *)
(* was lost may have run all the same.                                     *)
RungFails(t) ==
  /\ At(t, "rung")
  /\ rung[t] \in Commands
  /\ \/ Answers(t) /\ rung[t] < 3 /\ ~ up /\ UNCHANGED <<up, loaded>>
     \/ Fails(t) /\ (Obeys(t) \/ UNCHANGED <<up, loaded>>)
  /\ NextRung(t)
  /\ UNCHANGED <<file, included, late, database, lock, job, snap, seen, want,
                 history>>

(* The command returned; only a running resolver ends the climb. *)
Settled(t) ==
  /\ At(t, "settle")
  /\ \/ /\ Answers(t) /\ up
        /\ Goto(t, "pull")
        /\ UNCHANGED rung
     \/ /\ (~ up /\ Answers(t)) \/ Fails(t)
        /\ NextRung(t)
  /\ UNCHANGED <<remote, database, lock, job, snap, seen, want, history>>

-----------------------------------------------------------------------------
(* The deferred unlock.  A change or a restore that succeeded leaves its   *)
(* audit row first, on a context of its own.                               *)

EndJob(t) ==
  /\ Goto(t, "idle")
  /\ op' = [op EXCEPT ![t] = NoOp]
  /\ snap' = [snap EXCEPT ![t] = {}]
  /\ seen' = [seen EXCEPT ![t] = {}]
  /\ want' = [want EXCEPT ![t] = {}]
  /\ gone' = [gone EXCEPT ![t] = FALSE]
  /\ rung' = [rung EXCEPT ![t] = 1]
  /\ kind' = [kind EXCEPT ![t] = "refresh"]
  /\ touched' = FALSE
  /\ entry' = NoEntry
  /\ UNCHANGED <<remote, cache, fetched, applied, reachable, backup, started,
                 changes>>

(* Mutant: an audit row for every change and restore, also a failed one. *)
RowForEveryOutcome(t) ==
  IF kind[t] \in {"change", "restore"}
    THEN trail' = trail + 1 /\ UNCHANGED faults
    ELSE UNCHANGED <<trail, faults>>

(* writeAudit, writeRestoreAudit: a row that cannot be written is dropped. *)
WriteRow(t) ==
  IF At(t, "ok") /\ kind[t] \in {"change", "restore"}
    THEN \/ trail' = trail + 1 /\ UNCHANGED faults
         \/ trail' = trail /\ Disturb("call")
    ELSE UNCHANGED <<trail, faults>>

(* Mutant: the early return of a failure forgets the mutex. *)
ReleaseOnSuccess(t) ==
  /\ pc[t] \in Ended
  /\ lock' = IF At(t, "failed") THEN lock ELSE NoTask
  /\ WriteRow(t)
  /\ EndJob(t)

Release(t) ==
  /\ pc[t] \in Ended
  /\ lock' = NoTask
  /\ WriteRow(t)
  /\ EndJob(t)

-----------------------------------------------------------------------------
(* What the panel does not choose. *)

(* The browser goes away, or the deadline of the operation passes. *)
RequestEnds(t) ==
  /\ t \in Workers
  /\ pc[t] \notin {"idle"} \cup Ended
  /\ ~ gone[t]
  /\ Disturb("cancel")
  /\ gone' = [gone EXCEPT ![t] = TRUE]
  /\ UNCHANGED <<remote, database, lock, pc, kind, op, snap, seen, want, rung,
                 started, history>>

(* Somebody on the target edits the file. *)
HandEdit ==
  /\ Disturb("edit")
  /\ file' \in Content \ {file}
  /\ touched' = (lock # NoTask)
  /\ UNCHANGED <<included, loaded, up, late, database, process, started, entry,
                 changes>>

(* A write nobody waits for any more lands, whoever holds the mutex now:   *)
(* mv or the request of an agent went on after its call had returned.  It  *)
(* may land whatever the file holds then; Transport shows how its pieces   *)
(* mix with those of another write.                                        *)
LateMove ==
  /\ Disturb("late")
  /\ \E c \in late :
       /\ file' = c
       /\ late' = late \ {c}
  /\ touched' = (lock # NoTask)
  /\ UNCHANGED <<included, loaded, up, database, process, started, entry, changes>>

Writing == {"compare", "move", "undoCompare", "undoMove"}

(* The panel stops and starts again: only the database and the targets     *)
(* stay, with what is still on its way to them.                            *)
Crash ==
  /\ Disturb("crash")
  /\ lock' = NoTask
  /\ pc' = [t \in Tasks |-> "idle"]
  /\ kind' = [t \in Tasks |-> "refresh"]
  /\ op' = [t \in Tasks |-> NoOp]
  /\ snap' = [t \in Tasks |-> {}]
  /\ seen' = [t \in Tasks |-> {}]
  /\ want' = [t \in Tasks |-> {}]
  /\ gone' = [t \in Tasks |-> FALSE]
  /\ rung' = [t \in Tasks |-> 1]
  /\ touched' = FALSE
  /\ entry' = NoEntry
  /\ late' \in {late, late \cup {want[t] : t \in {u \in Tasks : pc[u] \in Writing}}}
  /\ UNCHANGED <<file, included, loaded, up, database, started, changes>>

-----------------------------------------------------------------------------
Arrive(t) == Apply(t) \/ RestoreFile(t) \/ Reload(t)

WriteStep(t) ==
  \/ EnsureInclude(t)
  \/ ReadAllows(t) \/ ReadRefuses(t) \/ ReadForRestore(t) \/ ReadFails(t)
  \/ Compare(t) \/ Moved(t) \/ MoveFails(t)
  \/ CheckSkipped(t) \/ CheckAccepts(t) \/ CheckRefuses(t) \/ UndoRead(t)
  \/ KeepPrevious(t)

RefillStep(t) == Pull(t) \/ StoreRecords(t) \/ SetFetched(t) \/ MarkApplied(t)

LadderStep(t) == RungSkipped(t) \/ RungRuns(t) \/ RungFails(t) \/ Settled(t)

(* What a goroutine does once its job has arrived. *)
Advance(t) == WriteStep(t) \/ RefillStep(t) \/ LadderStep(t) \/ Release(t)

Next ==
  \/ \E t \in Tasks : Arrive(t) \/ Refresh(t) \/ Acquire(t) \/ Advance(t)
  \/ \E t \in Tasks : RequestEnds(t)
  \/ HandEdit
  \/ LateMove
  \/ Crash

Spec == Init /\ [][Next]_vars

(* A goroutine that can run does; Go's mutex hands itself to a waiter that *)
(* has waited for a millisecond, so no waiter starves; the refresh timer   *)
(* fires for as long as the process lives.  Requests need not arrive.      *)
FairSpec ==
  /\ Spec
  /\ \A t \in Tasks : WF_vars(Advance(t)) /\ SF_vars(Acquire(t))
  /\ \A t \in Timers : WF_vars(Refresh(t))

-----------------------------------------------------------------------------
(* Properties. *)

(* Nothing disturbed the holder since it took the mutex. *)
Calm(t) == faults = entry.faults /\ ~ gone[t]

(* lockFor, "The locks serialise the read, change and write cycle": one    *)
(* goroutine is inside the cycle of a server, and it is the one that holds *)
(* the mutex; however a job ends, it gives the mutex back.                 *)
OneInside == \A t \in Tasks : pc[t] \in Inside <=> lock = t

(* Writer.write and WriteRecords: the content a move replaces is the one   *)
(* the change was computed from, so no change of another user is lost.     *)
(* What escapes is a hand edit, or a write that was given up and lands     *)
(* after all, between the last comparison and the move.                    *)
NoLostUpdate ==
  \A t \in Tasks :
    /\ At(t, "move") => file = snap[t] \/ touched
    /\ At(t, "undoMove") => file = seen[t] \/ touched

(* Refresher: "a pass that read the file before a write must not store its *)
(* snapshot after it, or the cache would describe a file that is gone".    *)
(* It holds of every write that ends under the mutex: a hand edit or a     *)
(* given up write after the holder's read is the only way around it.       *)
CacheDescribesTheFile ==
  [][/\ cache' # cache => cache' = file \/ touched
     /\ fetched' # fetched => fetched' = file \/ touched]_vars

(* Writer.write, checkConfig: a change or a restore that reports a failure *)
(* nobody disturbed left the file as it found it, also when the resolver   *)
(* had to refuse it after it was written.                                  *)
FailedChangeLeavesTheFile ==
  \A t \in Tasks :
    At(t, "failed") /\ kind[t] \in {"change", "restore"} /\ Calm(t)
      => file = entry.file

(* Writer.write: the restore point survives a change that failed, whatever *)
(* made it fail: a conflict, a refusal, a lost answer, a rollback.         *)
FailedChangeKeepsTheRestorePoint ==
  \A t \in Tasks :
    At(t, "failed") /\ kind[t] = "change" => backup = entry.backup

(* applyOne: an undisturbed success put exactly the operation's result on  *)
(* the server, kept the file it replaced and refilled the cache with it.   *)
SuccessIsExact ==
  \A t \in Tasks :
    At(t, "ok") /\ kind[t] = "change" /\ Calm(t) =>
      /\ Allowed(op[t], entry.file)
      /\ file = After(op[t], entry.file)
      /\ backup = entry.file
      /\ cache = file /\ fetched = file

(* State.Pending *)
Pending == fetched # None /\ fetched # applied

(* reloadOne, recordApplied: without a disturbance, a server the panel     *)
(* shows as applied is one whose resolver serves the file the panel knows. *)
AppliedIsServed ==
  faults = 0 /\ FirstIncluded /\ fetched # None /\ ~ Pending
    => loaded = fetched

(* writeAudit, writeRestoreAudit: the trail never claims a change that is  *)
(* not on the file, and without a disturbance it misses none either.       *)
TrailMatchesTheFile ==
  /\ trail <= changes
  /\ faults = 0 /\ lock = NoTask => trail = changes

(* What the repository says of the code and the code does not keep.        *)

(* checkConfig: "Every failure rolls back, including one where the check   *)
(* could not run at all."  The rollback runs on the request's own context. *)
EveryFailedCheckRollsBack ==
  [][\A t \in Tasks :
       pc[t] \in {"undoRead", "undoCompare", "undoMove"} /\ pc'[t] = "failed"
         => file' = snap[t]]_vars

(* Refresher: the same sentence without an exception, on a server nobody   *)
(* edits by hand.  "The locks serialise the read, change and write cycle", *)
(* and a write whose call has returned may land outside of it.             *)
CacheNeverDescribesAGoneFile == [][cache' # cache => cache' = file]_vars

(* A job that arrived ends and gives the mutex back, whatever fails.       *)
JobsEnd == \A t \in Tasks : At(t, "queued") ~> At(t, "idle")

(* The timed pass: once the disturbances are over, the panel ends up       *)
(* describing the file the server holds, whatever happened before.         *)
CacheCatchesUp == <>[](cache = file /\ fetched = file /\ reachable)

=============================================================================
