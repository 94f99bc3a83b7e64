# A TLA+ model of JBound

JBound is a web panel that manages the records files of a fleet of Unbound
resolvers: it edits `local-data` and `local-zone` lines over SSH or through an
agent, reloads the resolvers, schedules changes, keeps servers of a group alike
and mirrors its audit trail to a collector. This directory holds TLA+ modules
that model its core, the TLC configurations that check them on small instances,
and proofs checked by TLAPS. `PROJECT.json` maps every definition to the lines
it stands for.

Paths below are relative to `src/`; `fleet/x.go` is `src/internal/fleet/x.go`.

## 1. The system

| Part | State it keeps | Operations | Talks to |
|---|---|---|---|
| Records file format (`internal/dnsfile`) | none: pure functions on lines | add, copy, set, edit, delete, add many; zone lines, clause header, consistency | called by the writer inside its critical section |
| Writer (`fleet/apply.go`, `restore.go`, `checkconf.go`, `include.go`) | restore points, audit rows | read, change, write, check, roll back, keep, refill, audit | transport, refresher, database |
| Reloader (`fleet/reload.go`) | the applied digest | ladder of reload, restart, service commands | transport, database |
| Refresher (`fleet/refresh.go`) | one mutex per server, the pass in progress, cached records, fetched digest | one server, every server, timer | transport, database |
| Repair and mirror (`fleet/diff.go`) | none of its own | repair one, repair all, mirror a source | writer, refresher |
| Scheduler (`fleet/scheduler.go`) | `scheduled_jobs` | create, edit, cancel; reset, read due, claim, apply, finish | writer, database |
| SIEM queue and sender (`internal/siem`) | cursor, one stream connection | drain, place the cursor, send, redial | audit rows, settings, collector |
| Transports and pool (`internal/transport`) | one connection per server, pool entries | read, write with a digest, run, probe, sweep, keepalive | target |
| Agent (`cmd/jbound-agent`) | one mutex, the records file | read, write, reload | target |
| Server inventory, groups, keys (`internal/server`) | servers, groups, host keys, client keys | create, update, rotate, trust, delete, name a source | pool, database |
| Accounts (`internal/auth`) | sessions, login attempts | start, load, rotate, destroy, admit | PAM helper, database |
| Settings (`internal/settings`) | a snapshot of the table | load, save | database |
| Audit trail (`internal/audit`) | `audit_logs` | write, list | queue |
| Web handlers (`internal/web`) | none | forms, pages | everything above |
| Database (`internal/database`) | SQLite file | open, migrate, back up | |

What is hard here:

* **Interleaving.** Requests, scheduled jobs, the refresh timer and the SIEM
  goroutine run concurrently; one mutex per server guards the read, change and
  write cycle, and much is read before it is taken.
* **A target the panel does not own.** The file is also edited by hand, calls
  fail, and a call that fails may have taken effect, or may take it later, after
  the mutex it ran under was given back.
* **Cancellation.** A request's context ends when the browser goes away; some
  steps run on it, some on a context of their own.
* **Several steps, one meaning.** A change is a write, a check, a restore
  point, a refill and an audit row; any of them may fail, and the panel may
  stop between any two.
* **Stale snapshots.** A pass, a restore, a repair and a scheduled job all act
  on something they read earlier.

## 2. The modules

| Module | Models | Checked by | Proved in |
|---|---|---|---|
| `RecordOps` | what a change means: operations on sets of lines | through `DnsFile`, `ServerFile` and `Fleet` | used by `ServerFile_proofs`, `Fleet_proofs` and `Stored_proofs` |
| `DnsFile` | the same operations as the code performs them, on sequences of lines | `DnsFile` | `Stored_proofs` |
| `ServerFile` | everything that touches one server's file | `ServerFile`, `ServerFileLive`, `ServerFileRollback` | `ServerFile_proofs` |
| `Scheduler` | the table of jobs and the goroutine that runs them | `Scheduler` | `Scheduler_proofs` |
| `SiemQueue` | the audit trail on its way to a collector | `SiemQueue` | `SiemQueue_proofs` |
| `GuardedFile` | what a transport promises: replace the whole file, and only what was seen | as a property of `Transport` | `Transport_proofs` |
| `Transport` | pool, mutexes, remote commands of SSH, requests to an agent | `Transport` | `Transport_proofs` |
| `Fleet` | a change, a repair and a mirror over several servers, beside changes to servers and groups | `Fleet` | `Fleet_proofs` |
| `Sessions` | session rows, cookies, overlapping requests, the login window | `Sessions` | `Sessions_proofs` |
| `Inventory` | servers with their key files, pooled connections and approved host keys | through `RefreshPass` | `RefreshPass_proofs` |
| `RefreshPass` | passes over the fleet that callers join, composed with `Inventory` and a change | `RefreshPass` | `RefreshPass_proofs` |
| `Settings` | the settings table, the running snapshot, saves beside each other | `Settings`, `SettingsAdoption` | `Stored_proofs` |

`RecordOps` is the abstract specification of the record operations: a file is
the set of lines that mean something. `DnsFile` is the detailed one, and
`DnsFile!AgreesWithRecordOps` states for every reachable file and every
operation that the code refuses exactly what `RecordOps` refuses and otherwise
leaves a file with the content `RecordOps` gives. It is checked on small files
and proved for all of them. `ServerFile` EXTENDS
`RecordOps` and so speaks of contents only. `Scheduler` abstracts an
application to the report the writer answers with. `SiemQueue` abstracts an
audit row to its identifier and whether it is always forwarded. `RefreshPass`
EXTENDS `Inventory`: a pass, a change and the operators' requests are
interleaved step by step over the same rows, keys and pool.

### RecordOps and DnsFile

`DnsFile` has one variable, `lines`. A line is what the parser makes of it: a
data line (`DataLine`), a zone line (`ZoneLines`), or one it passes over, such as
the clause header and a comment (`PassedOver`). `Parse`, `Add`,
`Set`, `Edit`, `Delete`, `EnsureZone`, `EnsureHeader` and `CheckConsistency`
follow the functions of the same name; `Result(o, ls)` is `Operation.apply` on
the lines, or `Refused`. `FileNext` performs one accepted operation and adds the
header if it is missing, which is what a successful write does. Names come in
several spellings so that the places where the code folds case
(`CheckConsistency`, `covers`, `declaresName`) and where it does not (`sameName`,
`declaresZone`) are told apart. `RecordOps` keeps the same distinction: the name
that opens a zone is part of `KeyOf`, folded, and `Spelling` is how it is
written, which is all `Declaring` compares. The loops of the code that walk over
the lines and over the rows of a batch are folds (`Kept`, `AddRows`), one step of
the loop each. `Question` is what the record
pages ask before an addition, computed with `RunsInto` from what the cache holds
of each server of the target. The syntax of names, addresses
and texts (`Record.Validate`) is not modelled: the inputs are records it
accepts.

### ServerFile

One server, some workers (requests and jobs) and timers (the refresh pass).
The variables are grouped as the code keeps them: `remote` (the file, whether
the resolver's configuration includes it, what the resolver has loaded),
`database` (cache, fetched and applied digests, restore point, trail) and
`process` (the mutex and each goroutine's position and local variables). A
digest is modelled by the content it is the digest of, so no two contents
collide. The control points follow the code:

* `Apply`, `RestoreFile`, `Reload`, `Refresh` capture what is read before the
  mutex; `Acquire` is `lock.Lock()`.
* `EnsureInclude`, `ReadAllows`/`ReadRefuses`/`ReadForRestore`, `Compare` and
  `Moved`/`MoveFails` (the two remote calls of `WriteRecords`), `CheckSkipped`/
  `CheckAccepts`/`CheckRefuses`, `UndoRead` and then the same `Compare` and
  `Moved` again for the rollback, `KeepPrevious`.
* `Pull`, `StoreRecords`, `SetFetched`, `MarkApplied`: the refill, which after
  a change runs on a context of its own (`afterChange`).
* `NextRung`, `RungSkipped`, `RungRuns`, `RungFails`, `Settled`: the ladder.
* `Release`: the audit row and the deferred unlock.

`Answers` and `Fails` stand for a call of either kind; a call that fails may
have taken effect (`MoveFails`, `RungFails`), or it may not have done so yet.
What a given up write would still put in place is kept in `late`: `mv` over SSH,
or the one request of an agent, which is why `Compare` may leave something there
too. `LateMove` lets it land at any later moment, whoever holds the mutex then,
and also after a restart of the panel. `RequestEnds`, `HandEdit`, `LateMove` and
`Crash` are the environment. `touched` (somebody changed the file behind the
holder: a hand edit or a write that landed late), `entry` and `changes` are
history.

### Scheduler

`rows` is the table, `pc` the goroutine, `batch` what `Due` answered, `cur` and
`left` the job it is applying. A statement that fails is a disturbance
(`Disturb`), an application that fails is not (it is what the fleet does).
`Create`, `Update` and `Cancel` carry the guards of the handlers and of the SQL
(`WHERE status = ...`). `DeleteTarget` is the `ON DELETE CASCADE` of the
migration, which asks for no status. A shutdown cancels the goroutine's
context, every statement after it fails, and the process ends: it is the same
as `Crash`. Identifiers are `AUTOINCREMENT`, so a removed row's is not reused.

### SiemQueue

`pc` walks through `Drain`, `start`, `round` and `Sender.Send`; `at` and `to`
delimit the batch, `forwarding` is the switch as the round read it. A
connection is open, closed by its collector before the sender looked
(`closed`), closed between the look and the write (`late`), or dead without a
word (`lost`); a write to the last two may succeed into nothing (`dropped`) or
fail and be retried on a fresh connection. Saving a setting and its audit row
are two steps. The wake-up channel is subsumed by the ticker: a round may start
at any moment.

### GuardedFile and Transport

`GuardedFile` is the promise of `Transport.WriteRecords`: requests carry the
content they expect and the content they bring; one that has compared is armed,
and an armed request replaces the whole file while nobody else is armed. The
comparison and the replacement are two steps in both transports, so a hand edit
may fall between them, another request may not. `broken` says that the promise
is off, for a reason the implementation has to name. `Transport` implements it
through the mapping `file <- file, asks <- Asks, broken <- loose # {}`, where
`Asks` collects the requests on their way to the agent and the SSH writes that
have compared.

`Transport` models one server of either kind. `Get`, `Swap`, `Save`, `Sweep`,
`Remove` and `Close` are the pool: closing an SSH transport waits for its
mutex, and the pool's mutex is held meanwhile. A test begins, a record is saved
and a transport is swept at any moment, so a caller may go on with a transport
that has left the pool while another is given a new one. `Lock`, `Read`,
`Check`, `Send`, `Answer` and `Reread` walk through `ReadRecords`,
`WriteRecords` and `Probe`. Each command needs a session (`Opens`): a server
that has gone `silent` opens none and refuses none, and the call waits for it
with the mutex and no deadline, until the server speaks again or the connection
breaks (`GoSilent`, `Speak`). `cmd` holds the outstanding command of each
caller: `Open`, `Fill` and `Move` are `tee`, its bytes with the digest of the
result, and `mv`; a command keeps writing the file it opened when that one is
moved (`Moved`). `Compare` and `Rename` are the agent's handler under the agent's
mutex. `Timeout` and `GiveUp` end a call over either transport; the command dies
with it or goes on in the place of `Stray`. Two history variables record what the
properties ask about: `stirred`, the file changed behind the writer, and `loose`,
commands of two calls could be under way at once over SSH, because one outlived
its call (`late`) or because a call ran beside one on another transport
(`beside`). Nothing is kept from happening: `loose` says from when on the
promise is off. No request to an agent ever sets it, since the agent compares and
replaces under one mutex of its own.

Changes are serialised above by the mutex of `ServerFile`, so one `Writer` stands
for them; a connection test takes no such mutex. The correspondence with
`ServerFile`: its `Compare` and `Moved`/`MoveFails` are one `WriteRecords` here,
and its `LateMove` is the `Stray` of this module. What `ServerFile` does not have
is the half written file a stray command may leave; its properties are about
files that were replaced as a whole, and `NeverHalfWritten` (section 5) is about
the others.

### Fleet

`file`, `inGroup`, `enabled` and `source` are the targets and the inventory;
each request has its position, the servers it still has to read or write
(`unread`, `live`), what it read (`want`) and a result for each server. What
`ServerFile` does in many steps under one mutex is one step here: a write
computes its change from the file it finds (`Write`), refuses (`Refuse`), skips
or fails with or without having landed (`Fail`). What the code does outside the
mutexes is kept apart: a mirror reads the group, its reference, whether that is
a member and enabled, the reference's file, and only then the servers it
writes (`ReadGroup`, `ReadReference`, `ReadMember`, `ReadSource`, `Resolve`); a
repair of everything collects one file after the other (`Collect`) and then
writes each. `UpdateServer`, `ListReferences`, `ClearReference`,
`CheckReference` and `StoreReference` are the statements of the two operators,
in the order the code makes them. `calm`, `meant` and `members` are history:
whether anything disturbed a request, the groups its target stood for, and the
servers that were in them at some time since it began. A write of an earlier
request that lands late is a hand edit to the one it meets: `HandEdit` changes
the file at any moment, and ends the calm of whoever is under way.

### Sessions

`rows` and `attempts` are the two tables, `jar` the cookie each browser holds,
`req` the requests under way: where they are, what they ask for, the cookie
they came with, the time they read once at their start (`ReadClock`) and the
answer they will give. `Find`, `Destroy`, `Rotate` and `Touch` are the
statements of `SessionManager.Load`, each on its own; `SignOut` and `Revoke`
run after it, under the identifier it has left. `Admit` is one transaction,
`Authenticate` and `ApplyPolicy` may refuse, `StartSession` inserts the row. A
cookie set early in a request reaches the browser when the answer does
(`Deliver`), and answers overtake each other. `Tick` advances the clock whatever
is under way: a request, its handler and its answer take as long as they like.
`slow` is history: it names the browser of a request that waited `Latency` ticks
or more to be counted, to be found, or to deliver the cookie it sets (`Hurries`,
`Errand`). Identifiers are a session number and a count of rotations, so two
sessions never share one.

### Inventory

`rows`, `keys`, `staging`, `pool` and `installed` are the servers, the key file
named after each, the file beside it a rotation writes, the pooled connection
and how often each machine's host key was made anew. `op` holds the requests
under way: where each is, the row it read at its start, the key it has made and
whether its client has gone, after which its statements fail. Each handler is
taken apart where it touches something else: a creation is `CreateRow`,
`MakeSecret`, `SetKeyPath` and, when one fails, `RemoveKey` and `Discard`; a
rotation is `OpenStaging`, `WriteStaging`, `Rename`, `RemoveFromPool`; a
deletion is `Delete` (the pool), `DeleteRow`, `DeleteKey`; an approval is
`TrustHostKey`, `SetHostKey`, `RemoveFromPool` and the test that follows it.
File handles are followed: what a rotation writes lands where the file it opened
has been moved by then. `CanReach`, `Connected` and `Closed` are `Pool.Get` and
`dial` with whatever row a caller holds, an old one included. A key is a number;
a host key is the machine and how often it was installed. `shown` and `told`
are history: what the panel has displayed, and the key the operator was given
last; `raced` and `abandoned` mark the two cases of section 5 where the
properties do not hold. The request an operator may approve (`TrustHostKey`)
carries a host key the page has shown before.

### RefreshPass

`current` is `Refresher.pass`, `pass` every pass with its leader, the rows it
listed and one reader per server, `call` the timer and the requests that
refresh. `All` joins or leads; `List`, `TakeSlot`, `Lock`, `ReadRecords`,
`Store`, `Finish`, `EndPass` and `Close` are `allOnce`, its goroutines and the
deferred calls of `All`. A leader that goes away keeps its pass alive on a
context that refuses every further step; a follower just leaves. `Resolve`,
`LockWriter`, `Write` and `Refill` are a change as `ServerFile` details it,
kept to what matters here: which row it holds and when. A file is the number of
changes made to it.

### Settings

`table` holds the rows of the keys moved off their default, `values` is the
snapshot, `save` the saves under way: `Submit` (the handler reads what it will
compare with), `Merge` (over the snapshot, then the rules), `Store` (one
transaction), `Load`, `Swap`, `Answer`. `Start` reads the table and may adopt
the receiver of an earlier release, which is a save before anything is served;
`Stop` ends everything at once. Two intervals stand for the keys the cross
field rules tie together, a switch for an independent key, and the protocol,
host and port of the collector are one value.

## 3. The runs

| Run | Bounds | Shows |
|---|---|---|
| `ServerFile` | two workers, one timer, one name with two values of which the resolver refuses one, 3 jobs, 2 disturbances of any kind (a failing call, a request that ends, a hand edit, a crash, a write that lands late) | no lost update, honest trail and restore point, a cache that is true when stored, failed changes that leave the file |
| `ServerFileLive` | one worker and the timer, no configuration check, 2 jobs, 2 disturbances of any kind | every job ends; the timed pass catches up, also after a write that was given up and landed late |
| `DnsFile` | four files (empty, the operator's own with a line twice, the panel's, one whose header was put below a record), a name and its parent zone in two spellings each, two values of a single type and of a multiple one, batches of up to 2 rows (`MaxRows`), a write only to a file that has fewer than 4 lines after it, the header not counted (`MaxLines`) | line editing agrees with `RecordOps`; no file hides a record, gains a second value unasked, loses a line of the operator's or puts a record before the header; the question asked before an addition to this file and another foresees what the writers do |
| `Fleet` | three servers in two groups, five lines (two values and a block of one name, a record and a zone of another), two requests, two operators, 4 events (requests, changes of the inventory, failed calls, hand edits) | a mirror is exact and stays in its group, a repair adds only what is free, an undisturbed request closes the differences it is about |
| `Sessions` | two requests at a time, 3 requests and failed statements in all and at most one of the latter, two browsers of one account of which one is signed in, instants 0 to 3, a grace and a rotation interval of 3, slow from 1 tick on; answers of any delay; no request under another fingerprint, which ends its session as an expired one does | ended sessions stay ended, overlapping requests keep their session unless it is that browser's own that is slow, the login window holds |
| `Scheduler` | 2 jobs, 3 instants, 2 faults, two servers with five reports, a batch of two records and an unreadable job | who runs, in which order, how often, and what is recorded |
| `SiemQueue` | 3 rows, batches of 2, 2 settings saved, 1 fault, one collector that closes and returns at will | no hole, no reordering, no repetition, backlog cleared |
| `Transport` | a server reached over SSH and one reached through an agent; one change, one test, two endpoints, one saved record or sweep, one hand edit, restart, short transfer or silence; any number of timeouts, one command at a time that outlived its call | through an agent always, over SSH until commands of two calls are under way at once: the promise of `GuardedFile`, and no conflict without a cause; every call returns unless the server leaves a session unopened for ever |
| `RefreshPass` | two servers, one slot, the timer and a request, two operators; six mixes of operations, calls, changes and faults: (2,0,0,2), (3,0,0,0), (0,3,1,1), (1,2,0,1), (2,1,0,0), (1,1,1,1) | every server keeps the key its operator was given, no pooled connection an old one, trust is only what was shown, answers are whole and recent, every call returns |
| `Settings` | the settings page and the two cards, 3 saves, 1 fault, 2 starts; intervals 1 to 3 with 0 as one that is refused | the set that runs and the set that is stored were approved; a save nobody overlaps takes effect |
| `ServerFileRollback`, `SettingsAdoption` | small instances of the above | a statement of the repository each that does not hold |

Why they are enough: a lost update takes two writers and one value each; every
local variable of the writer is compared with a content of at most two records,
and the third job distinguishes "the last change" from "the change before".
Two disturbances reach a failed rollback (a refusal, then a failing call), a
crash after a lost answer, and a write that is given up and lands in the cycle of
the next holder. The scheduler's order needs two jobs and an instant
between them; its faults are a crash followed by a failing reset. The queue
needs a batch that is full, one that is not, and a failure in the middle of
either: three rows with batches of two. Larger bounds (4 rows, 3 settings, 2
faults: 2.2 million states) found nothing more.

`DnsFile` needs a record in two spellings, the zone of either, and a batch in
which the second row meets what the first one left; every operation on every
file reached is tried by its invariants, whether or not a step performs it. The
four lines leave room for a duplicated line, a zone and the record that joins
them.

`Fleet` needs a source and two other servers, since what goes wrong on one must
leave the other alone; four events are a mirror, a change of its group, a
hand edit and a second request. `Sessions` is bounded at the edge: with a
grace of 2 ticks a request sent just before the answer of a rotation arrives
is signed out although nobody was slow, with 3 it is not. Its third request may
arrive after the answer of the rotation was, or was not, delivered; what the
bound on requests and failures together leaves out is a third request beside a
failure. `Transport` needs one change and one test to put two calls on two
transports, and a third command, the stray one, beside them. Two changes
were checked too, for the two safety properties with servers of both kinds (3.7
million states, too many for the run) and for all three through an agent, and
nothing more was found; the theorems of `Transport_proofs` are about any number.

`RefreshPass` is bounded by mixes and not by one large budget, since each
property needs only some of the actors: two operators race each other (3
operations, or 2 with a failing disk and a client that leaves), callers race
each other (3 calls with a change and a fault), and one of each meets the
others. `Settings` needs two saves that overlap and a third after them, and a
restart to see what was stored.

Two runs refute what the repository says of the code; `findings` in
`PROJECT.json` quotes each line. Five more statements that do not hold are in
section 5.

* `ServerFileRollback`: a request that ends while its change is checked leaves
  the refused file on the server, because the rollback runs on that request's
  context (`fleet/checkconf.go:57`).
* `SettingsAdoption`: a receiver adopted from the file of an earlier release and
  then turned off by an operator is adopted again at the next start, because
  off is the default and keeps no row (`cmd/jbound/main.go:392`).

Each module states its types in `TypeOK` where it keeps more than a few
variables; none is in a run, where it would say little. Those of `ServerFile`,
`Scheduler`, `SiemQueue`, `Fleet` and `Sessions` are conjuncts of the inductive
invariants and so proved; that of `Transport` is proved in a narrower form,
`Types`, in which only the temporary file is ever incomplete, and which holds until
`loose` is set.

### Fairness

`ServerFile!FairSpec`: weak fairness of each goroutine's steps (a remote call and
a statement end), strong fairness of `Acquire` (a Go mutex hands itself to a
waiter of more than a millisecond), weak fairness of the timer. Requests need
not arrive, calls need not succeed; disturbances are bounded, so they end, and a
write that is still on its way may land or not. That a remote call ends is
true of a command, of a request to an agent and of a statement, which have a
deadline or a context; opening an SSH session has neither. So `JobsEnd`,
`CacheCatchesUp` and `RefreshPass!EveryCallReturns` are about servers that answer
or refuse an SSH session, or whose connection breaks, in the end; of the others
`EveryCallReturns` (section 5) is false, and `CallsReturn` states the condition.
`Scheduler!Spec`: the goroutine runs while the panel
does, and a panel that stopped is started again; nobody has to schedule, cancel
or delete anything. `SiemQueue!Spec`: the same for the queue; no collector has
to return, and `BacklogIsCleared` asks for the backlog only if the named one
stays reachable. `Transport!Spec`: goroutines run and deadlines pass
(`Timeout` and a failing read are steps of the caller); the target need not
answer a command, and `CallsReturn` holds without it. A server that is silent
need not speak again: then no step that needs a session is enabled, and the
property asks for nothing unless it speaks for good in the end. `RefreshPass!Spec`:
the steps of passes, readers and the change are weakly fair, since each is a
goroutine whose remote calls and statements end (with the exception above);
whichever step is taken, a pass has finitely many of them and a mutex always comes free, so one
condition on their disjunction is enough. No operator and no caller has to act.
`Fleet`, `Sessions` and `Settings` state safety only and assume none.

## 4. The proofs

The proof modules follow one pattern: an inductive invariant `IInv`, one lemma
per action that it is preserved, `Invariance`, and then one short theorem per
property. They hold for every value of the constants that satisfies the
module's assumption.

`ServerFile_proofs`. The properties are not inductive: each needs to know what
the holder of the mutex has in its local variables. `IInv` says that only the
holder is inside, and of the holder, by control point: its kind and operation
fit where it is (`JobKnown`); what it read is what is there unless the file was
touched since, by hand or by a write that landed late (`ReadingStands`); the restore point is still the one it found
until it is kept (`RestorePointStands`); whether its change is on the file
(`Landed`, `Quiet`, which count it in `changes` and `trail`, `TrailInv`).
What an undisturbed holder must show is carried from the step that makes it
true to the one that reports it (`CalmInv`, `HoldsSteady`): by control point,
whether the file is the one it found or the one its operation makes of that, and
from where on the restore point, the cache and the fetched digest follow.
`ServedInv` does the same for a panel nothing has disturbed yet: the fetched
digest is of the file unless a change has not refilled the cache, and the
applied one is of what the resolver loaded unless a reload has not said so yet.
Proved: every safety property of the run `ServerFile`, and `TypeOK` and
`OneInside`, which are in no run.

`Scheduler_proofs`. `IInv` says that an identifier beyond `made` has no row,
that the job being applied was claimed and, while it is, its row is running or
gone (`CurKnown`), that a row which says running has a reason, that whatever is
due and older than the rest of the batch is in the batch or was missed
(`BatchKnown`, `NothingOlderForgotten`), how many applications are left
(`RunsLeft`), that the folded report is the worst of what each server answered
(`FoldStands`), and that runs and audit rows differ by the run in progress and
the faults (`RunsAudited`). Proved: the types, the four safety properties of the run, and
three more no run repeats: a row says running only for a reason
(`RunningIsBeingApplied`), the folded report is true (`OutcomeIsTrue`), and a
stored outcome is final (`OutcomeIsFinal`).

`Stored_proofs` has two parts that share nothing, `Settings` and `DnsFile`.

Of `Settings`: saves take no lock, so `IInv` is about what each one
carries: a set is approved from the moment it was merged until it is stored,
the table always stands for an approved set (`StoredStandsForMerged`: leaving
out the defaults loses nothing), and so is whatever a save reads back. `Exact`
adds who may be saving while the panel is down, starting or up, and what a save
nobody overlapped has done so far. Proved: both properties of the run
`Settings`, `RunningSetWasApproved` and `UnrivalledSaveTakesEffect`.

Of `DnsFile`: the state needs only a small invariant, `FileInv` (the lines are
lines the parser knows, and no record is under a blocked name unless one was);
the weight is in what the operations do to a sequence of any length. A fold is
unfolded once into the values it passes through, position by position
(`KeptSteps`, `RowSteps`), by an induction over a set of positions
(`CountingUp`: a set of numbers up to n that holds 0 and with each number the
next holds them all), so no induction over sequences is needed. From there each
operation is described twice. `Meaning` lemmas (`SetLines`, `EditedLines`,
`DeletedLines`, `DeclaredZone`, `RowsLeave`) say which records and zones the
lines it leaves stand for, and `TakenMeans`, `HoldsMeans`, `ConsistentMeans` and
`DeclareMeans` that the questions the code asks of lines are those `RecordOps`
asks of sets. `Reshaped` says that what an operation leaves has the foreign
lines of before as a prefix of its own and keeps records inside the clause; it
holds of every step and is transitive. A batch is the hard case: the code adds
its rows one by one, each against a file that holds the rows and zones before
it, and `RecordOps` judges all of them against the file as it was.
`RowsLeave` and `EachAgainstAll` show the two agree, because `validateBatch` refuses rows that
meet each other and a parent zone that a row brings meets a block of another row
only where the whole batch is refused as inconsistent. `EveryOperationIsFaithful` collects
the operations. Proved: every property of the run `DnsFile`
(`LineEditingIsRecordOps`, `NoBlockedNameIsEverAnswered`,
`EveryWriteKeepsTheShape`, `OnlyACopyGivesASecondValue`, `TheQuestionIsRight`),
and `LinesFitRecordOps`: what `RecordOps` assumes of its constants holds of the
lines of a file, so the theorems of `ServerFile` and `Fleet` are about lines the
code can write.


`RefreshPass_proofs`. Copies of a row are held by the tests of the operators,
the passes that listed it and the change that resolved it. `IInv` says that each
copy trusts only what was displayed for that server; since what was displayed
stays displayed, a step that leaves a copy alone keeps that, and each step that
makes one takes it from another. `KeysInv` follows a key from the step that
makes it: what is in the file beside the key, who has it open, that a rotation
which nobody raced is the only one in its server, that the key the operator was
given last is the one in place or the one about to be moved there, and that
what is pooled was opened with it or is about to be removed. `TimesInv` says of
a pass that whatever its readers have read is no older than the moment it began,
and of a call that it joined a pass which began no earlier than what it is
promised. Proved: every safety property of the run `RefreshPass`.

`SiemQueue_proofs`. A round works on a stretch of the trail. `IInv` says how the
stretch lies between the cursor and the end of the trail at each control point
(`RoundInv`), that everything from where the cursor was placed up to the row the
round has reached was received, lost or passed over (`SettledInv`), and that
without a crash or a failed statement nothing beyond it has ever been handed to
a collector (`OnceInv`). Proved: `NoHoleBehindTheCursor` and
`RowsArriveInOrder`.

`Fleet_proofs`. `IInv` relates a request to the inventory and to the servers it
has been through: it remembers every group its target has stood for and every
enabled server of them (`Remembers`), its source and what it writes are among
those (`SourceKnown`, `LiveKnown`), and while nothing disturbed it, what it wants
is what its source lists, or covers what the servers it has read list, and each
server it has reported has what was asked for (`MirrorHolds`, `RepairHolds`). The consequences for contents are lemmas about `RecordOps`: a file
that is consistent holds no value beside a block, declaring zones adds zone
lines only, and a mirror of a file leaves exactly its records. They need one
assumption the code keeps: a value and the line that opens a zone are never
equal in key, for a zone line's key is its name alone (`RecordAssumption`; that
lines have this shape is `LinesFitRecordOps`).
Proved: the four properties of the run `Fleet`.

`Sessions_proofs`. `IInv` has one row for each session, numbers of logins under
way that are their own and not yet in the table (`FreshInv`), a clock that no
attempt still to be counted is behind by more than a latency unless its browser
is slow (`ClockInv`), and attempts that are pruned only once they no longer count
(`RecordedInv`). The window is a statement on cardinalities: an attempt is
admitted when the table has fewer than the limit, and everything in the stretch
is in the table. That overlapping requests keep their session has an invariant of
its own, `OverlapInv`, said of each browser that was never slow (`Prompt`): it
carries the identifiers of a session, in its jar, in the cookies of its requests
and in the answers on their way (`CarriedInv`, `OneCarrier`); its own lookups and
the answers that set its cookie are under way for no more than a latency
(`PromptInv`), whatever other browsers and other answers take; and each
identifier is the one the row has now, or the one before it while the answer to
the request that rotated it is still under way or was a latency ago
(`NamesInv`). When a rotation is due every earlier answer has therefore arrived
(`RotationIsLate`). `Patient` is about the constants only: what counts as slow is less than half of
the rotation interval and of the grace, and no identifier is in two browsers at
first. The theorem speaks of every behaviour, those in which an operation on the
fleet takes minutes included; the browser that waits for such an answer with a
new cookie in it is slow, and what then happens is in section 5. Proved:
all three properties of the run `Sessions`.

`Transport_proofs`. The refinement of `GuardedFile`, step by step: a step of
`Transport` is one request asked, armed, done or given up, a hand edit, or
nothing the abstract file shows. As long as `loose` is empty, whoever is inside a
call over SSH is so on one transport, whose mutex keeps the calls apart, and has
no command of an earlier call beside it (`Alone`, `Commands`); an agent keeps its
requests apart itself. `IInv` has the types (`Types`), which transport a caller
has at which point (`Placed`), that whoever is inside a call holds its
mutex (`Held`), that a command is that of its caller's step, that a move finds
the temporary file it filled and that one request at a time replaces the file at
the agent (`Commands`), and that a file which was looked at is still there unless
it was stirred (`Watched`). `Sound` is that all this holds until `loose` is set,
and `Sound` is inductive with no assumption on what commands, tests and the pool
do. Over SSH `IInv` does not survive it, as `NeverHalfWritten` and
`TestsChangeNothing` of section 5 show, so the two properties stop there; of an agent
`AgentsKeepTheirOrder` proves that `loose` is never set. Proved:
`ReplacesWhatWasSeen`, which is `Guarded!Spec`, and `ConflictsHaveACause`.

Assumptions on constants are those the definitions need (finite sets of callers
and first rows, a command that is not the absence of one, sets that do not
meet); every run evaluates the ones of its module.

Every safety property of every passing run has a proof. Model-checked only are
the liveness properties `JobsEnd`, `CacheCatchesUp`, `DueJobsRun`,
`InterruptedJobsRunAgain`, `BacklogIsCleared`, `CallsReturn` and
`EveryCallReturns`: they rest on fairness, which is out of the prover's reach.

## 5. Known limits of the code the models show

Five statements of the repository are written down beside the properties and
are in no run, because TLC refutes them. Each comes with the constants that
show it; what is not named is as in the run of that module.

* `Transport!NeverHalfWritten` (`Kinds = {"ssh"}`, two changes, one test, no
  saved record, no fault). `transport/ssh.go:468`: "Either the old file or the
  new one is in place, never a half written one." `run` closes the session of a
  command that ran into its deadline or whose request ended, and returns
  (`transport/ssh.go:240`; line 237 says the command may still be running), the
  mutex is released, and every write uses one temporary file of a fixed name. A
  transfer that goes on truncates the temporary file of the next write just
  before that one moves it, and a stray `mv` moves the file the next transfer is
  filling. This is what `loose` excepts from the properties.
* `Transport!TestsChangeNothing` (`Kinds = {"ssh"}`, no fault).
  `transport/ssh.go:588`: "Write the file back byte for byte. The whole path is
  exercised and the content does not change." A connection test takes no mutex
  of the fleet (`server/service.go:416`). If the server is saved (line 216) or its
  transport swept (`transport/pool.go:181`) while a change uses it, `Get` builds a
  second transport with a mutex of its own (`transport/pool.go:136`), both use the
  same temporary file, and the test undoes a change that was reported as made.
* `Transport!EveryCallReturns` (`Kinds = {"ssh"}`, no saved record).
  `transport/ssh.go:207`: "The command carries its own deadline. The refresher
  passes the process lifetime context, so a server that accepts the session and
  never answers would otherwise hold this goroutine and the transport mutex for
  good." `client.NewSession()` (lines 167 and 182) takes no context, runs before
  the timer of the command (219) and after the deadline of the connection was
  cleared (107), and the keepalive passes over a transport that is in use
  (`transport/pool.go:234`). A server that keeps its connection and opens no
  session on it holds its caller, the mutex of the transport and, behind whoever
  closes that, the mutex of the pool.
* `ServerFile!CacheNeverDescribesAGoneFile` (one worker and the timer, one job,
  `Faults = {"call", "late"}`). `fleet/refresh.go:59`: "locks serialise the
  read, change and write cycle of one server", so that a pass does not store what
  would "describe a file that is gone". A write whose call has returned lands
  between the read and the store of a pass; nobody edits by hand. An agent does
  the same with a request that was given up (`transport/agent.go:406`).
* `Sessions!GraceCoversTheOverlap` (`Idle = 4`, `Lifetime = 4`, two requests, no
  failure). `auth/session.go:175`: "a request beside this one rotated a moment
  ago. Its response already handed the browser the new identifier." A rotation
  is stored while its request is handled, and the browser has the new identifier
  only with the answer, minutes later for an operation on the fleet; the previous
  one is accepted for ten seconds (line 29). What the browser sends after that is
  told it has no session, and its cookie is cleared.

Also reachable in the models, and not stated as a property:

* An edit of a job that is accepted between the read of the due jobs and the
  claim is ignored: the claim asks for the identifier only, the change of before
  the edit is applied, and the row shows the edited one as done
  (`fleet/scheduler.go:104`; the comment at line 101 says an edit wins or loses
  cleanly).
* After another collector is named, rows go on to the old one while its
  connection is open (`siem/sender.go:177`).
* Two rotations of one server at a time write the same file beside the key
  (`server/keys.go:108`): one may move the other's key, or a part of it, into
  place, and the operator is told of a key that is not in use.
* A creation whose request ends before the key path is stored cannot take its
  row back, because the undo runs on that request (`server/service.go:181`):
  a server without a key stays until somebody deletes it.
* A pass lists the servers once (`fleet/refresh.go:206`). A server moved to
  another host meanwhile is read at the old one, and the records of the old host
  may be cached after those of the new one were; its connection test or the
  next pass puts it right.
* A pass runs on the context of the call that leads it, so it fails for
  everybody who joined when that request goes away (`fleet/refresh.go:173`).
* A deletion removes the pooled connection before the row
  (`server/service.go:264`), so a reader in between pools a deleted server's
  connection again, until it has been idle.
* Of two settings saves that overlap, the later replaces the whole set of
  overrides and reverts what the earlier changed, unless both submit it; their
  reads and swaps may pass each other and leave the snapshot behind the table;
  and a request that ends between its commit and its read leaves a stored change
  that is not in force (and not in the trail) until a restart, and that the next
  save reverts (`settings/service.go:67`).
* A panel that overrode one of two keys tied by a rule relies on the default of
  the other, which a later release may move.
* A restore stores the current file before it writes, so a restore that is
  refused has replaced the copy it meant to put back (`fleet/restore.go:112`),
  while a change stores it last (`fleet/apply.go:760`).
* A name in another case is given a second value: `sameName` compares letter
  by letter (`dnsfile/writer.go:66`), `CheckConsistency` does not. A parent zone
  an operator declared in another case is declared once more
  (`dnsfile/zone.go:63`), where an addition of a block would have seen it
  (`dnsfile/policy.go:159`).
* An edit puts a block beside the zone line of the same name: `Edit` replaces
  the line without looking for one (`dnsfile/writer.go:200`).
* A hand edit, or a write of an earlier call that lands late, between the
  comparison and the move is overwritten, over SSH and by the agent.
* A write that lands late is not a change of anybody's any more: it was reported
  as failed, no audit row claims it, and it replaces what was written since without
  comparing (over SSH; a late request to an agent still compares). `touched` marks
  it, and `NoLostUpdate` and `CacheDescribesTheFile` except it.
* A rollback compares with a digest it has just read, so a hand edit between
  the write and the check is overwritten (`fleet/checkconf.go:54`).
* `RestoreFile` reads the stored copy before it waits for the mutex; a change
  that goes first replaces it, and the restore puts back the file before the
  last write but one (`fleet/restore.go:79`).
* A reload whose answer is lost may have taken effect and is reported as failed.
* A batch with a row that one of the servers already holds is let through by
  the question (`fleet/conflict.go:136`) and refused by that server as a whole,
  so its other rows are missing there; a single row is skipped instead
  (`fleet/apply.go:610`).
* The question is asked of the cache: a record every server had and one has lost
  by hand is called complete, and nothing is written until a refresh.
* An addition whose name already opens a zone counts as already in place,
  whichever zone that is (`fleet/apply.go:610`).
* A job whose outcome could not be stored stays running until a restart and is
  then applied again, also over changes made since; `store/schedule.go:136`
  says a job is running only while the timer applies it.
* Deleting a server or a group removes its jobs, a running one too.
* `mergeReports` keeps the worst result of a server, its comment says the best
  stands once nothing failed.
* A collector named after a period without one is given everything since the
  old cursor; `README.md:447` says what happens from then on.
* Rows written while the mirror was on and not sent when it is turned off are
  passed over.
* A mirror of a block over a plain zone line left behind by a deletion is
  refused every time (`fleet/diff.go:702`).
* A repair of everything brings back a record that is deleted on every server
  after it has read them.
* An operator who names a reference while another moves that server out of the
  group may leave the reference standing (`server/groupservice.go:162`); a
  mirror asks for the membership again and refuses. Releasing a reference
  writes the whole group as it was listed, so an edit of the group in between
  is undone.
* A sign-out whose session a sibling request has just rotated deletes nothing,
  and the row stays until it is idle; a revocation that keeps the caller's
  session ends it in the same way (`auth/session.go:256`). A request that
  touches a session a sibling has meanwhile rotated or ended is answered with an
  error, and any error of `Find` clears the cookie.
* The login window is measured with the clock each request has read before its
  transaction, so it is exact only up to the time an attempt waits to be counted.
* A connection that dies without a word, or between the look and the write,
  loses rows; the code says so (`siem/sender.go:213`).

## 6. Not modelled

UDP forwarding (no acknowledgement, no connection), SIEM test events (they
bypass the queue), rendering, localisation, paging, logging, the DNS query
tool, command line and configuration, migrations (they run before anything
else), the PAM helper. SQLite's statements and transactions are taken as atomic
steps. A reload or an include command that goes on after its call was given up
either ran by the time the call returns or never does: no property of a
disturbed run reads what the resolver has loaded. Creating, renaming and deleting groups are single statements with no
step between them; their effect on jobs and members is in `Scheduler` and
`Fleet`. Tokens of agents are kept as client keys are and have no model of their
own.

## 7. What could follow

Every stateful part has a model, and every safety property of every run has a
proof. What is open:

* the liveness properties, should a prover for them be at hand;
* the statements that are refuted, by a run or in section 5: where the code comes
  to keep one it moves to a passing run, `loose` and `late` lose their reasons, and the
  exceptions of `ReplacesWhatWasSeen`, `ConflictsHaveACause`, `NoLostUpdate` and
  `CacheDescribesTheFile` can be taken out one by one;
* the limits of section 5 that are races over the database: where the code comes
  to ask, in the statement that writes, for what it has read, each becomes a
  property to state and to prove.
