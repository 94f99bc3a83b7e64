------------------------------ MODULE Transport ------------------------------
(***************************************************************************)
(* How a file gets to a managed server: the pool that hands out one        *)
(* transport per server, the mutex of each transport, the remote commands  *)
(* of an SSH transport (a transfer into a fixed temporary file, a digest,  *)
(* a move) or the one request of an agent (compared and replaced under the *)
(* agent's own mutex), calls that run into their deadline while the remote *)
(* side goes on, servers that stop answering, hand edits and restarts of   *)
(* the target.                                                             *)
(*                                                                         *)
(* The layer above serialises the changes of one server, so one Writer     *)
(* stands for all of them.  A connection test takes no such mutex.         *)
(***************************************************************************)
EXTENDS Integers, FiniteSets

CONSTANTS
  Writer,        \* the holder of the fleet mutex of this server
  Testers,       \* goroutines that test the connection
  Keeper,        \* Service.Update and the sweep of the pool
  NoOne,         \* a free mutex
  Contents,      \* the whole files somebody may write
  Part,          \* a file that was cut short or mixed
  NoFile,        \* no temporary file
  NoCommand,     \* no command is outstanding
  Stray,         \* the place of a command nobody waits for any more
  Endpoints,     \* what sameEndpoint compares
  FirstEndpoint, \* that of the record at first
  FirstFiles,    \* the files the server may hold at first
  Kinds,         \* the transports this server may have
  MaxChanges,    \* bound: changes of the writer
  MaxTests,      \* bound: tests of each tester
  MaxSaves,      \* bound: saved server records and sweeps
  MaxFaults      \* bound: hand edits, restarts of the target, short transfers, silences

Callers == {Writer} \cup Testers
MaxJobs(t) == IF t = Writer THEN MaxChanges ELSE MaxTests
Slots == Callers \cup {Stray}

(* A transport nobody refers to any more is reused for the next one. *)
Transports == 1 .. Cardinality(Callers) + 2
NoTransport == 0

ASSUME TransportAssumption ==
  /\ Writer \notin Testers /\ IsFiniteSet(Testers)
  /\ {Keeper, NoOne, Stray} \cap Callers = {}
  /\ Keeper # NoOne
  /\ FirstEndpoint \in Endpoints /\ FirstFiles \subseteq Contents
  /\ Part \notin Contents /\ NoFile \notin Contents \cup {Part}
  /\ Kinds \subseteq {"ssh", "agent"}
  /\ MaxChanges \in Nat /\ MaxTests \in Nat /\ MaxSaves \in Nat /\ MaxFaults \in Nat

VARIABLES
  kind,       \* Config.Kind
  file,       \* the records file on the target
  tmp,        \* the temporary file beside it
  cmd,        \* the outstanding command of each slot
  record,     \* the endpoint of the server record
  entry,      \* the transport of the pool entry
  made,       \* the endpoint it was built for
  pool,       \* who holds the mutex of the pool
  mutex,      \* who holds the mutex of each transport
  keeper,     \* where Pool.Remove is
  pc,         \* where each caller is
  cfg,        \* the endpoint it read with the record
  via,        \* the transport it was given
  got,        \* the content it read last
  want,       \* the content it writes
  said,       \* how the last change ended
  jobs,       \* jobs of each caller so far
  saves,      \* saved records and sweeps so far
  faults,     \* disturbances so far
  silent,     \* the server opens no SSH session and refuses none
  stirred,    \* history: the file changed behind the writer since it read it
  loose       \* history: what let SSH commands of two calls be under way at once

remote  == <<kind, file, tmp>>
pooling == <<record, entry, made, pool, keeper, saves>>
caller  == <<pc, cfg, via, got, want, said>>
vars    == <<remote, cmd, pooling, mutex, caller, jobs, faults, silent, stirred, loose>>

(* A command is sent, its bytes go to the temporary file, to the records   *)
(* file the temporary one has become, or nowhere, and it is done.  Its     *)
(* answer is the digest of what it brought, or that of something else.     *)
Command == [op : {"transfer", "move", "put"}, expect : Contents \cup {Part},
            data : Contents \cup {Part}, sum : Contents \cup {Part},
            at : {"sent", "tmp", "file", "lost", "done"}, cut : BOOLEAN]

ASSUME CommandAssumption == NoCommand \notin Command

(* A command outlived its call, or a call ran on a second transport. *)
Causes == {"late", "beside"}

Point == {"idle", "get", "swap", "first", "read", "second", "check",
          "transfer", "move", "put", "third", "reread"}

TypeOK ==
  /\ kind \in Kinds
  /\ file \in Contents \cup {Part} /\ tmp \in Contents \cup {Part, NoFile}
  /\ cmd \in [Slots -> Command \cup {NoCommand}]
  /\ record \in Endpoints /\ entry \in Transports \cup {NoTransport}
  /\ made \in Endpoints
  /\ pool \in Callers \cup {Keeper, NoOne}
  /\ mutex \in [Transports -> Callers \cup {NoOne}]
  /\ keeper \in {"idle", "remove", "close"}
  /\ pc \in [Callers -> Point] /\ cfg \in [Callers -> Endpoints]
  /\ via \in [Callers -> Transports \cup {NoTransport}]
  /\ got \in [Callers -> Contents \cup {Part}] /\ want \in [Callers -> Contents \cup {Part}]
  /\ said \in {"nothing", "ok", "conflict", "failed"}
  /\ jobs \in [Callers -> Nat] /\ saves \in 0..MaxSaves /\ faults \in 0..MaxFaults
  /\ silent \in BOOLEAN /\ stirred \in BOOLEAN /\ loose \subseteq Causes

Init ==
  /\ kind \in Kinds
  /\ file \in FirstFiles /\ tmp = NoFile
  /\ cmd = [s \in Slots |-> NoCommand]
  /\ record = FirstEndpoint /\ entry = NoTransport
  /\ made = record
  /\ pool = NoOne /\ mutex = [i \in Transports |-> NoOne] /\ keeper = "idle"
  /\ pc = [t \in Callers |-> "idle"] /\ cfg = [t \in Callers |-> record]
  /\ via = [t \in Callers |-> NoTransport]
  /\ got = [t \in Callers |-> file] /\ want = [t \in Callers |-> file]
  /\ said = "nothing"
  /\ jobs = [t \in Callers |-> 0] /\ saves = 0 /\ faults = 0
  /\ silent = FALSE /\ stirred = FALSE /\ loose = {}

-----------------------------------------------------------------------------
(* Helpers. *)

At(t, p) == pc[t] = p
Goto(t, p) == pc' = [pc EXCEPT ![t] = p]

Disturb == faults < MaxFaults /\ faults' = faults + 1

Quiet == \A t \in Callers : At(t, "idle")

(* Inside a call, with the mutex of its transport. *)
Holding == {"read", "check", "transfer", "move", "put", "reread"}

(* newSession: opening a session waits for the server with no deadline.    *)
Opens == kind = "ssh" => ~ silent

(* Closing an SSH transport waits for its mutex; an agent transport only   *)
(* hands back idle connections.                                            *)
Closable(i) == kind = "ssh" => mutex[i] = NoOne

Spare == CHOOSE i \in Transports : i # entry /\ \A t \in Callers : via[t] # i

Unlock(t) == mutex' = [mutex EXCEPT ![via[t]] = NoOne]

(* A job ends and forgets what it knew. *)
End(t, how) ==
  /\ Goto(t, "idle")
  /\ said' = IF t = Writer THEN how ELSE said
  /\ via' = [via EXCEPT ![t] = NoTransport]
  /\ got' = [got EXCEPT ![t] = CHOOSE c \in Contents : TRUE]
  /\ want' = [want EXCEPT ![t] = CHOOSE c \in Contents : TRUE]
  /\ cfg' = [cfg EXCEPT ![t] = FirstEndpoint]

-----------------------------------------------------------------------------
(* The pool. *)

(* A job reads the record of the server; the writer holds its mutex by now.*)
Begin(t) ==
  /\ At(t, "idle")
  /\ jobs[t] < MaxJobs(t) /\ jobs' = [jobs EXCEPT ![t] = @ + 1]
  /\ Goto(t, "get")
  /\ cfg' = [cfg EXCEPT ![t] = record]
  /\ said' = IF t = Writer THEN "nothing" ELSE said
  /\ UNCHANGED <<remote, cmd, pooling, mutex, via, got, want, faults, silent, stirred, loose>>

(* A new transport takes the entry. *)
Build(t) ==
  /\ entry' = Spare
  /\ made' = cfg[t]
  /\ via' = [via EXCEPT ![t] = Spare]
  /\ Goto(t, "first")

(* Pool.Get: the transport at hand, a first one, or one in the place of a  *)
(* transport of another endpoint, which is closed first.                   *)
Get(t) ==
  /\ At(t, "get")
  /\ pool = NoOne
  /\ \/ /\ entry # NoTransport /\ made = cfg[t]
        /\ via' = [via EXCEPT ![t] = entry]
        /\ Goto(t, "first")
        /\ UNCHANGED <<entry, made, pool>>
     \/ entry = NoTransport /\ Build(t) /\ UNCHANGED pool
     \/ /\ entry # NoTransport /\ made # cfg[t]
        /\ pool' = t
        /\ Goto(t, "swap")
        /\ UNCHANGED <<entry, made, via>>
  /\ UNCHANGED <<remote, cmd, record, keeper, saves, mutex, cfg, got, want, said,
                 jobs, faults, silent, stirred, loose>>

Swap(t) ==
  /\ At(t, "swap")
  /\ Closable(entry)
  /\ Build(t)
  /\ pool' = NoOne
  /\ UNCHANGED <<remote, cmd, record, keeper, saves, mutex, cfg, got, want, said,
                 jobs, faults, silent, stirred, loose>>

(* Service.Update stores the record and removes the transport, whatever    *)
(* changed; a sweep closes one that nobody asked the pool for in a while,  *)
(* which a caller may still have.                                          *)
Save ==
  /\ keeper = "idle"
  /\ saves < MaxSaves /\ saves' = saves + 1
  /\ record' \in Endpoints
  /\ keeper' = "remove"
  /\ UNCHANGED <<remote, cmd, entry, made, pool, mutex, caller, jobs, faults, silent, stirred, loose>>

Sweep ==
  /\ keeper = "idle"
  /\ pool = NoOne
  /\ entry # NoTransport
  /\ saves < MaxSaves /\ saves' = saves + 1
  /\ keeper' = "close" /\ pool' = Keeper
  /\ UNCHANGED <<remote, cmd, record, entry, made, mutex, caller, jobs, faults,
                 silent, stirred, loose>>

(* Pool.Remove holds the mutex of the pool while it closes the transport.  *)
Remove ==
  /\ keeper = "remove"
  /\ pool = NoOne
  /\ IF entry = NoTransport
       THEN keeper' = "idle" /\ UNCHANGED pool
       ELSE keeper' = "close" /\ pool' = Keeper
  /\ UNCHANGED <<remote, cmd, record, entry, made, saves, mutex, caller, jobs, faults,
                 silent, stirred, loose>>

Close ==
  /\ keeper = "close"
  /\ Closable(entry)
  /\ entry' = NoTransport
  /\ pool' = NoOne
  /\ keeper' = "idle"
  /\ UNCHANGED <<remote, cmd, record, made, saves, mutex, caller, jobs, faults, silent, stirred, loose>>
-----------------------------------------------------------------------------
(* The callers. *)

(* Every call takes the mutex of its transport; a whole SSH probe is one.  *)
(* A call over a second transport starts inside one over the first.        *)
After == [first |-> "read", second |-> IF kind = "ssh" THEN "check" ELSE "put",
          third |-> "reread"]

Lock(t) ==
  /\ pc[t] \in DOMAIN After
  /\ mutex[via[t]] = NoOne
  /\ mutex' = [mutex EXCEPT ![via[t]] = t]
  /\ Goto(t, After[pc[t]])
  /\ loose' = loose \cup {c \in {"beside"} :
                           kind = "ssh" /\ \E u \in Callers : pc[u] \in Holding /\ via[u] # via[t]}
  /\ UNCHANGED <<remote, cmd, pooling, cfg, via, got, want, said, jobs, faults, silent,
                 stirred>>

(* The agent answers no read while it replaces the file. *)
AgentBusy == \E s \in Slots : cmd[s] # NoCommand /\ cmd[s].op = "put" /\ cmd[s].at = "tmp"

(* ReadRecords, and the read of a probe.  The writer changes what it read; *)
(* a test writes it back as it is.                                         *)
Read(t) ==
  /\ At(t, "read")
  /\ Opens
  /\ ~ AgentBusy
  /\ got' = [got EXCEPT ![t] = file]
  /\ \E c \in IF t = Writer THEN Contents \ {file} ELSE {file} :
       want' = [want EXCEPT ![t] = c]
  /\ IF t # Writer /\ kind = "ssh"
       THEN Goto(t, "transfer") /\ UNCHANGED mutex
       ELSE Goto(t, "second") /\ Unlock(t)
  /\ stirred' = (stirred /\ t # Writer)
  /\ UNCHANGED <<remote, cmd, pooling, cfg, via, said, jobs, faults, silent, loose>>

(* A read that fails: the server cannot be reached, or does not answer.    *)
ReadFails(t) ==
  /\ pc[t] \in {"read", "check", "reread"}
  /\ Opens
  /\ End(t, "failed")
  /\ Unlock(t)
  /\ UNCHANGED <<remote, cmd, pooling, jobs, faults, silent, stirred, loose>>

(* Mutant: the second read is not compared with the first. *)
CheckNothing(t) ==
  /\ At(t, "check")
  /\ Opens
  /\ Goto(t, "transfer")
  /\ UNCHANGED <<remote, cmd, pooling, cfg, via, got, want, said, mutex, jobs, faults,
                 silent, stirred, loose>>

(* SSHTransport.WriteRecords: the file is read again and compared. *)
Check(t) ==
  /\ At(t, "check")
  /\ Opens
  /\ IF file = got[t]
       THEN Goto(t, "transfer") /\ UNCHANGED <<cfg, via, got, want, said, mutex>>
       ELSE End(t, "conflict") /\ Unlock(t)
  /\ UNCHANGED <<remote, cmd, pooling, jobs, faults, silent, stirred, loose>>

(* A command, or the one request that replaces an agent's file, is sent.   *)
Send(t) ==
  /\ pc[t] \in {"transfer", "move", "put"}
  /\ Opens
  /\ cmd[t] = NoCommand
  /\ cmd' = [cmd EXCEPT ![t] =
               [op |-> pc[t], expect |-> got[t], data |-> want[t], sum |-> Part,
                at |-> "sent", cut |-> FALSE]]
  /\ UNCHANGED <<remote, pooling, mutex, caller, jobs, faults, silent, stirred, loose>>

(* The digest of the transfer must be that of the content before the move, *)
(* and a refused request of an agent is a conflict.                        *)
Answer(t) ==
  /\ cmd[t] # NoCommand /\ cmd[t].at = "done" /\ ~ cmd[t].cut
  /\ cmd' = [cmd EXCEPT ![t] = NoCommand]
  /\ CASE cmd[t].sum # cmd[t].data ->
            /\ End(t, IF cmd[t].op = "put" THEN "conflict" ELSE "failed")
            /\ Unlock(t)
       [] cmd[t].sum = cmd[t].data /\ cmd[t].op = "transfer" ->
            Goto(t, "move") /\ UNCHANGED <<cfg, via, got, want, said, mutex>>
       [] cmd[t].sum = cmd[t].data /\ cmd[t].op # "transfer" ->
            IF t = Writer THEN End(t, "ok") /\ Unlock(t)
            ELSE IF kind = "ssh"
              THEN Goto(t, "reread") /\ UNCHANGED <<cfg, via, got, want, said, mutex>>
              ELSE Goto(t, "third") /\ UNCHANGED <<cfg, via, got, want, said>> /\ Unlock(t)
  /\ UNCHANGED <<remote, pooling, jobs, faults, silent, stirred, loose>>

(* A test reads the file once more and compares. *)
Reread(t) ==
  /\ At(t, "reread")
  /\ Opens
  /\ ~ AgentBusy
  /\ End(t, IF file = got[t] THEN "ok" ELSE "failed")
  /\ Unlock(t)
  /\ UNCHANGED <<remote, cmd, pooling, jobs, faults, silent, stirred, loose>>

(* Mutant: only an answer ends the wait for one. *)
TimeoutOnAnswer(t) ==
  /\ kind = "ssh"
  /\ cmd[t] # NoCommand /\ ~ cmd[t].cut /\ cmd[t].at = "done"
  /\ cmd' = [cmd EXCEPT ![t].cut = TRUE]
  /\ UNCHANGED <<remote, pooling, mutex, caller, jobs, faults, silent, stirred, loose>>

(* The deadline of a remote command, a cancelled request or a lost         *)
(* connection: the session is closed.                                      *)
Timeout(t) ==
  /\ kind = "ssh"
  /\ cmd[t] # NoCommand /\ ~ cmd[t].cut
  /\ cmd' = [cmd EXCEPT ![t].cut = TRUE]
  /\ UNCHANGED <<remote, pooling, mutex, caller, jobs, faults, silent, stirred, loose>>

(* The call returns: the command has ended, or goes on with nobody waiting *)
(* for it, one at a time (a bound).  A request to an agent is given up at  *)
(* once.                                                                   *)
GiveUp(t) ==
  /\ cmd[t] # NoCommand /\ (cmd[t].cut \/ kind = "agent")
  /\ \/ cmd' = [cmd EXCEPT ![t] = NoCommand] /\ UNCHANGED loose
     \/ /\ cmd[t].at # "done" /\ cmd[Stray] = NoCommand
        /\ cmd' = [cmd EXCEPT ![t] = NoCommand, ![Stray] = cmd[t]]
        /\ loose' = loose \cup {c \in {"late"} : kind = "ssh"}
  /\ End(t, "failed")
  /\ Unlock(t)
  /\ UNCHANGED <<remote, pooling, jobs, faults, silent, stirred>>

-----------------------------------------------------------------------------
(* The target. *)

(* A command goes on; a stray one that is done is forgotten. *)
Goes(s, m) ==
  cmd' = [cmd EXCEPT ![s] = IF s = Stray /\ m.at = "done" THEN NoCommand ELSE m]

Runs(s, op, at) == cmd[s] # NoCommand /\ cmd[s].op = op /\ cmd[s].at \in at

Stirs(s) == stirred' = (stirred \/ (s = Stray /\ file' # file))

(* tee truncates the temporary file, *)
Open(s) ==
  /\ Runs(s, "transfer", {"sent"})
  /\ tmp' = Part
  /\ Goes(s, [cmd[s] EXCEPT !.at = "tmp"])
  /\ UNCHANGED <<kind, file, pooling, mutex, caller, jobs, faults, silent, stirred, loose>>

(* and writes what it is sent, or less: the stream of a closed session     *)
(* ends, a full disk is ignored, another tee writes the same file.  The    *)
(* digest is taken of whatever bears the temporary name then.              *)
Fill(s) ==
  LET m == cmd[s]
      shared == \E r \in Slots \ {s} : Runs(r, "transfer", {m.at})
  IN /\ Runs(s, "transfer", {"tmp", "file", "lost"})
     /\ \E c \in {m.data, Part} :
          /\ \/ (c = m.data \/ m.cut \/ shared) /\ UNCHANGED faults
             \/ c = Part /\ Disturb
          /\ tmp' = IF m.at = "tmp" THEN c ELSE tmp
          /\ file' = IF m.at = "file" THEN c ELSE file
     /\ Goes(s, [m EXCEPT !.at = "done", !.sum = IF tmp' = NoFile THEN Part ELSE tmp'])
     /\ Stirs(s)
     /\ UNCHANGED <<kind, pooling, mutex, caller, jobs, silent, loose>>

(* mv puts the temporary file in place, with whoever is still writing it.  *)
Moved(m) ==
  IF m = NoCommand \/ m.op # "transfer" THEN m
  ELSE IF m.at = "tmp" THEN [m EXCEPT !.at = "file"]
  ELSE IF m.at = "file" THEN [m EXCEPT !.at = "lost"] ELSE m

Move(s) ==
  /\ Runs(s, "move", {"sent"})
  /\ LET m == [cmd[s] EXCEPT !.at = "done", !.sum = IF tmp = NoFile THEN Part ELSE cmd[s].data]
     IN IF tmp = NoFile
          THEN Goes(s, m) /\ UNCHANGED <<file, tmp>>
          ELSE /\ file' = tmp /\ tmp' = NoFile
               /\ cmd' = [r \in Slots |->
                            IF r # s THEN Moved(cmd[r])
                            ELSE IF s = Stray THEN NoCommand ELSE m]
  /\ Stirs(s)
  /\ UNCHANGED <<kind, pooling, mutex, caller, jobs, faults, silent, loose>>

(* Mutant: the request of a test names no digest. *)
CompareWriters(s) ==
  /\ Runs(s, "put", {"sent"})
  /\ ~ AgentBusy
  /\ IF file = cmd[s].expect \/ s \in Testers
       THEN Goes(s, [cmd[s] EXCEPT !.at = "tmp"]) /\ tmp' = Part
       ELSE Goes(s, [cmd[s] EXCEPT !.at = "done"]) /\ UNCHANGED tmp
  /\ UNCHANGED <<kind, file, pooling, mutex, caller, jobs, faults, silent, stirred, loose>>

(* Agent.writeRecords under the agent's mutex: the file is compared, *)
Compare(s) ==
  /\ Runs(s, "put", {"sent"})
  /\ ~ AgentBusy
  /\ IF file = cmd[s].expect
       THEN Goes(s, [cmd[s] EXCEPT !.at = "tmp"]) /\ tmp' = Part
       ELSE Goes(s, [cmd[s] EXCEPT !.at = "done"]) /\ UNCHANGED tmp
  /\ UNCHANGED <<kind, file, pooling, mutex, caller, jobs, faults, silent, stirred, loose>>

(* and replaceFile moves the staged copy into place. *)
Rename(s) ==
  /\ Runs(s, "put", {"tmp"})
  /\ file' = cmd[s].data
  /\ tmp' = NoFile
  /\ Goes(s, [cmd[s] EXCEPT !.at = "done", !.sum = cmd[s].data])
  /\ Stirs(s)
  /\ UNCHANGED <<kind, pooling, mutex, caller, jobs, faults, silent, loose>>

HandEdit ==
  /\ Disturb
  /\ file' \in Contents \ {file}
  /\ stirred' = TRUE
  /\ UNCHANGED <<kind, tmp, cmd, pooling, mutex, caller, jobs, silent, loose>>

(* The target or its agent restarts: whatever it was doing is over. *)
Restart ==
  /\ Disturb
  /\ \E s \in Slots : cmd[s] # NoCommand /\ cmd[s].at # "done"
  /\ cmd' = [s \in Slots |->
               IF s = Stray \/ cmd[s] = NoCommand \/ cmd[s].at = "done"
                 THEN IF s = Stray THEN NoCommand ELSE cmd[s]
                 ELSE [cmd[s] EXCEPT !.at = "done", !.cut = TRUE]]
  /\ UNCHANGED <<remote, pooling, mutex, caller, jobs, silent, stirred, loose>>

(* A server that keeps its connections and opens no session on them, until *)
(* it answers again or the connection breaks.                              *)
GoSilent ==
  /\ kind = "ssh" /\ ~ silent
  /\ Disturb
  /\ silent' = TRUE
  /\ UNCHANGED <<remote, cmd, pooling, mutex, caller, jobs, stirred, loose>>

Speak ==
  /\ silent /\ silent' = FALSE
  /\ UNCHANGED <<remote, cmd, pooling, mutex, caller, jobs, faults, stirred, loose>>

-----------------------------------------------------------------------------
Caller(t) ==
  \/ Get(t) \/ Swap(t) \/ Lock(t) \/ Read(t) \/ ReadFails(t) \/ Check(t)
  \/ Send(t) \/ Answer(t) \/ Reread(t) \/ Timeout(t) \/ GiveUp(t)

Pooling == Remove \/ Close

Target ==
  \/ \E s \in Slots : Open(s) \/ Fill(s) \/ Move(s) \/ Compare(s) \/ Rename(s)
  \/ HandEdit \/ Restart \/ GoSilent \/ Speak

(* The bound on jobs is spent. *)
Rest == (\A t \in Callers : jobs[t] = MaxJobs(t)) /\ Quiet /\ keeper = "idle" /\ UNCHANGED vars

Next ==
  \/ \E t \in Callers : Begin(t) \/ Caller(t)
  \/ Save \/ Sweep \/ Pooling
  \/ Target
  \/ Rest

(* Goroutines run and deadlines pass; a target need not answer, and nobody *)
(* need ask for anything.                                                  *)
Spec ==
  /\ Init /\ [][Next]_vars
  /\ \A t \in Callers : WF_vars(Caller(t))
  /\ WF_vars(Pooling)

-----------------------------------------------------------------------------
(* Properties. *)

(* The requests that may still replace the file.  An SSH write compares by *)
(* itself and holds what it compared until its move is done.               *)
Ask(m) == [expect |-> m.expect, data |-> m.data, armed |-> m.op = "move" \/ m.at = "tmp"]

Asks ==
  {Ask(cmd[s]) : s \in {r \in Slots : cmd[r] # NoCommand /\ cmd[r].op # "transfer"
                                      /\ cmd[r].at # "done"}}
  \cup
  {[expect |-> got[t], data |-> want[t], armed |-> TRUE] :
     t \in {u \in Callers : At(u, "transfer") \/ (At(u, "move") /\ cmd[u] = NoCommand)}}

Guarded == INSTANCE GuardedFile WITH asks <- Asks, broken <- loose # {}

(* Transport.WriteRecords: "The write is refused when the remote file no   *)
(* longer matches it": whatever times out, restarts or is tested meanwhile,*)
(* the file is replaced as a whole, by one request at a time, and only     *)
(* over the content that request expects.  An agent keeps this always; SSH *)
(* until a command outlives its call, or two transports reach the server.  *)
ReplacesWhatWasSeen == Guarded!Spec

(* ErrConflict: "the remote file changed since it was read": a change is   *)
(* not refused over a connection test that ran beside it, as long as the   *)
(* calls are apart.                                                        *)
ConflictsHaveACause == said = "conflict" => stirred \/ loose # {}

Returns ==
  /\ \A t \in Callers : pc[t] # "idle" ~> pc[t] = "idle"
  /\ keeper # "idle" ~> keeper = "idle"

(* run: a command that is never answered ends at its deadline, so every    *)
(* call returns, and so does whoever waits for it to close a transport, if *)
(* the server does not leave a session unopened for ever.                  *)
CallsReturn == <>[] ~ silent => Returns

-----------------------------------------------------------------------------
(* What the repository says of an SSH server, and the code does not keep.  *)

(* run: "would otherwise hold this goroutine and the transport mutex for   *)
(* good": every call returns, whatever the server does.                    *)
EveryCallReturns == Returns

(* writeLocked: "Either the old file or the new one is in place, never a   *)
(* half written one."                                                      *)
NeverHalfWritten == file # Part

(* Probe: "Write the file back byte for byte. The whole path is exercised  *)
(* and the content does not change": the move of a test puts in place what *)
(* is there, if no command has outlived its call.                          *)
TestsChangeNothing ==
  [][\A t \in Testers : "late" \notin loose /\ pc[t] = "move" /\ cmd[t] # NoCommand /\ cmd[t].at = "sent"
                        /\ cmd'[t] # NoCommand /\ cmd'[t].at = "done"
       => file' = file]_vars
=============================================================================
