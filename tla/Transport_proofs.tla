--------------------------- MODULE Transport_proofs ---------------------------
(***************************************************************************)
(* Transport keeps the promise of GuardedFile, and refuses no change over  *)
(* a connection test, for every number of tests, contents, endpoints,      *)
(* changes and faults, until loose names a cause, which it only does over  *)
(* SSH: a command outlived its call, or calls ran over two transports.     *)
(*                                                                         *)
(* Until then the mutex of the transport keeps the SSH callers apart.  An  *)
(* agent keeps its requests apart by itself, whatever outlives what.       *)
(***************************************************************************)
EXTENDS Transport, FiniteSetTheorems, TLAPS

-----------------------------------------------------------------------------
(* The inductive invariant. *)

(* Part stays in the temporary file. *)
WholeCommand == [op : {"transfer", "move", "put"}, expect : Contents, data : Contents,
                 sum : Contents \cup {Part}, at : {"sent", "tmp", "done"}, cut : BOOLEAN]
Types ==
  /\ kind \in Kinds
  /\ file \in Contents /\ tmp \in Contents \cup {Part, NoFile}
  /\ cmd \in [Slots -> WholeCommand \cup {NoCommand}]
  /\ record \in Endpoints /\ entry \in Transports \cup {NoTransport}
  /\ made \in Endpoints
  /\ pool \in Callers \cup {Keeper, NoOne}
  /\ mutex \in [Transports -> Callers \cup {NoOne}]
  /\ keeper \in {"idle", "remove", "close"}
  /\ pc \in [Callers -> Point] /\ cfg \in [Callers -> Endpoints]
  /\ via \in [Callers -> Transports \cup {NoTransport}]
  /\ got \in [Callers -> Contents] /\ want \in [Callers -> Contents]
  /\ said \in {"nothing", "ok", "conflict", "failed"}
  /\ jobs \in [Callers -> Nat] /\ saves \in 0..MaxSaves /\ faults \in 0..MaxFaults
  /\ stirred \in BOOLEAN

(* A caller has its transport after Get, and its mutex inside a call.      *)
Without == {"idle", "get", "swap"}
Placed == \A t \in Callers : via[t] = NoTransport <=> pc[t] \in Without
Held == \A t \in Callers : pc[t] \in Holding => mutex[via[t]] = t

(* One caller at a time is inside an SSH call. *)
Alone == kind = "ssh" =>
  \A t, u \in Callers : pc[t] \in Holding /\ pc[u] \in Holding => t = u

(* Each kind has its own steps, and a command is that of the step. *)
Step(t) ==
  /\ kind = "ssh" => pc[t] # "put"
  /\ kind = "agent" => pc[t] \notin {"check", "transfer", "move"}
  /\ t \in Testers => want[t] = got[t]
Command1(t) ==
  cmd[t] # NoCommand =>
    /\ cmd[t].op = pc[t] /\ cmd[t].expect = got[t] /\ cmd[t].data = want[t]
    /\ cmd[t].op = "move" => cmd[t].at # "tmp"
    /\ cmd[t].op = "transfer" /\ cmd[t].at = "done" /\ ~ cmd[t].cut =>
         cmd[t].sum = IF tmp = NoFile THEN Part ELSE tmp
Moving(t) == pc[t] = "move" /\ (cmd[t] = NoCommand \/ cmd[t].at = "sent")
Replacing(s) == cmd[s] # NoCommand /\ cmd[s].op = "put" /\ cmd[s].at = "tmp"
Commands ==
  /\ \A t \in Callers : Step(t) /\ Command1(t) /\ (Moving(t) => tmp = want[t])
  /\ cmd[Stray] # NoCommand => kind = "agent" /\ cmd[Stray].op = "put"
  /\ \A r, s \in Slots : Replacing(r) /\ Replacing(s) => r = s

(* Between a test's look at the file and its replacement, and between the  *)
(* writer's look and the comparison, only a stirred file changes.          *)
Armed(t) == pc[t] = "transfer" \/ Moving(t) \/ Replacing(t)
Waiting == pc[Writer] \in {"second", "check"}
           \/ (pc[Writer] = "put" /\ (cmd[Writer] = NoCommand \/ cmd[Writer].at = "sent"))
Refused == cmd[Writer] # NoCommand /\ cmd[Writer].op = "put" /\ cmd[Writer].at = "done"
           /\ ~ cmd[Writer].cut /\ cmd[Writer].sum # cmd[Writer].data
Watched ==
  /\ \A t \in Testers : Armed(t) /\ ~ stirred => file = got[t]
  /\ Waiting /\ ~ stirred => file = got[Writer]
  /\ Refused => stirred
  /\ said = "conflict" => stirred /\ pc[Writer] = "idle"

IInv == Types /\ Placed /\ Held /\ Alone /\ Commands /\ Watched

(* What holds of every behavior. *)
Sound == loose = {} => IInv

-----------------------------------------------------------------------------
(* There is a transport nobody refers to. *)
LEMMA CallersAreFinite == IsFiniteSet(Callers) /\ Cardinality(Callers) \in Nat
<1>1. IsFiniteSet(Callers)
  BY TransportAssumption, FS_AddElement DEF Callers
<1>. QED  BY <1>1, FS_CardinalityType

LEMMA SpareIsFree ==
  ASSUME Types
  PROVE  Spare \in Transports /\ Spare # entry /\ Spare # NoTransport /\ \A t \in Callers : via[t] # Spare
<1> DEFINE n == Cardinality(Callers)
           V == {via[t] : t \in Callers}
<1>1. IsFiniteSet(V) /\ Cardinality(V) <= n
  <2>1. via \in Surjection(Callers, V)
    BY DEF Types, Surjection
  <2>. QED  BY <2>1, CallersAreFinite, FS_Surjection
<1>2. IsFiniteSet(V \cup {entry}) /\ Cardinality(V \cup {entry}) <= n + 1
  <2> HIDE DEF V, n
  <2>1. Cardinality(V) \in Nat /\ n \in Nat
    BY <1>1, CallersAreFinite, FS_CardinalityType DEF n
  <2>. QED  BY <1>1, <2>1, FS_AddElement
<1>3. Cardinality(Transports) = n + 2
  <2> HIDE DEF n
  <2>1. n \in Nat /\ Transports = 1 .. n + 2
    BY CallersAreFinite DEF n, Transports
  <2>2. 1 \in Int /\ n + 2 \in Int
    BY <2>1
  <2>3. Cardinality(1 .. n + 2) = IF 1 > n + 2 THEN 0 ELSE (n + 2) - 1 + 1
    BY <2>2, FS_Interval
  <2>. QED  BY <2>1, <2>3
<1>4. ~ (Transports \subseteq V \cup {entry})
  <2> SUFFICES ASSUME Transports \subseteq V \cup {entry} PROVE FALSE
    OBVIOUS
  <2> HIDE DEF V
  <2>1. Cardinality(Transports) <= Cardinality(V \cup {entry})
    BY <1>2, FS_Subset
  <2>2. Cardinality(V \cup {entry}) \in Nat /\ n \in Nat
    BY <1>2, CallersAreFinite, FS_CardinalityType
  <2> HIDE DEF n
  <2>. QED  BY <1>2, <1>3, <2>1, <2>2
<1>5. \E i \in Transports : i # entry /\ \A t \in Callers : via[t] # i
  BY <1>4
<1>6. Spare \in Transports /\ Spare # entry /\ \A t \in Callers : via[t] # Spare
  BY <1>5, Zenon DEF Spare
<1>7. NoTransport \notin Transports
  BY DEF NoTransport, Transports
<1>. QED  BY <1>6, <1>7

(* What the proofs need of the constants. *)
LEMMA Distinct ==
  /\ Writer \in Callers /\ Writer \notin Testers /\ Testers \subseteq Callers
  /\ Callers \subseteq Slots /\ Stray \in Slots /\ Stray \notin Callers
  /\ \A s \in Slots : s # Stray => s \in Callers
  /\ NoOne \notin Callers /\ Keeper \notin Callers /\ Keeper # NoOne
  /\ NoTransport \notin Transports
  /\ Part \notin Contents /\ NoFile \notin Contents \cup {Part}
  /\ FirstFiles \subseteq Contents /\ FirstEndpoint \in Endpoints
  /\ Kinds \subseteq {"ssh", "agent"}
BY TransportAssumption DEF Callers, Slots, NoTransport, Transports

LEMMA NoCommandIsNone == ASSUME NEW m \in WholeCommand PROVE m # NoCommand
<1>1. m \in Command
  BY DEF WholeCommand, Command
<1>. QED  BY <1>1, CommandAssumption

-----------------------------------------------------------------------------
(* Two callers over SSH. *)
LEMMA HoldersAreOne ==
  ASSUME IInv, kind = "ssh", NEW t \in Callers, NEW u \in Callers, pc[t] \in Holding, pc[u] \in Holding
  PROVE  t = u
BY DEF IInv, Alone

(* A transfer or a move has the target to itself. *)
LEMMA SessionsAreAlone ==
  ASSUME IInv, NEW s \in Slots, cmd[s] # NoCommand, cmd[s].op # "put"
  PROVE  /\ s \in Callers /\ s # Stray /\ kind = "ssh" /\ pc[s] = cmd[s].op
         /\ pc[s] \in {"transfer", "move"}
         /\ \A u \in Callers \ {s} : pc[u] \notin Holding
         /\ \A r \in Slots \ {s} : cmd[r] = NoCommand
<1>1. s # Stray
  BY DEF IInv, Commands
<1>2. s \in Callers
  BY <1>1, Distinct
<1>3. pc[s] = cmd[s].op /\ cmd[s] \in WholeCommand
  BY <1>2 DEF IInv, Commands, Command1, Types
<1>4. pc[s] \in {"transfer", "move"}
  BY <1>3 DEF WholeCommand
<1>5. kind = "ssh"
  BY <1>2, <1>4, Distinct DEF IInv, Commands, Step, Types
<1>6. \A u \in Callers \ {s} : pc[u] \notin Holding
  BY <1>2, <1>4, <1>5, HoldersAreOne DEF Holding
<1>7. ASSUME NEW r \in Slots \ {s}
      PROVE  cmd[r] = NoCommand
  <2>1. CASE r = Stray
    BY <1>5, <2>1 DEF IInv, Commands
  <2>2. CASE r \in Callers
    <3>1. SUFFICES ASSUME cmd[r] # NoCommand PROVE FALSE
      OBVIOUS
    <3>2. cmd[r] \in WholeCommand /\ pc[r] = cmd[r].op
      BY <2>2, <3>1 DEF IInv, Commands, Command1, Types
    <3>. QED  BY <1>6, <2>2, <3>2 DEF WholeCommand, Holding
  <2>. QED  BY <2>1, <2>2, Distinct
<1>. QED  BY <1>1, <1>2, <1>3, <1>4, <1>5, <1>6, <1>7

(* What the target does. *)
Rests == <<kind, pooling, mutex, caller, jobs>>

LEMMA OpenDoes ==
  ASSUME IInv, NEW s \in Slots, Open(s)
  PROVE  /\ cmd[s] \in WholeCommand /\ cmd[s] # NoCommand /\ cmd[s].op = "transfer"
         /\ cmd' = [cmd EXCEPT ![s] = [cmd[s] EXCEPT !.at = "tmp"]]
         /\ tmp' = Part
         /\ UNCHANGED <<Rests, file, faults, stirred>>
<1>1. cmd[s] # NoCommand /\ cmd[s].op = "transfer"
  BY DEF Open, Runs
<1>2. cmd[s] \in WholeCommand
  BY <1>1 DEF IInv, Types
<1>3. s # Stray
  BY <1>1, SessionsAreAlone
<1>. QED  BY <1>1, <1>2, <1>3 DEF Open, Goes, Rests

LEMMA FillDoes ==
  ASSUME IInv, NEW s \in Slots, Fill(s)
  PROVE  /\ cmd[s] \in WholeCommand /\ cmd[s] # NoCommand /\ cmd[s].op = "transfer"
         /\ cmd[s].at = "tmp"
         /\ tmp' \in {cmd[s].data, Part}
         /\ cmd' = [cmd EXCEPT ![s] = [cmd[s] EXCEPT !.at = "done", !.sum = tmp']]
         /\ UNCHANGED <<Rests, file, stirred>>
         /\ UNCHANGED faults \/ Disturb
<1>1. cmd[s] # NoCommand /\ cmd[s].op = "transfer" /\ cmd[s].at \in {"tmp", "file", "lost"}
  BY DEF Fill, Runs
<1>2. cmd[s] \in WholeCommand
  BY <1>1 DEF IInv, Types
<1>3. s # Stray
  BY <1>1, SessionsAreAlone
<1>4. cmd[s].at = "tmp"
  BY <1>1, <1>2 DEF WholeCommand
<1>5. tmp' \in {cmd[s].data, Part} /\ file' = file /\ (UNCHANGED faults \/ Disturb)
  BY <1>4 DEF Fill
<1>6. tmp' # NoFile
  BY <1>2, <1>5, Distinct DEF WholeCommand
<1>7. cmd' = [cmd EXCEPT ![s] = [cmd[s] EXCEPT !.at = "done", !.sum = tmp']]
  BY <1>3, <1>6 DEF Fill, Goes
<1>8. stirred' = stirred
  <2>1. stirred' = (stirred \/ (s = Stray /\ file' # file))
    BY DEF Fill, Stirs
  <2>. QED  BY <1>3, <2>1, Zenon DEF IInv, Types
<1>. QED  BY <1>1, <1>2, <1>4, <1>5, <1>7, <1>8 DEF Fill, Rests

LEMMA MoveDoes ==
  ASSUME IInv, NEW s \in Slots, Move(s)
  PROVE  /\ cmd[s] \in WholeCommand /\ cmd[s] # NoCommand /\ cmd[s].op = "move" /\ cmd[s].at = "sent"
         /\ s \in Callers /\ cmd[s].data = want[s] /\ cmd[s].expect = got[s]
         /\ file' = want[s] /\ tmp' = NoFile
         /\ cmd' = [cmd EXCEPT ![s] = [cmd[s] EXCEPT !.at = "done", !.sum = want[s]]]
         /\ UNCHANGED <<Rests, stirred, faults>>
<1>1. cmd[s] # NoCommand /\ cmd[s].op = "move" /\ cmd[s].at = "sent"
  BY DEF Move, Runs
<1>2. cmd[s] \in WholeCommand
  BY <1>1 DEF IInv, Types
<1>3. /\ s \in Callers /\ s # Stray /\ pc[s] = "move"
      /\ \A r \in Slots \ {s} : cmd[r] = NoCommand
  BY <1>1, SessionsAreAlone
<1>4. cmd[s].data = want[s] /\ cmd[s].expect = got[s] /\ tmp = want[s]
  BY <1>1, <1>3 DEF IInv, Commands, Command1, Moving
<1>5. tmp # NoFile
  BY <1>3, <1>4, Distinct DEF IInv, Types
<1>6. /\ file' = tmp /\ tmp' = NoFile
      /\ cmd' = [r \in Slots |->
                   IF r # s THEN Moved(cmd[r])
                   ELSE IF s = Stray THEN NoCommand
                   ELSE [cmd[s] EXCEPT !.at = "done", !.sum = IF tmp = NoFile THEN Part ELSE cmd[s].data]]
  BY <1>5 DEF Move
<1>7. \A r \in Slots : r # s => Moved(cmd[r]) = cmd[r]
  BY <1>3 DEF Moved
<1>8. cmd' = [r \in Slots |-> IF r # s THEN cmd[r]
                              ELSE [cmd[s] EXCEPT !.at = "done", !.sum = want[s]]]
  BY <1>3, <1>4, <1>5, <1>6, <1>7
<1>9. cmd' = [cmd EXCEPT ![s] = [cmd[s] EXCEPT !.at = "done", !.sum = want[s]]]
  BY <1>8 DEF IInv, Types
<1>10. stirred' = stirred
  <2>1. stirred' = (stirred \/ (s = Stray /\ file' # file))
    BY DEF Move, Stirs
  <2>. QED  BY <1>3, <2>1, Zenon DEF IInv, Types
<1>. QED  BY <1>1, <1>2, <1>3, <1>4, <1>6, <1>9, <1>10 DEF Move, Rests

(* A request to an agent is the caller's, or nobody waits for it any more. *)
LEMMA RequestsAreOf ==
  ASSUME IInv, NEW s \in Slots, cmd[s] # NoCommand, cmd[s].op = "put"
  PROVE  /\ cmd[s] \in WholeCommand /\ kind = "agent"
         /\ s # Stray => s \in Callers /\ pc[s] = "put" /\ cmd[s].expect = got[s] /\ cmd[s].data = want[s]
<1>1. s # Stray => s \in Callers /\ pc[s] = "put" /\ cmd[s].expect = got[s] /\ cmd[s].data = want[s]
  BY Distinct DEF IInv, Commands, Command1
<1>2. kind = "agent"
  BY <1>1, Distinct DEF IInv, Commands, Step, Types
<1>. QED  BY <1>1, <1>2 DEF IInv, Types

Done(s, m) == IF s = Stray THEN NoCommand ELSE m

LEMMA CompareDoes ==
  ASSUME IInv, NEW s \in Slots, Compare(s)
  PROVE  /\ cmd[s] # NoCommand /\ cmd[s].op = "put" /\ cmd[s].at = "sent" /\ ~ AgentBusy
         /\ \/ /\ file = cmd[s].expect /\ tmp' = Part
               /\ cmd' = [cmd EXCEPT ![s] = [cmd[s] EXCEPT !.at = "tmp"]]
            \/ /\ file # cmd[s].expect /\ tmp' = tmp
               /\ cmd' = [cmd EXCEPT ![s] = Done(s, [cmd[s] EXCEPT !.at = "done"])]
         /\ UNCHANGED <<Rests, file, faults, stirred>>
<1>1. cmd[s] # NoCommand /\ cmd[s].op = "put" /\ cmd[s].at = "sent" /\ ~ AgentBusy
  BY DEF Compare, Runs
<1>2. cmd[s] \in WholeCommand
  BY <1>1 DEF IInv, Types
<1>3. [cmd[s] EXCEPT !.at = "tmp"].at = "tmp" /\ [cmd[s] EXCEPT !.at = "done"].at = "done"
  BY <1>2 DEF WholeCommand
<1>. QED  BY <1>1, <1>3 DEF Compare, Goes, Done, Rests

LEMMA RenameDoes ==
  ASSUME IInv, NEW s \in Slots, Rename(s)
  PROVE  /\ cmd[s] # NoCommand /\ cmd[s].op = "put" /\ cmd[s].at = "tmp"
         /\ file' = cmd[s].data /\ tmp' = NoFile
         /\ cmd' = [cmd EXCEPT ![s] = Done(s, [cmd[s] EXCEPT !.at = "done", !.sum = cmd[s].data])]
         /\ stirred' = (stirred \/ (s = Stray /\ file' # file))
         /\ UNCHANGED <<Rests, faults>>
<1>1. cmd[s] # NoCommand /\ cmd[s].op = "put" /\ cmd[s].at = "tmp"
  BY DEF Rename, Runs
<1>2. cmd[s] \in WholeCommand
  BY <1>1 DEF IInv, Types
<1>3. [cmd[s] EXCEPT !.at = "done", !.sum = cmd[s].data].at = "done"
  BY <1>2 DEF WholeCommand
<1>. QED  BY <1>1, <1>3 DEF Rename, Goes, Done, Stirs, Rests

-----------------------------------------------------------------------------
(* What the callers do. *)
LEMMA EndDoes ==
  ASSUME Types, NEW t \in Callers, NEW how, End(t, how)
  PROVE  /\ pc' = [pc EXCEPT ![t] = "idle"] /\ via' = [via EXCEPT ![t] = NoTransport]
         /\ got' \in [Callers -> Contents] /\ want' \in [Callers -> Contents]
         /\ cfg' \in [Callers -> Endpoints]
         /\ got'[t] = want'[t]
         /\ \A u \in Callers \ {t} : got'[u] = got[u] /\ want'[u] = want[u] /\ cfg'[u] = cfg[u]
         /\ said' = IF t = Writer THEN how ELSE said
<1> DEFINE c == CHOOSE x \in Contents : TRUE
<1>1. c \in Contents
  BY DEF Types
<1>2. /\ got' = [got EXCEPT ![t] = c] /\ want' = [want EXCEPT ![t] = c]
      /\ cfg' = [cfg EXCEPT ![t] = FirstEndpoint]
  BY DEF End
<1> HIDE DEF c
<1>3. got' \in [Callers -> Contents] /\ want' \in [Callers -> Contents] /\ cfg' \in [Callers -> Endpoints]
  BY <1>1, <1>2, Distinct DEF Types
<1>4. got'[t] = want'[t]
  BY <1>2 DEF Types
<1>5. \A u \in Callers \ {t} : got'[u] = got[u] /\ want'[u] = want[u] /\ cfg'[u] = cfg[u]
  BY <1>2 DEF Types
<1>. QED  BY <1>3, <1>4, <1>5 DEF End, Goto

(* An answer refuses, fails, or lets the caller go on. *)
LEMMA AnswerDoes ==
  ASSUME IInv, NEW t \in Callers, Answer(t)
  PROVE  /\ cmd[t] \in WholeCommand /\ cmd[t] # NoCommand /\ cmd[t].at = "done" /\ ~ cmd[t].cut
         /\ cmd' = [cmd EXCEPT ![t] = NoCommand]
         /\ \/ /\ cmd[t].sum # cmd[t].data
               /\ End(t, IF cmd[t].op = "put" THEN "conflict" ELSE "failed") /\ Unlock(t)
            \/ /\ cmd[t].sum = cmd[t].data /\ cmd[t].op = "transfer"
               /\ Goto(t, "move") /\ UNCHANGED <<cfg, via, got, want, said, mutex>>
            \/ /\ cmd[t].sum = cmd[t].data /\ cmd[t].op # "transfer" /\ t = Writer
               /\ End(t, "ok") /\ Unlock(t)
            \/ /\ cmd[t].sum = cmd[t].data /\ cmd[t].op = "move" /\ t \in Testers
               /\ Goto(t, "reread") /\ UNCHANGED <<cfg, via, got, want, said, mutex>>
            \/ /\ cmd[t].sum = cmd[t].data /\ cmd[t].op = "put" /\ t \in Testers
               /\ Goto(t, "third") /\ UNCHANGED <<cfg, via, got, want, said>> /\ Unlock(t)
         /\ UNCHANGED <<remote, pooling, jobs, faults, stirred>>
<1>1. cmd[t] # NoCommand /\ cmd[t].at = "done" /\ ~ cmd[t].cut
  BY DEF Answer
<1>2. cmd[t] \in WholeCommand
  BY <1>1, Distinct DEF IInv, Types
<1>3. cmd[t].op = "move" => kind = "ssh"
  BY <1>1, Distinct, SessionsAreAlone
<1>4. cmd[t].op = "put" => kind = "agent"
  BY <1>1, Distinct, RequestsAreOf
<1>5. t # Writer => t \in Testers
  BY DEF Callers
<1>6. cmd[t].op \in {"transfer", "move", "put"}
  BY <1>2 DEF WholeCommand
<1>7. CASE cmd[t].sum # cmd[t].data
  BY <1>1, <1>2, <1>7 DEF Answer
<1>8. CASE cmd[t].sum = cmd[t].data /\ cmd[t].op = "transfer"
  BY <1>1, <1>2, <1>8 DEF Answer
<1>9. CASE cmd[t].sum = cmd[t].data /\ cmd[t].op # "transfer"
  BY <1>1, <1>2, <1>3, <1>4, <1>5, <1>6, <1>9 DEF Answer
<1>. QED  BY <1>7, <1>8, <1>9

-----------------------------------------------------------------------------
(* The types. *)
LEMMA EndKeepsTypes ==
  ASSUME Types, NEW t \in Callers, NEW how \in {"ok", "conflict", "failed"}, End(t, how),
         UNCHANGED <<remote, pooling, jobs, faults>>,
         mutex' \in [Transports -> Callers \cup {NoOne}],
         cmd' \in [Slots -> WholeCommand \cup {NoCommand}], stirred' = stirred
  PROVE  Types'
<1>1. /\ pc' \in [Callers -> Point] /\ via' \in [Callers -> Transports \cup {NoTransport}]
      /\ got' \in [Callers -> Contents] /\ want' \in [Callers -> Contents]
      /\ cfg' \in [Callers -> Endpoints]
  BY EndDoes, "idle" \in Point DEF Types, Point
<1>2. said' \in {"nothing", "ok", "conflict", "failed"}
  BY EndDoes DEF Types
<1>. QED  BY <1>1, <1>2, Zenon DEF Types, remote, pooling

LEMMA UnlockKeepsTypes ==
  ASSUME Types, NEW t \in Callers, Unlock(t)
  PROVE  mutex' \in [Transports -> Callers \cup {NoOne}]
BY DEF Types, Unlock

(* A command that is dropped, answered or not sent yet. *)
LEMMA CommandKeepsTypes ==
  ASSUME Types, NEW s \in Slots, NEW m \in WholeCommand \cup {NoCommand}, cmd' = [cmd EXCEPT ![s] = m]
  PROVE  cmd' \in [Slots -> WholeCommand \cup {NoCommand}]
BY DEF Types

LEMMA CallersKeepTypes ==
  ASSUME IInv, NEW t \in Callers, Begin(t) \/ Caller(t)
  PROVE  Types'
<1>1. Types
  BY DEF IInv
<1>2. t \in Slots /\ FirstEndpoint \in Endpoints
  BY Distinct
<1>3. CASE Begin(t)
  <2>1. pc' \in [Callers -> Point] /\ cfg' \in [Callers -> Endpoints] /\ jobs' \in [Callers -> Nat]
        /\ said' \in {"nothing", "ok", "conflict", "failed"}
    BY <1>1, <1>3 DEF Begin, Goto, Types, Point
  <2>2. UNCHANGED <<remote, cmd, pooling, mutex, via, got, want, faults, stirred>>
    BY <1>3 DEF Begin
  <2>. QED  BY <1>1, <2>1, <2>2, Zenon DEF Types, remote, pooling
<1>4. CASE Get(t) \/ Swap(t)
  <2>1. Spare \in Transports
    BY <1>1, SpareIsFree
  <2> HIDE DEF Spare
  <2>2. pc' \in [Callers -> Point] /\ via' \in [Callers -> Transports \cup {NoTransport}]
        /\ pool' \in Callers \cup {Keeper, NoOne}
        /\ entry' \in Transports \cup {NoTransport} /\ made' \in Endpoints
    <3>1. CASE Get(t)
      BY <1>1, <2>1, <3>1 DEF Get, Build, Goto, Types, Point
    <3>2. CASE Swap(t)
      BY <1>1, <2>1, <3>2 DEF Swap, Build, Goto, Types, Point
    <3>. QED  BY <1>4, <3>1, <3>2
  <2>3. UNCHANGED <<remote, cmd, record, keeper, saves, mutex, cfg, got, want, said, jobs, faults, stirred>>
    BY <1>4 DEF Get, Swap
  <2>. QED  BY <1>1, <2>2, <2>3, Zenon DEF Types, remote
<1>5. CASE Lock(t)
  <2>1. /\ pc' = [pc EXCEPT ![t] = IF pc[t] = "first" THEN "read"
                                   ELSE IF pc[t] = "third" THEN "reread"
                                   ELSE IF kind = "ssh" THEN "check" ELSE "put"]
        /\ mutex' = [mutex EXCEPT ![via[t]] = t]
    <3>1. /\ DOMAIN After = {"first", "second", "third"}
          /\ After["first"] = "read" /\ After["third"] = "reread"
          /\ After["second"] = IF kind = "ssh" THEN "check" ELSE "put"
      BY DEF After
    <3>2. pc[t] \in {"first", "second", "third"} /\ pc' = [pc EXCEPT ![t] = After[pc[t]]]
      BY <1>5, <3>1 DEF Lock, Goto
    <3>. QED  BY <1>5, <3>1, <3>2 DEF Lock
  <2>2. pc' \in [Callers -> Point] /\ mutex' \in [Transports -> Callers \cup {NoOne}]
    BY <1>1, <2>1 DEF Types, Point
  <2>3. UNCHANGED <<remote, cmd, pooling, cfg, via, got, want, said, jobs, faults, stirred>>
    BY <1>5 DEF Lock
  <2>. QED  BY <1>1, <2>2, <2>3, Zenon DEF Types, remote, pooling
<1>6. CASE Read(t)
  <2>1. pc' \in [Callers -> Point] /\ got' \in [Callers -> Contents] /\ want' \in [Callers -> Contents]
    BY <1>1, <1>6 DEF Read, Goto, Types, Point
  <2>2. mutex' \in [Transports -> Callers \cup {NoOne}]
    BY <1>1, <1>6, UnlockKeepsTypes DEF Read, Types
  <2>3. stirred' \in BOOLEAN
    BY <1>6 DEF Read
  <2>4. UNCHANGED <<remote, cmd, pooling, cfg, via, said, jobs, faults>>
    BY <1>6 DEF Read
  <2>. QED  BY <1>1, <2>1, <2>2, <2>3, <2>4, Zenon DEF Types, remote, pooling
<1>7. CASE ReadFails(t)
  <2>1. mutex' \in [Transports -> Callers \cup {NoOne}]
    BY <1>1, <1>7, UnlockKeepsTypes DEF ReadFails
  <2>. QED  BY <1>1, <1>7, <2>1, EndKeepsTypes DEF ReadFails, Types
<1>8. CASE Check(t)
  <2>1. CASE file = got[t]
    <3>1. pc' \in [Callers -> Point]
      BY <1>1, <1>8, <2>1 DEF Check, Goto, Types, Point
    <3>2. UNCHANGED <<cfg, via, got, want, said, mutex, remote, cmd, pooling, jobs, faults, stirred>>
      BY <1>8, <2>1 DEF Check
    <3>. QED  BY <1>1, <3>1, <3>2, Zenon DEF Types, remote, pooling
  <2>2. CASE file # got[t]
    <3>1. mutex' \in [Transports -> Callers \cup {NoOne}]
      BY <1>1, <1>8, <2>2, UnlockKeepsTypes DEF Check
    <3>. QED  BY <1>1, <1>8, <2>2, <3>1, EndKeepsTypes DEF Check, Types
  <2>. QED  BY <2>1, <2>2
<1>9. CASE Send(t)
  <2> DEFINE m == [op |-> pc[t], expect |-> got[t], data |-> want[t], sum |-> Part, at |-> "sent", cut |-> FALSE]
  <2>1. m \in WholeCommand
    BY <1>1, <1>9 DEF Send, Types, WholeCommand
  <2>2. cmd' = [cmd EXCEPT ![t] = m]
    BY <1>9 DEF Send
  <2> HIDE DEF m
  <2>3. cmd' \in [Slots -> WholeCommand \cup {NoCommand}]
    BY <1>1, <1>2, <2>1, <2>2, CommandKeepsTypes
  <2>4. UNCHANGED <<remote, pooling, mutex, caller, jobs, faults, stirred>>
    BY <1>9 DEF Send
  <2>. QED  BY <1>1, <2>3, <2>4, Zenon DEF Types, remote, pooling, caller
<1>10. CASE Answer(t)
  <2>1. cmd' \in [Slots -> WholeCommand \cup {NoCommand}]
    BY <1>1, <1>2, <1>10, AnswerDoes, CommandKeepsTypes
  <2>2. UNCHANGED <<remote, pooling, jobs, faults, stirred>>
    BY <1>10, AnswerDoes
  <2>3. ASSUME NEW how \in {"ok", "conflict", "failed"}, End(t, how), Unlock(t)
        PROVE  Types'
    BY <1>1, <2>1, <2>2, <2>3, UnlockKeepsTypes, EndKeepsTypes
  <2>4. ASSUME NEW p \in Point, Goto(t, p), UNCHANGED <<cfg, via, got, want, said>>, UNCHANGED mutex \/ Unlock(t)
        PROVE  Types'
    <3>1. pc' \in [Callers -> Point] /\ mutex' \in [Transports -> Callers \cup {NoOne}]
      BY <1>1, <2>4, UnlockKeepsTypes DEF Goto, Types
    <3>. QED  BY <1>1, <2>1, <2>2, <2>4, <3>1, Zenon DEF Types, remote, pooling
  <2>5. "move" \in Point /\ "reread" \in Point /\ "third" \in Point
    BY DEF Point
  <2>6. CASE End(t, IF cmd[t].op = "put" THEN "conflict" ELSE "failed") /\ Unlock(t)
    BY <2>3, <2>6
  <2>7. CASE End(t, "ok") /\ Unlock(t)
    BY <2>3, <2>7
  <2>8. CASE \E p \in {"move", "reread", "third"} :
               Goto(t, p) /\ UNCHANGED <<cfg, via, got, want, said>> /\ (UNCHANGED mutex \/ Unlock(t))
    BY <2>4, <2>5, <2>8
  <2>9. UNCHANGED <<cfg, via, got, want, said, mutex>> => UNCHANGED <<cfg, via, got, want, said>> /\ UNCHANGED mutex
    OBVIOUS
  <2>. QED  BY <1>10, <2>6, <2>7, <2>8, <2>9, AnswerDoes, Zenon
<1>11. CASE Reread(t)
  <2>1. mutex' \in [Transports -> Callers \cup {NoOne}]
    BY <1>1, <1>11, UnlockKeepsTypes DEF Reread
  <2>. QED  BY <1>1, <1>11, <2>1, EndKeepsTypes DEF Reread, Types
<1>12. CASE Timeout(t)
  <2>1. cmd[t] \in WholeCommand
    BY <1>1, <1>2, <1>12 DEF Timeout, Types
  <2>2. [cmd[t] EXCEPT !.cut = TRUE] \in WholeCommand /\ cmd' = [cmd EXCEPT ![t] = [cmd[t] EXCEPT !.cut = TRUE]]
    BY <1>12, <2>1 DEF Timeout, WholeCommand
  <2>3. cmd' \in [Slots -> WholeCommand \cup {NoCommand}]
    BY <1>1, <1>2, <2>2, CommandKeepsTypes
  <2>4. UNCHANGED <<remote, pooling, mutex, caller, jobs, faults, stirred>>
    BY <1>12 DEF Timeout
  <2>. QED  BY <1>1, <2>3, <2>4, Zenon DEF Types, remote, pooling, caller
<1>13. CASE GiveUp(t)
  <2>1. cmd' \in [Slots -> WholeCommand \cup {NoCommand}]
    BY <1>1, <1>2, <1>13, Distinct DEF GiveUp, Types
  <2>2. mutex' \in [Transports -> Callers \cup {NoOne}]
    BY <1>1, <1>13, UnlockKeepsTypes DEF GiveUp
  <2>. QED  BY <1>1, <1>13, <2>1, <2>2, EndKeepsTypes DEF GiveUp, Types
<1>. QED  BY <1>3, <1>4, <1>5, <1>6, <1>7, <1>8, <1>9, <1>10, <1>11, <1>12, <1>13, Zenon DEF Caller

LEMMA TargetKeepsTypes ==
  ASSUME IInv, NEW s \in Slots, Open(s) \/ Fill(s) \/ Move(s) \/ Compare(s) \/ Rename(s)
  PROVE  Types'
<1>1. Types
  BY DEF IInv
<1>2. ASSUME NEW m \in WholeCommand \cup {NoCommand}, cmd' = [cmd EXCEPT ![s] = m], file' \in Contents,
             tmp' \in Contents \cup {Part, NoFile}, UNCHANGED Rests, stirred' \in BOOLEAN, faults' \in 0..MaxFaults
      PROVE  Types'
  <2>1. cmd' \in [Slots -> WholeCommand \cup {NoCommand}]
    BY <1>1, <1>2, CommandKeepsTypes
  <2>. QED  BY <1>1, <1>2, <2>1, Zenon DEF Types, Rests, pooling, caller
<1>3. file \in Contents /\ tmp \in Contents \cup {Part, NoFile} /\ stirred \in BOOLEAN /\ faults \in 0..MaxFaults
  BY <1>1 DEF Types
<1>4. CASE Open(s)
  <2>1. cmd[s] \in WholeCommand
    BY <1>4, OpenDoes
  <2>2. [cmd[s] EXCEPT !.at = "tmp"] \in WholeCommand
    BY <2>1 DEF WholeCommand
  <2>. QED  BY <1>2, <1>3, <1>4, <2>2, OpenDoes
<1>5. CASE Fill(s)
  <2>1. cmd[s] \in WholeCommand /\ tmp' \in Contents \cup {Part}
    BY <1>5, FillDoes DEF WholeCommand
  <2>2. [cmd[s] EXCEPT !.at = "done", !.sum = tmp'] \in WholeCommand
    BY <2>1 DEF WholeCommand
  <2>3. faults' \in 0..MaxFaults
    <3>1. UNCHANGED faults \/ Disturb
      BY <1>5, FillDoes
    <3>. QED  BY <1>3, <3>1, TransportAssumption DEF Disturb
  <2>. QED  BY <1>2, <1>3, <1>5, <2>1, <2>2, <2>3, FillDoes
<1>6. CASE Move(s)
  <2>1. cmd[s] \in WholeCommand /\ s \in Callers
    BY <1>6, MoveDoes
  <2>2. want[s] \in Contents
    BY <1>1, <2>1 DEF Types
  <2>3. [cmd[s] EXCEPT !.at = "done", !.sum = want[s]] \in WholeCommand
    BY <2>1, <2>2 DEF WholeCommand
  <2>4. /\ file' = want[s] /\ tmp' = NoFile /\ UNCHANGED <<Rests, stirred, faults>>
        /\ cmd' = [cmd EXCEPT ![s] = [cmd[s] EXCEPT !.at = "done", !.sum = want[s]]]
    BY <1>6, MoveDoes
  <2>5. file' \in Contents /\ tmp' \in Contents \cup {Part, NoFile}
    BY <2>2, <2>4
  <2>6. stirred' \in BOOLEAN /\ faults' \in 0..MaxFaults /\ UNCHANGED Rests
    BY <1>3, <2>4, Zenon
  <2>. QED  BY <1>2, <2>3, <2>4, <2>5, <2>6
<1>7. CASE Compare(s)
  <2>1. cmd[s] \in WholeCommand
    BY <1>7, CompareDoes, RequestsAreOf
  <2>2. /\ [cmd[s] EXCEPT !.at = "tmp"] \in WholeCommand
        /\ Done(s, [cmd[s] EXCEPT !.at = "done"]) \in WholeCommand \cup {NoCommand}
    BY <2>1 DEF WholeCommand, Done
  <2>3. UNCHANGED <<Rests, file, faults, stirred>> /\ tmp' \in {tmp, Part}
    BY <1>7, CompareDoes
  <2>4. CASE cmd' = [cmd EXCEPT ![s] = [cmd[s] EXCEPT !.at = "tmp"]]
    BY <1>2, <1>3, <2>2, <2>3, <2>4
  <2>5. CASE cmd' = [cmd EXCEPT ![s] = Done(s, [cmd[s] EXCEPT !.at = "done"])]
    BY <1>2, <1>3, <2>2, <2>3, <2>5
  <2>. QED  BY <1>7, <2>4, <2>5, CompareDoes
<1>8. CASE Rename(s)
  <2>1. cmd[s] \in WholeCommand
    BY <1>8, RenameDoes, RequestsAreOf
  <2>2. cmd[s].data \in Contents
    BY <2>1 DEF WholeCommand
  <2>3. Done(s, [cmd[s] EXCEPT !.at = "done", !.sum = cmd[s].data]) \in WholeCommand \cup {NoCommand}
    BY <2>1, <2>2 DEF WholeCommand, Done
  <2>4. stirred' \in BOOLEAN
    BY <1>8, RenameDoes
  <2>. QED  BY <1>2, <1>3, <1>8, <2>2, <2>3, <2>4, RenameDoes
<1>. QED  BY <1>4, <1>5, <1>6, <1>7, <1>8

LEMMA OthersKeepTypes ==
  ASSUME IInv, Save \/ Sweep \/ Pooling \/ HandEdit \/ Restart
  PROVE  Types'
<1>1. Types
  BY DEF IInv
<1>2. CASE Save \/ Sweep \/ Pooling
  <2>1. UNCHANGED <<remote, cmd, mutex, caller, jobs, faults, stirred>>
    BY <1>2 DEF Save, Sweep, Pooling, Remove, Close
  <2>2. /\ record' \in Endpoints /\ entry' \in Transports \cup {NoTransport} /\ made' = made
        /\ pool' \in Callers \cup {Keeper, NoOne} /\ keeper' \in {"idle", "remove", "close"}
        /\ saves' \in 0..MaxSaves
    BY <1>1, <1>2, TransportAssumption DEF Save, Sweep, Pooling, Remove, Close, Types
  <2>. QED  BY <1>1, <2>1, <2>2, Zenon DEF Types, remote, caller
<1>3. faults \in 0..MaxFaults /\ MaxFaults \in Nat
  BY <1>1, TransportAssumption DEF Types
<1>4. CASE HandEdit
  <2>1. faults' \in 0..MaxFaults /\ file' \in Contents /\ stirred' = TRUE
    BY <1>3, <1>4 DEF HandEdit, Disturb
  <2>2. UNCHANGED <<kind, tmp, cmd, pooling, mutex, caller, jobs>>
    BY <1>4 DEF HandEdit
  <2>. QED  BY <1>1, <2>1, <2>2, Zenon DEF Types, pooling, caller
<1>5. CASE Restart
  <2>1. faults' \in 0..MaxFaults
    <3>1. Disturb
      BY <1>5, Zenon DEF Restart
    <3>. QED  BY <1>3, <3>1 DEF Disturb
  <2>2. ASSUME NEW s \in Slots, cmd[s] # NoCommand
        PROVE  [cmd[s] EXCEPT !.at = "done", !.cut = TRUE] \in WholeCommand
    <3>1. cmd[s] \in WholeCommand
      BY <1>1, <2>2 DEF Types
    <3>. QED  BY <3>1 DEF WholeCommand
  <2>3. cmd' \in [Slots -> WholeCommand \cup {NoCommand}]
    BY <1>1, <1>5, <2>2 DEF Restart, Types
  <2>4. UNCHANGED <<remote, pooling, mutex, caller, jobs, stirred>>
    BY <1>5 DEF Restart
  <2>. QED  BY <1>1, <2>1, <2>3, <2>4, Zenon DEF Types, remote, pooling, caller
<1>. QED  BY <1>2, <1>4, <1>5

-----------------------------------------------------------------------------
(* Where the callers are. *)

(* A caller goes on with the transport it has, *)
LEMMA GoingOnKeepsPlaced ==
  ASSUME Types, Placed, NEW t \in Callers, NEW p \in Point \ Without, pc[t] \notin Without,
         Goto(t, p), via' = via
  PROVE  Placed'
BY DEF Goto, Types, Placed

(* ends, *)
LEMMA EndKeepsPlaced ==
  ASSUME Types, Placed, NEW t \in Callers, NEW how, End(t, how)
  PROVE  Placed'
<1>1. pc' = [pc EXCEPT ![t] = "idle"] /\ via' = [via EXCEPT ![t] = NoTransport]
  BY EndDoes
<1>. QED  BY <1>1 DEF Types, Placed, Without

(* or is given one. *)
LEMMA StartsKeepPlaced ==
  ASSUME IInv, NEW t \in Callers, Begin(t) \/ Get(t) \/ Swap(t)
  PROVE  Placed'
<1>1. Spare # NoTransport /\ NoTransport = 0
  BY SpareIsFree DEF IInv, NoTransport
<1> HIDE DEF Spare
<1>2. CASE Begin(t)
  <2>1. pc' = [pc EXCEPT ![t] = "get"] /\ via' = via /\ pc[t] = "idle"
    BY <1>2 DEF Begin, Goto, At
  <2>. QED  BY <2>1 DEF IInv, Types, Placed, Without
<1>3. CASE Get(t) \/ Swap(t)
  <2>1. /\ pc[t] \in {"get", "swap"}
        /\ \/ Goto(t, "first") /\ via' = [via EXCEPT ![t] = Spare]
           \/ Goto(t, "first") /\ via' = [via EXCEPT ![t] = entry] /\ entry # NoTransport
           \/ Goto(t, "swap") /\ via' = via
    BY <1>3, Zenon DEF Get, Swap, Build, At
  <2>2. CASE Goto(t, "swap") /\ via' = via
    BY <2>1, <2>2 DEF Goto, IInv, Types, Placed, Without
  <2>3. CASE \E i : i # NoTransport /\ Goto(t, "first") /\ via' = [via EXCEPT ![t] = i]
    BY <2>1, <2>3 DEF Goto, IInv, Types, Placed, Without
  <2>. QED  BY <1>1, <2>1, <2>2, <2>3
<1>. QED  BY <1>2, <1>3

-----------------------------------------------------------------------------
(* Who holds the mutex of a transport. *)
LEMMA NobodyEntersKeepsHeld ==
  ASSUME Held, Alone, mutex' = mutex, kind' = kind,
         \A u \in Callers : pc'[u] \in Holding => pc[u] \in Holding /\ via'[u] = via[u]
  PROVE  Held' /\ Alone'
BY DEF Held, Alone

LEMMA UnlockKeepsHeld ==
  ASSUME IInv, NEW t \in Callers, pc[t] \in Holding, pc'[t] \notin Holding, Unlock(t), kind' = kind,
         \A u \in Callers \ {t} : pc'[u] = pc[u] /\ via'[u] = via[u]
  PROVE  Held' /\ Alone'
<1>1. ASSUME NEW u \in Callers, pc'[u] \in Holding
      PROVE  mutex'[via'[u]] = u /\ pc[u] \in Holding
  <2>1. u # t /\ pc[u] \in Holding /\ via'[u] = via[u]
    BY <1>1
  <2>2. mutex[via[u]] = u /\ mutex[via[t]] = t
    BY <2>1 DEF IInv, Held
  <2>3. via[u] # NoTransport /\ via[u] \in Transports
    BY <2>1 DEF IInv, Placed, Types, Holding, Without
  <2>. QED  BY <2>1, <2>2, <2>3 DEF Unlock, IInv, Types
<1>. QED  BY <1>1 DEF IInv, Held, Alone

LEMMA LockDoes ==
  ASSUME IInv, NEW t \in Callers, Lock(t)
  PROVE  /\ \/ pc[t] = "first" /\ Goto(t, "read")
            \/ pc[t] = "third" /\ Goto(t, "reread")
            \/ pc[t] = "second" /\ kind = "ssh" /\ Goto(t, "check")
            \/ pc[t] = "second" /\ kind = "agent" /\ Goto(t, "put")
         /\ mutex[via[t]] = NoOne /\ mutex' = [mutex EXCEPT ![via[t]] = t]
         /\ UNCHANGED <<remote, cmd, pooling, cfg, via, got, want, said, jobs, faults, stirred>>
         /\ kind = "ssh" /\ loose' = {} => \A u \in Callers : pc[u] \in Holding => via[u] = via[t]
<1>1. /\ DOMAIN After = {"first", "second", "third"}
      /\ After["first"] = "read" /\ After["third"] = "reread"
      /\ After["second"] = IF kind = "ssh" THEN "check" ELSE "put"
  BY DEF After
<1>2. pc[t] \in {"first", "second", "third"} /\ Goto(t, After[pc[t]])
  BY <1>1 DEF Lock
<1>3. kind \in {"ssh", "agent"}
  BY Distinct DEF IInv, Types
<1>4. \/ pc[t] = "first" /\ Goto(t, "read")
      \/ pc[t] = "third" /\ Goto(t, "reread")
      \/ pc[t] = "second" /\ kind = "ssh" /\ Goto(t, "check")
      \/ pc[t] = "second" /\ kind = "agent" /\ Goto(t, "put")
  BY <1>1, <1>2, <1>3 DEF Goto
<1>5. ASSUME kind = "ssh", loose' = {}, NEW u \in Callers, pc[u] \in Holding
      PROVE  via[u] = via[t]
  BY <1>5 DEF Lock
<1>. QED  BY <1>4, <1>5 DEF Lock

LEMMA LockKeepsHeld ==
  ASSUME IInv, NEW t \in Callers, Lock(t), loose' = {}
  PROVE  Held' /\ Alone'
<1>1. /\ mutex[via[t]] = NoOne /\ mutex' = [mutex EXCEPT ![via[t]] = t] /\ via' = via
      /\ \A u \in Callers \ {t} : pc'[u] = pc[u]
      /\ pc[t] \in {"first", "second", "third"}
  BY LockDoes DEF Goto, IInv, Types
<1>2. via[t] \in Transports
  BY <1>1 DEF IInv, Placed, Types, Without
<1>3. ASSUME NEW u \in Callers, u # t, pc'[u] \in Holding
      PROVE  mutex'[via'[u]] = u
  <2>1. mutex[via[u]] = u
    BY <1>1, <1>3 DEF IInv, Held
  <2>2. via[u] # via[t]
    BY <1>1, <2>1, Distinct
  <2>. QED  BY <1>1, <2>1, <2>2
<1>4. mutex'[via'[t]] = t
  BY <1>1, <1>2 DEF IInv, Types
<1>5. ASSUME kind = "ssh", NEW u \in Callers, u # t
      PROVE  pc'[u] \notin Holding
  <2>1. SUFFICES ASSUME pc[u] \in Holding PROVE FALSE
    BY <1>1, <1>5
  <2>2. via[u] = via[t]
    BY <1>5, <2>1, LockDoes
  <2>. QED  BY <1>1, <2>1, <2>2, Distinct DEF IInv, Held
<1>6. kind' = kind
  BY DEF Lock, remote
<1>. QED  BY <1>3, <1>4, <1>5, <1>6 DEF Held, Alone

(* A caller that is where a command of its own is has its mutex. *)
LEMMA SendersHold ==
  ASSUME IInv, NEW t \in Callers, cmd[t] # NoCommand
  PROVE  /\ cmd[t] \in WholeCommand /\ pc[t] = cmd[t].op /\ pc[t] \in {"transfer", "move", "put"}
         /\ cmd[t].expect = got[t] /\ cmd[t].data = want[t] /\ pc[t] \in Holding /\ pc[t] \notin Without
<1>1. cmd[t] \in WholeCommand
  BY Distinct DEF IInv, Types
<1>. QED  BY <1>1 DEF IInv, Commands, Command1, WholeCommand, Holding, Without

(* The steps of the callers that tell where they are. *)
Leaves(t) ==
  \E how \in {"ok", "conflict", "failed"} : End(t, how) /\ Unlock(t) /\ pc[t] \in Holding
Passes(t) ==
  \E p \in Point \ Without :
    /\ Goto(t, p) /\ pc[t] \notin Without /\ UNCHANGED <<cfg, via>>
    /\ \/ pc[t] \in Holding /\ UNCHANGED mutex
       \/ pc[t] \in Holding /\ p \notin Holding /\ Unlock(t)

LEMMA PassesOn ==
  ASSUME NEW t \in Callers, NEW p \in {"second", "transfer", "move", "reread", "third"},
         pc[t] \in Holding, Goto(t, p), UNCHANGED <<cfg, via>>,
         UNCHANGED mutex \/ (p \in {"second", "third"} /\ Unlock(t))
  PROVE  Passes(t)
<1>1. p \in Point \ Without /\ pc[t] \notin Without /\ (p \in {"second", "third"} => p \notin Holding)
  BY DEF Point, Without, Holding
<1>2. cfg' = cfg /\ via' = via
  OBVIOUS
<1>. QED  BY <1>1, <1>2, Zenon DEF Passes

LEMMA CallersMove ==
  ASSUME IInv, NEW t \in Callers,
         Read(t) \/ ReadFails(t) \/ Check(t) \/ Answer(t) \/ Reread(t) \/ GiveUp(t)
  PROVE  (Leaves(t) \/ Passes(t)) /\ UNCHANGED kind
<1>1. UNCHANGED kind
  BY AnswerDoes, Zenon DEF Read, ReadFails, Check, Reread, GiveUp, remote
<1>2. {"read", "check", "transfer", "move", "put", "reread"} = Holding
  BY DEF Holding
<1>3. CASE Read(t)
  <2>1. pc[t] \in Holding /\ UNCHANGED <<cfg, via>>
    BY <1>2, <1>3 DEF Read, At
  <2>2. (Goto(t, "transfer") /\ UNCHANGED mutex) \/ (Goto(t, "second") /\ Unlock(t))
    BY <1>3, Zenon DEF Read
  <2>. QED  BY <1>1, <2>1, <2>2, PassesOn
<1>4. CASE ReadFails(t)
  BY <1>1, <1>2, <1>4, Zenon DEF ReadFails, Leaves
<1>5. CASE Check(t)
  <2>1. pc[t] \in Holding
    BY <1>2, <1>5 DEF Check, At
  <2>2. CASE Goto(t, "transfer") /\ UNCHANGED <<cfg, via, got, want, said, mutex>>
    BY <1>1, <2>1, <2>2, PassesOn
  <2>3. CASE End(t, "conflict") /\ Unlock(t)
    BY <1>1, <2>1, <2>3, Zenon DEF Leaves
  <2>. QED  BY <1>5, <2>2, <2>3, Zenon DEF Check
<1>6. CASE Answer(t)
  <2>1. pc[t] \in Holding
    BY <1>6, AnswerDoes, SendersHold
  <2>2. ASSUME NEW how \in {"ok", "conflict", "failed"}, End(t, how), Unlock(t)
        PROVE  Leaves(t)
    BY <2>1, <2>2, Zenon DEF Leaves
  <2>3. (\E how \in {"ok", "conflict", "failed"} : End(t, how) /\ Unlock(t))
        \/ (\E p \in {"move", "reread"} : Goto(t, p) /\ UNCHANGED <<cfg, via, got, want, said, mutex>>)
        \/ (Goto(t, "third") /\ UNCHANGED <<cfg, via, got, want, said>> /\ Unlock(t))
    BY <1>6, AnswerDoes, Zenon
  <2>4. CASE \E p \in {"move", "reread"} : Goto(t, p) /\ UNCHANGED <<cfg, via, got, want, said, mutex>>
    BY <1>1, <2>1, <2>4, PassesOn
  <2>5. CASE Goto(t, "third") /\ UNCHANGED <<cfg, via, got, want, said>> /\ Unlock(t)
    BY <1>1, <2>1, <2>5, PassesOn
  <2>. QED  BY <1>1, <2>2, <2>3, <2>4, <2>5, Zenon
<1>7. CASE Reread(t)
  <2>1. pc[t] \in Holding
    BY <1>2, <1>7 DEF Reread, At
  <2>2. \E how \in {"ok", "conflict", "failed"} : End(t, how) /\ Unlock(t)
    BY <1>7, Zenon DEF Reread
  <2>. QED  BY <1>1, <2>1, <2>2, Zenon DEF Leaves
<1>8. CASE GiveUp(t)
  <2>1. pc[t] \in Holding
    BY <1>8, SendersHold DEF GiveUp
  <2>2. \E how \in {"ok", "conflict", "failed"} : End(t, how) /\ Unlock(t)
    BY <1>8, Zenon DEF GiveUp
  <2>. QED  BY <1>1, <2>1, <2>2, Zenon DEF Leaves
<1>. QED  BY <1>3, <1>4, <1>5, <1>6, <1>7, <1>8

LEMMA LeavingKeepsPlaces ==
  ASSUME IInv, NEW t \in Callers, Leaves(t) \/ Passes(t), UNCHANGED kind
  PROVE  Placed' /\ Held' /\ Alone'
<1>1. CASE Leaves(t)
  <2>1. PICK how \in {"ok", "conflict", "failed"} : End(t, how) /\ Unlock(t) /\ pc[t] \in Holding
    BY <1>1 DEF Leaves
  <2>2. /\ pc'[t] \notin Holding
        /\ \A u \in Callers \ {t} : pc'[u] = pc[u] /\ via'[u] = via[u]
    BY <2>1, EndDoes DEF Holding, IInv, Types
  <2>. QED  BY <2>1, <2>2, EndKeepsPlaced, UnlockKeepsHeld DEF IInv
<1>2. CASE Passes(t)
  <2>1. PICK p \in Point \ Without :
          /\ Goto(t, p) /\ pc[t] \notin Without /\ UNCHANGED <<cfg, via>>
          /\ \/ pc[t] \in Holding /\ UNCHANGED mutex
             \/ pc[t] \in Holding /\ p \notin Holding /\ Unlock(t)
    BY <1>2, Zenon DEF Passes
  <2>2. pc'[t] = p /\ \A u \in Callers \ {t} : pc'[u] = pc[u] /\ via'[u] = via[u]
    BY <2>1 DEF Goto, IInv, Types
  <2>3. Held' /\ Alone'
    <3>1. CASE UNCHANGED mutex
      BY <2>1, <2>2, <3>1, NobodyEntersKeepsHeld DEF IInv
    <3>2. CASE p \notin Holding /\ Unlock(t)
      BY <2>1, <2>2, <3>2, UnlockKeepsHeld
    <3>. QED  BY <2>1, <3>1, <3>2
  <2>. QED  BY <2>1, <2>3, GoingOnKeepsPlaced DEF IInv
<1>. QED  BY <1>1, <1>2

LEMMA CallersKeepPlaces ==
  ASSUME IInv, NEW t \in Callers, Begin(t) \/ Caller(t), loose' = {}
  PROVE  Placed' /\ Held' /\ Alone'
<1>1. CASE Begin(t) \/ Get(t) \/ Swap(t)
  <2>1. /\ \E p \in {"get", "first", "swap"} : Goto(t, p)
        /\ via' = via \/ via' = [via EXCEPT ![t] = Spare] \/ via' = [via EXCEPT ![t] = entry]
        /\ mutex' = mutex /\ kind' = kind
    BY <1>1, Zenon DEF Begin, Get, Swap, Build, remote
  <2> HIDE DEF Spare
  <2>2. \A u \in Callers : pc'[u] \in Holding => pc[u] \in Holding /\ via'[u] = via[u]
    BY <2>1 DEF Goto, Holding, IInv, Types
  <2>. QED  BY <1>1, <2>1, <2>2, StartsKeepPlaced, NobodyEntersKeepsHeld DEF IInv
<1>2. CASE Lock(t)
  <2>1. via' = via
    BY <1>2 DEF Lock
  <2>2. \E p \in {"read", "reread", "check", "put"} : Goto(t, p)
    BY <1>2, LockDoes
  <2>3. pc[t] \notin Without /\ {"read", "reread", "check", "put"} \subseteq Point \ Without
    BY <1>2, LockDoes DEF Without, Point
  <2>4. Placed'
    BY <2>1, <2>2, <2>3, GoingOnKeepsPlaced DEF IInv
  <2>. QED  BY <1>2, <2>4, LockKeepsHeld
<1>3. CASE Read(t) \/ ReadFails(t) \/ Check(t) \/ Answer(t) \/ Reread(t) \/ GiveUp(t)
  BY <1>3, CallersMove, LeavingKeepsPlaces
<1>4. CASE Send(t) \/ Timeout(t)
  <2>1. UNCHANGED <<kind, pc, via, mutex>>
    BY <1>4 DEF Send, Timeout, caller, remote
  <2>. QED  BY <2>1, NobodyEntersKeepsHeld DEF IInv, Placed
<1>. QED  BY <1>1, <1>2, <1>3, <1>4, Zenon DEF Caller

LEMMA OthersKeepPlaces ==
  ASSUME IInv,
         \/ Save \/ Sweep \/ Pooling \/ HandEdit \/ Restart
         \/ \E s \in Slots : Open(s) \/ Fill(s) \/ Move(s) \/ Compare(s) \/ Rename(s)
  PROVE  Placed' /\ Held' /\ Alone'
<1>1. UNCHANGED <<mutex, pc, via, kind>>
  BY Zenon DEF Save, Sweep, Pooling, Remove, Close, HandEdit, Restart, Open, Fill, Move, Compare,
               Rename, caller, remote
<1>. QED  BY <1>1, NobodyEntersKeepsHeld DEF IInv, Placed

-----------------------------------------------------------------------------
(* What is outstanding. *)
LEMMA NothingSent ==
  ASSUME IInv, NEW t \in Callers, pc[t] \notin {"transfer", "move", "put"}
  PROVE  cmd[t] = NoCommand
BY SendersHold

(* A caller's step is about its own command, which an agent may keep.      *)
Keeps(t) == \A u \in Callers \ {t} : pc'[u] = pc[u] /\ got'[u] = got[u] /\ want'[u] = want[u] /\ cmd'[u] = cmd[u]

LEMMA CommandsOfOne ==
  ASSUME IInv, NEW t \in Callers, UNCHANGED <<kind, tmp>>, Keeps(t),
         Step(t)', Command1(t)', Moving(t)' => tmp = want'[t], Replacing(t)' => Replacing(t),
         \/ cmd'[Stray] = cmd[Stray]
         \/ /\ cmd'[Stray] = cmd[t] /\ cmd'[t] = NoCommand
            /\ kind = "agent" /\ cmd[t].op = "put" /\ cmd[Stray] = NoCommand
  PROVE  Commands'
<1>1. ASSUME NEW u \in Callers
      PROVE  Step(u)' /\ Command1(u)' /\ (Moving(u)' => tmp' = want'[u])
  <2>1. CASE u = t
    BY <2>1
  <2>2. CASE u # t
    <3>1. pc'[u] = pc[u] /\ got'[u] = got[u] /\ want'[u] = want[u] /\ cmd'[u] = cmd[u]
      BY <2>2 DEF Keeps
    <3>2. Step(u) /\ Command1(u) /\ (Moving(u) => tmp = want[u])
      BY DEF IInv, Commands
    <3>. QED  BY <3>1, <3>2 DEF Step, Command1, Moving
  <2>. QED  BY <2>1, <2>2
<1>2. cmd'[Stray] # NoCommand => kind' = "agent" /\ cmd'[Stray].op = "put"
  BY DEF IInv, Commands
<1>3. \A u \in Callers \ {t} : Replacing(u)' => Replacing(u)
  BY DEF Keeps, Replacing
<1>4. ASSUME NEW r \in Slots, NEW s \in Slots, Replacing(r)', Replacing(s)'
      PROVE  r = s
  <2>1. CASE cmd'[Stray] = cmd[Stray]
    <3>1. Replacing(r) /\ Replacing(s)
      BY <1>3, <1>4, <2>1, Distinct DEF Replacing
    <3>. QED  BY <3>1 DEF IInv, Commands
  <2>2. CASE /\ cmd'[Stray] = cmd[t] /\ cmd'[t] = NoCommand
             /\ kind = "agent" /\ cmd[t].op = "put" /\ cmd[Stray] = NoCommand
    <3>1. r # t /\ s # t
      BY <1>4, <2>2 DEF Replacing
    <3>2. Replacing(IF r = Stray THEN t ELSE r) /\ Replacing(IF s = Stray THEN t ELSE s)
      BY <1>3, <1>4, <2>2, <3>1, Distinct DEF Replacing
    <3>3. (IF r = Stray THEN t ELSE r) = (IF s = Stray THEN t ELSE s)
      BY <3>2, Distinct DEF IInv, Commands
    <3>. QED  BY <3>1, <3>3
  <2>. QED  BY <2>1, <2>2
<1>. QED  BY <1>1, <1>2, <1>4 DEF Commands

(* A caller that has nothing outstanding, before and after. *)
LEMMA CommandsOfNone ==
  ASSUME IInv, NEW t \in Callers, UNCHANGED <<kind, tmp>>, Keeps(t), Step(t)',
         cmd'[t] = NoCommand, cmd'[Stray] = cmd[Stray], pc'[t] # "move"
  PROVE  Commands'
<1>1. Command1(t)' /\ ~ Moving(t)' /\ ~ Replacing(t)'
  BY DEF Command1, Moving, Replacing
<1>. QED  BY <1>1, CommandsOfOne

LEMMA EndKeepsCommands ==
  ASSUME IInv, NEW t \in Callers, NEW how, End(t, how), UNCHANGED <<kind, tmp>>,
         cmd' = [cmd EXCEPT ![t] = NoCommand]
  PROVE  Commands'
<1>1. /\ pc'[t] = "idle" /\ got'[t] = want'[t] /\ cmd'[t] = NoCommand /\ cmd'[Stray] = cmd[Stray]
      /\ Keeps(t)
  BY EndDoes, Distinct DEF IInv, Types, Keeps
<1>2. Step(t)'
  BY <1>1 DEF Step
<1>. QED  BY <1>1, <1>2, CommandsOfNone

LEMMA BeginsKeepCommands ==
  ASSUME IInv, NEW t \in Callers, Begin(t) \/ Get(t) \/ Swap(t) \/ Lock(t)
  PROVE  Commands'
<1>1. UNCHANGED <<kind, tmp, cmd, got, want>>
  BY Zenon DEF Begin, Get, Swap, Lock, remote
<1>2. /\ \/ \E p \in {"get", "first", "swap", "read", "reread"} : Goto(t, p)
         \/ Goto(t, "check") /\ kind = "ssh"
         \/ Goto(t, "put") /\ kind = "agent"
      /\ pc[t] \in {"idle", "get", "swap", "first", "second", "third"}
  <2>1. CASE Begin(t)
    BY <2>1 DEF Begin, At
  <2>2. CASE Get(t) \/ Swap(t)
    BY <2>2, Zenon DEF Get, Swap, Build, At
  <2>3. CASE Lock(t)
    BY <2>3, LockDoes
  <2>. QED  BY <2>1, <2>2, <2>3
<1>3. cmd[t] = NoCommand
  BY <1>2, NothingSent
<1>4. /\ pc'[t] \in {"get", "first", "swap", "read", "reread", "check", "put"}
      /\ pc'[t] = "check" => kind = "ssh"
      /\ pc'[t] = "put" => kind = "agent"
      /\ \A u \in Callers \ {t} : pc'[u] = pc[u]
  BY <1>2 DEF Goto, IInv, Types
<1>5. Step(t)
  BY DEF IInv, Commands
<1>6. Step(t)'
  BY <1>1, <1>4, <1>5 DEF Step
<1>. QED  BY <1>1, <1>3, <1>4, <1>6, CommandsOfNone DEF Keeps

LEMMA ReadKeepsCommands ==
  ASSUME IInv, NEW t \in Callers, Read(t)
  PROVE  Commands'
<1>1. UNCHANGED <<kind, tmp, cmd>> /\ pc[t] = "read"
  BY DEF Read, remote, At
<1>2. cmd[t] = NoCommand
  BY <1>1, NothingSent
<1>3. /\ \/ Goto(t, "second")
         \/ Goto(t, "transfer") /\ kind = "ssh"
      /\ got' = [got EXCEPT ![t] = file]
      /\ \E c \in IF t = Writer THEN Contents \ {file} ELSE {file} : want' = [want EXCEPT ![t] = c]
  BY DEF Read
<1>4. /\ pc'[t] = "second" \/ (pc'[t] = "transfer" /\ kind = "ssh")
      /\ got'[t] = file /\ (t # Writer => want'[t] = file)
      /\ Keeps(t)
  BY <1>1, <1>3 DEF Goto, Keeps, IInv, Types
<1>5. Step(t)'
  BY <1>1, <1>4, Distinct DEF Step
<1>. QED  BY <1>1, <1>2, <1>4, <1>5, CommandsOfNone

LEMMA CheckKeepsCommands ==
  ASSUME IInv, NEW t \in Callers, Check(t)
  PROVE  Commands'
<1>1. UNCHANGED <<kind, tmp, cmd>> /\ pc[t] = "check"
  BY DEF Check, remote, At
<1>2. cmd[t] = NoCommand /\ kind = "ssh"
  BY <1>1, NothingSent, Distinct DEF IInv, Commands, Step, Types
<1>3. CASE Goto(t, "transfer") /\ UNCHANGED <<got, want>>
  <2>1. pc'[t] = "transfer" /\ Keeps(t)
    BY <1>1, <1>3 DEF Goto, Keeps, IInv, Types
  <2>2. Step(t)
    BY DEF IInv, Commands
  <2>3. Step(t)'
    BY <1>1, <1>2, <1>3, <2>1, <2>2 DEF Step
  <2>. QED  BY <1>1, <1>2, <2>1, <2>3, CommandsOfNone
<1>4. CASE End(t, "conflict")
  <2>1. cmd' = [cmd EXCEPT ![t] = NoCommand]
    BY <1>1, <1>2, Distinct DEF IInv, Types
  <2>. QED  BY <1>1, <1>4, <2>1, EndKeepsCommands
<1>. QED  BY <1>3, <1>4 DEF Check

LEMMA SendKeepsCommands ==
  ASSUME IInv, NEW t \in Callers, Send(t)
  PROVE  Commands'
<1>1. /\ UNCHANGED <<kind, tmp, pc, got, want>> /\ pc[t] \in {"transfer", "move", "put"} /\ cmd[t] = NoCommand
      /\ cmd' = [cmd EXCEPT ![t] = [op |-> pc[t], expect |-> got[t], data |-> want[t], sum |-> Part,
                                    at |-> "sent", cut |-> FALSE]]
  BY DEF Send, remote, caller
<1>2. /\ cmd'[t] = [op |-> pc[t], expect |-> got[t], data |-> want[t], sum |-> Part, at |-> "sent", cut |-> FALSE]
      /\ Keeps(t) /\ cmd'[Stray] = cmd[Stray]
  BY <1>1, Distinct DEF Keeps, IInv, Types
<1>3. Step(t) /\ (Moving(t) => tmp = want[t])
  BY DEF IInv, Commands
<1>4. Step(t)' /\ Command1(t)' /\ ~ Replacing(t)'
  BY <1>1, <1>2, <1>3 DEF Step, Command1, Replacing
<1>5. Moving(t)' => tmp = want'[t]
  BY <1>1, <1>3 DEF Moving
<1>. QED  BY <1>1, <1>2, <1>4, <1>5, CommandsOfOne

LEMMA AnswerKeepsCommands ==
  ASSUME IInv, NEW t \in Callers, Answer(t)
  PROVE  Commands'
<1>1. /\ cmd[t] \in WholeCommand /\ cmd[t] # NoCommand /\ cmd[t].at = "done" /\ ~ cmd[t].cut
      /\ cmd' = [cmd EXCEPT ![t] = NoCommand] /\ UNCHANGED <<kind, tmp>>
  BY AnswerDoes DEF remote
<1>2. cmd'[t] = NoCommand /\ cmd'[Stray] = cmd[Stray] /\ \A u \in Callers \ {t} : cmd'[u] = cmd[u]
  BY <1>1, Distinct DEF IInv, Types
<1>3. Step(t)
  BY DEF IInv, Commands
<1>4. CASE \E how \in {"ok", "conflict", "failed"} : End(t, how)
  BY <1>1, <1>4, EndKeepsCommands
<1>5. CASE \E p \in {"reread", "third"} : Goto(t, p) /\ UNCHANGED <<got, want>>
  <2>1. pc'[t] \in {"reread", "third"} /\ Keeps(t)
    BY <1>2, <1>5 DEF Goto, Keeps, IInv, Types
  <2>2. Step(t)'
    BY <1>1, <1>3, <1>5, <2>1 DEF Step
  <2>. QED  BY <1>1, <1>2, <2>1, <2>2, CommandsOfNone
<1>6. CASE cmd[t].sum = cmd[t].data /\ cmd[t].op = "transfer" /\ Goto(t, "move") /\ UNCHANGED <<got, want>>
  <2>1. pc'[t] = "move" /\ Keeps(t)
    BY <1>2, <1>6 DEF Goto, Keeps, IInv, Types
  <2>2. kind = "ssh"
    BY <1>1, <1>6, SessionsAreAlone, Distinct
  <2>3. Step(t)' /\ Command1(t)' /\ ~ Replacing(t)'
    BY <1>1, <1>2, <1>3, <1>6, <2>1, <2>2 DEF Step, Command1, Replacing
  <2>4. cmd[t].sum = (IF tmp = NoFile THEN Part ELSE tmp) /\ cmd[t].data = want[t] /\ want[t] \in Contents
    BY <1>1, <1>6 DEF IInv, Commands, Command1, Types
  <2>5. tmp = want'[t]
    BY <1>6, <2>4, Distinct
  <2>. QED  BY <1>1, <1>2, <2>1, <2>3, <2>5, CommandsOfOne
<1>7. \/ \E how \in {"ok", "conflict", "failed"} : End(t, how)
      \/ \E p \in {"reread", "third"} : Goto(t, p) /\ UNCHANGED <<cfg, via, got, want, said>>
      \/ /\ cmd[t].sum = cmd[t].data /\ cmd[t].op = "transfer"
         /\ Goto(t, "move") /\ UNCHANGED <<cfg, via, got, want, said, mutex>>
  <2>1. UNCHANGED <<cfg, via, got, want, said, mutex>> => UNCHANGED <<cfg, via, got, want, said>>
    OBVIOUS
  <2>. QED  BY <2>1, AnswerDoes, Zenon
<1>. QED  BY <1>4, <1>5, <1>6, <1>7

LEMMA GiveUpKeepsCommands ==
  ASSUME IInv, NEW t \in Callers, GiveUp(t), loose' = {}
  PROVE  Commands'
<1>1. End(t, "failed") /\ UNCHANGED <<kind, tmp>> /\ cmd[t] # NoCommand
  BY DEF GiveUp, remote
<1>2. CASE cmd' = [cmd EXCEPT ![t] = NoCommand]
  BY <1>1, <1>2, EndKeepsCommands
<1>3. CASE /\ cmd[Stray] = NoCommand
           /\ cmd' = [cmd EXCEPT ![t] = NoCommand, ![Stray] = cmd[t]]
           /\ loose' = loose \cup {c \in {"late"} : kind = "ssh"}
  <2>1. kind = "agent"
    <3>1. kind # "ssh"
      BY <1>3
    <3>. QED  BY <3>1, Distinct DEF IInv, Types
  <2>2. cmd[t].op = "put"
    BY <1>1, <2>1, Distinct, SessionsAreAlone
  <2>3. cmd'[t] = NoCommand /\ cmd'[Stray] = cmd[t] /\ \A u \in Callers \ {t} : cmd'[u] = cmd[u]
    BY <1>3, Distinct DEF IInv, Types
  <2>4. pc'[t] = "idle" /\ got'[t] = want'[t] /\ Keeps(t)
    BY <1>1, <2>3, EndDoes DEF IInv, Types, Keeps
  <2>5. Step(t)' /\ Command1(t)' /\ ~ Moving(t)' /\ ~ Replacing(t)'
    BY <2>3, <2>4 DEF Step, Command1, Moving, Replacing
  <2>. QED  BY <1>1, <1>3, <2>1, <2>2, <2>3, <2>4, <2>5, CommandsOfOne
<1>. QED  BY <1>2, <1>3 DEF GiveUp

LEMMA CallersKeepCommands ==
  ASSUME IInv, NEW t \in Callers, Begin(t) \/ Caller(t), loose' = {}
  PROVE  Commands'
<1>1. CASE ReadFails(t) \/ Reread(t)
  <2>1. UNCHANGED <<kind, tmp, cmd>> /\ pc[t] \in {"read", "check", "reread"}
    BY <1>1, Zenon DEF ReadFails, Reread, remote, At
  <2>2. \E how \in {"ok", "failed"} : End(t, how)
    BY <1>1, Zenon DEF ReadFails, Reread
  <2>3. cmd' = [cmd EXCEPT ![t] = NoCommand]
    BY <2>1, NothingSent, Distinct DEF IInv, Types
  <2>. QED  BY <2>1, <2>2, <2>3, EndKeepsCommands
<1>2. CASE Timeout(t)
  <2>1. /\ UNCHANGED <<kind, tmp, pc, got, want>> /\ cmd[t] # NoCommand
        /\ cmd' = [cmd EXCEPT ![t] = [cmd[t] EXCEPT !.cut = TRUE]]
    BY <1>2 DEF Timeout, remote, caller
  <2>2. cmd[t] \in WholeCommand /\ Step(t) /\ Command1(t) /\ (Moving(t) => tmp = want[t])
    BY <2>1, SendersHold DEF IInv, Commands
  <2>3. /\ cmd'[t] = [cmd[t] EXCEPT !.cut = TRUE] /\ cmd'[Stray] = cmd[Stray]
        /\ Keeps(t)
    BY <2>1, Distinct DEF Keeps, IInv, Types
  <2>4. /\ cmd'[t].op = cmd[t].op /\ cmd'[t].expect = cmd[t].expect /\ cmd'[t].data = cmd[t].data
        /\ cmd'[t].at = cmd[t].at /\ cmd'[t].cut /\ cmd'[t] \in WholeCommand
    BY <2>2, <2>3 DEF WholeCommand
  <2>5. cmd'[t] # NoCommand
    BY <2>4, NoCommandIsNone
  <2>6. Step(t)' /\ Command1(t)'
    BY <2>1, <2>2, <2>4 DEF Step, Command1
  <2>7. (Moving(t)' => tmp = want'[t]) /\ (Replacing(t)' => Replacing(t))
    BY <2>1, <2>2, <2>4, <2>5 DEF Moving, Replacing
  <2>. QED  BY <2>1, <2>3, <2>6, <2>7, CommandsOfOne
<1>. QED  BY <1>1, <1>2, BeginsKeepCommands, ReadKeepsCommands, CheckKeepsCommands, SendKeepsCommands,
             AnswerKeepsCommands, GiveUpKeepsCommands, Zenon DEF Caller

(* The target goes on with a transfer or a move.                           *)
LEMMA SessionKeepsCommands ==
  ASSUME IInv, NEW s \in Slots, Open(s) \/ Fill(s) \/ Move(s)
  PROVE  Commands'
<1>1. /\ cmd[s] \in WholeCommand /\ cmd[s] # NoCommand /\ cmd[s].op \in {"transfer", "move"}
      /\ UNCHANGED Rests
  BY OpenDoes, FillDoes, MoveDoes, Zenon
<1>2. UNCHANGED <<kind, pc, got, want>>
  BY <1>1 DEF Rests, caller
<1>3. /\ s \in Callers /\ s # Stray /\ kind = "ssh" /\ pc[s] = cmd[s].op
      /\ \A u \in Callers \ {s} : pc[u] \notin Holding
      /\ \A r \in Slots \ {s} : cmd[r] = NoCommand
  BY <1>1, SessionsAreAlone
<1>4. Step(s) /\ Command1(s)
  BY <1>3 DEF IInv, Commands
<1>5. /\ \A r \in Slots \ {s} : cmd'[r] = NoCommand
      /\ cmd'[s] \in WholeCommand /\ cmd'[s].op = cmd[s].op
      /\ cmd'[s].expect = cmd[s].expect /\ cmd'[s].data = cmd[s].data
      /\ cmd'[s].op = "move" => cmd'[s].at = "done"
      /\ cmd'[s].at = "done" /\ cmd'[s].op = "transfer" => cmd'[s].sum = tmp' /\ tmp' # NoFile
  <2>1. want[s] \in Contents /\ cmd[s].data \in Contents
    BY <1>1, <1>3 DEF IInv, Types, WholeCommand
  <2>2. CASE Open(s)
    <3>1. cmd' = [cmd EXCEPT ![s] = [cmd[s] EXCEPT !.at = "tmp"]] /\ cmd[s].op = "transfer"
      BY <2>2, OpenDoes
    <3>2. cmd'[s] = [cmd[s] EXCEPT !.at = "tmp"] /\ \A r \in Slots \ {s} : cmd'[r] = NoCommand
      BY <1>3, <3>1 DEF IInv, Types
    <3>. QED  BY <1>1, <3>1, <3>2 DEF WholeCommand
  <2>3. CASE Fill(s)
    <3>1. /\ cmd' = [cmd EXCEPT ![s] = [cmd[s] EXCEPT !.at = "done", !.sum = tmp']] /\ cmd[s].op = "transfer"
          /\ tmp' \in {cmd[s].data, Part}
      BY <2>3, FillDoes
    <3>2. tmp' \in Contents \cup {Part} /\ tmp' # NoFile
      BY <2>1, <3>1, Distinct
    <3>3. cmd'[s] = [cmd[s] EXCEPT !.at = "done", !.sum = tmp'] /\ \A r \in Slots \ {s} : cmd'[r] = NoCommand
      BY <1>3, <3>1 DEF IInv, Types
    <3>4. /\ cmd'[s] \in WholeCommand /\ cmd'[s].op = cmd[s].op /\ cmd'[s].sum = tmp'
          /\ cmd'[s].expect = cmd[s].expect /\ cmd'[s].data = cmd[s].data
      BY <1>1, <3>2, <3>3 DEF WholeCommand
    <3>. QED  BY <3>1, <3>2, <3>3, <3>4
  <2>4. CASE Move(s)
    <3>1. cmd' = [cmd EXCEPT ![s] = [cmd[s] EXCEPT !.at = "done", !.sum = want[s]]] /\ cmd[s].op = "move"
      BY <2>4, MoveDoes
    <3>2. cmd'[s] = [cmd[s] EXCEPT !.at = "done", !.sum = want[s]] /\ \A r \in Slots \ {s} : cmd'[r] = NoCommand
      BY <1>3, <3>1 DEF IInv, Types
    <3>3. /\ cmd'[s] \in WholeCommand /\ cmd'[s].op = cmd[s].op /\ cmd'[s].at = "done"
          /\ cmd'[s].expect = cmd[s].expect /\ cmd'[s].data = cmd[s].data
      BY <1>1, <2>1, <3>2 DEF WholeCommand
    <3>. QED  BY <3>1, <3>2, <3>3
  <2>. QED  BY <2>2, <2>3, <2>4
<1>6. cmd'[s] # NoCommand
  BY <1>5, NoCommandIsNone
<1>7. Step(s)' /\ Command1(s)' /\ ~ Moving(s)'
  BY <1>1, <1>2, <1>3, <1>4, <1>5, <1>6 DEF Step, Command1, Moving
<1>8. ASSUME NEW u \in Callers \ {s}
      PROVE  Step(u)' /\ Command1(u)' /\ ~ Moving(u)'
  <2>1. Step(u) /\ pc[u] \notin Holding /\ cmd'[u] = NoCommand
    BY <1>3, <1>5, Distinct DEF IInv, Commands
  <2>. QED  BY <1>2, <2>1 DEF Step, Command1, Moving, Holding
<1>9. ASSUME NEW r \in Slots PROVE ~ Replacing(r)'
  BY <1>1, <1>5 DEF Replacing
<1>10. cmd'[Stray] = NoCommand
  BY <1>3, <1>5, Distinct
<1>. QED  BY <1>7, <1>8, <1>9, <1>10 DEF Commands

(* An agent goes on with a request.                                        *)
LEMMA AgentKeepsCommands ==
  ASSUME IInv, NEW s \in Slots, Compare(s) \/ Rename(s)
  PROVE  Commands'
<1>1. cmd[s] # NoCommand /\ cmd[s].op = "put" /\ UNCHANGED Rests
  BY CompareDoes, RenameDoes
<1>2. /\ cmd[s] \in WholeCommand /\ kind = "agent"
      /\ s # Stray => s \in Callers /\ pc[s] = "put"
  BY <1>1, RequestsAreOf
<1>3. UNCHANGED <<kind, pc, got, want>>
  BY <1>1 DEF Rests, caller
<1>4. /\ \A r \in Slots \ {s} : cmd'[r] = cmd[r]
      /\ \/ /\ cmd'[s] \in WholeCommand /\ cmd'[s].op = "put"
            /\ cmd'[s].expect = cmd[s].expect /\ cmd'[s].data = cmd[s].data
         \/ cmd'[s] = NoCommand /\ s = Stray
      /\ (cmd'[s] # NoCommand /\ cmd'[s].at = "tmp") => ~ AgentBusy
  <2>1. CASE Compare(s)
    <3>1. /\ cmd' = [cmd EXCEPT ![s] = [cmd[s] EXCEPT !.at = "tmp"]]
             \/ cmd' = [cmd EXCEPT ![s] = Done(s, [cmd[s] EXCEPT !.at = "done"])]
          /\ ~ AgentBusy
      BY <2>1, CompareDoes
    <3>2. /\ \A r \in Slots \ {s} : cmd'[r] = cmd[r]
          /\ cmd'[s] = [cmd[s] EXCEPT !.at = "tmp"] \/ cmd'[s] = Done(s, [cmd[s] EXCEPT !.at = "done"])
      BY <3>1 DEF IInv, Types
    <3>3. CASE cmd'[s] = [cmd[s] EXCEPT !.at = "tmp"]
      BY <1>1, <1>2, <3>1, <3>2, <3>3 DEF WholeCommand
    <3>4. CASE cmd'[s] = Done(s, [cmd[s] EXCEPT !.at = "done"])
      BY <1>1, <1>2, <3>1, <3>2, <3>4 DEF WholeCommand, Done
    <3>. QED  BY <3>2, <3>3, <3>4
  <2>2. CASE Rename(s)
    <3>1. cmd' = [cmd EXCEPT ![s] = Done(s, [cmd[s] EXCEPT !.at = "done", !.sum = cmd[s].data])]
      BY <2>2, RenameDoes
    <3>2. /\ \A r \in Slots \ {s} : cmd'[r] = cmd[r]
          /\ cmd'[s] = Done(s, [cmd[s] EXCEPT !.at = "done", !.sum = cmd[s].data])
      BY <3>1 DEF IInv, Types
    <3>. QED  BY <1>1, <1>2, <3>2 DEF WholeCommand, Done
  <2>. QED  BY <2>1, <2>2
<1>5. ASSUME NEW u \in Callers
      PROVE  Step(u)' /\ Command1(u)' /\ ~ Moving(u)'
  <2>1. Step(u) /\ Command1(u)
    BY DEF IInv, Commands
  <2>2. Step(u)' /\ ~ Moving(u)'
    BY <1>2, <1>3, <2>1 DEF Step, Moving
  <2>3. CASE u = s
    BY <1>1, <1>2, <1>3, <1>4, <2>1, <2>2, <2>3, Distinct DEF Command1
  <2>4. CASE u # s
    <3>1. cmd'[u] = cmd[u]
      BY <1>4, <2>4, Distinct
    <3>2. cmd[u] # NoCommand => cmd[u].op # "transfer"
      BY <1>2, <2>1 DEF Step, Command1
    <3>. QED  BY <1>3, <2>1, <2>2, <3>1, <3>2 DEF Command1
  <2>. QED  BY <2>3, <2>4
<1>6. cmd'[Stray] # NoCommand => kind' = "agent" /\ cmd'[Stray].op = "put"
  BY <1>2, <1>3, <1>4, Distinct DEF IInv, Commands
<1>7. ASSUME NEW p \in Slots, NEW r \in Slots, Replacing(p)', Replacing(r)'
      PROVE  p = r
  <2>1. \A q \in Slots \ {s} : Replacing(q)' => Replacing(q) /\ AgentBusy
    BY <1>4 DEF Replacing, AgentBusy
  <2>2. Replacing(s)' => ~ AgentBusy
    BY <1>4 DEF Replacing
  <2>3. Replacing(p) /\ Replacing(r) => p = r
    BY DEF IInv, Commands
  <2>. QED  BY <1>7, <2>1, <2>2, <2>3
<1>. QED  BY <1>5, <1>6, <1>7 DEF Commands

LEMMA OthersKeepCommands ==
  ASSUME IInv, Save \/ Sweep \/ Pooling \/ HandEdit \/ Restart
  PROVE  Commands'
<1>1. UNCHANGED <<kind, tmp, pc, got, want>>
  BY Zenon DEF Save, Sweep, Pooling, Remove, Close, HandEdit, Restart, remote, caller
<1>2. CASE UNCHANGED cmd
  BY <1>1, <1>2 DEF IInv, Commands, Step, Command1, Moving, Replacing
<1>3. CASE Restart
  <2>1. cmd' = [s \in Slots |->
                 IF s = Stray \/ cmd[s] = NoCommand \/ cmd[s].at = "done"
                   THEN IF s = Stray THEN NoCommand ELSE cmd[s]
                   ELSE [cmd[s] EXCEPT !.at = "done", !.cut = TRUE]]
    BY <1>3, Zenon DEF Restart
  <2>2. ASSUME NEW u \in Callers
        PROVE  Step(u)' /\ Command1(u)' /\ (Moving(u)' => tmp' = want'[u]) /\ ~ Replacing(u)'
    <3>1. Step(u) /\ Command1(u) /\ (Moving(u) => tmp = want[u])
      BY DEF IInv, Commands
    <3>2. CASE cmd[u] = NoCommand \/ cmd[u].at = "done"
      <4>1. cmd'[u] = cmd[u]
        BY <2>1, <3>2, Distinct
      <4>. QED  BY <1>1, <3>1, <3>2, <4>1 DEF Step, Command1, Moving, Replacing
    <3>3. CASE cmd[u] # NoCommand /\ cmd[u].at # "done"
      <4>1. cmd[u] \in WholeCommand
        BY <3>3, Distinct DEF IInv, Types
      <4>2. cmd'[u] = [cmd[u] EXCEPT !.at = "done", !.cut = TRUE]
        BY <2>1, <3>3, Distinct
      <4>3. /\ cmd'[u].op = cmd[u].op /\ cmd'[u].expect = cmd[u].expect /\ cmd'[u].data = cmd[u].data
            /\ cmd'[u].at = "done" /\ cmd'[u].cut /\ cmd'[u] \in WholeCommand
        BY <4>1, <4>2 DEF WholeCommand
      <4>4. cmd'[u] # NoCommand
        BY <4>3, NoCommandIsNone
      <4>. QED  BY <1>1, <3>1, <3>3, <4>3, <4>4 DEF Step, Command1, Moving, Replacing
    <3>. QED  BY <3>2, <3>3
  <2>3. cmd'[Stray] = NoCommand
    BY <2>1, Distinct
  <2>4. \A s \in Slots : ~ Replacing(s)'
    BY <2>2, <2>3, Distinct DEF Replacing
  <2>. QED  BY <2>2, <2>3, <2>4 DEF Commands
<1>. QED  BY <1>2, <1>3, Zenon DEF Save, Sweep, Pooling, Remove, Close, HandEdit

-----------------------------------------------------------------------------
(* What only a stirred file disturbs. *)
LEMMA WatchedOfOne ==
  ASSUME IInv, NEW t \in Callers, Keeps(t), UNCHANGED <<file, stirred>>,
         t # Writer /\ Armed(t)' /\ ~ stirred => file = got'[t],
         t = Writer /\ Waiting' /\ ~ stirred => file = got'[t],
         t = Writer /\ Refused' => stirred,
         \/ said' = said /\ (t = Writer => pc[t] # "idle")
         \/ said' # "conflict"
         \/ t = Writer /\ pc'[t] = "idle" /\ stirred
  PROVE  Watched'
<1>1. ASSUME NEW u \in Testers, Armed(u)', ~ stirred'
      PROVE  file' = got'[u]
  <2>1. u \in Callers /\ u # Writer
    BY Distinct
  <2>2. CASE u = t
    BY <1>1, <2>1, <2>2
  <2>3. CASE u # t
    <3>1. pc'[u] = pc[u] /\ got'[u] = got[u] /\ cmd'[u] = cmd[u]
      BY <2>1, <2>3 DEF Keeps
    <3>2. Armed(u)
      BY <1>1, <3>1 DEF Armed, Moving, Replacing
    <3>. QED  BY <1>1, <3>1, <3>2 DEF IInv, Watched
  <2>. QED  BY <2>2, <2>3
<1>2. t # Writer => pc'[Writer] = pc[Writer] /\ got'[Writer] = got[Writer] /\ cmd'[Writer] = cmd[Writer]
  BY Distinct DEF Keeps
<1>3. Waiting' /\ ~ stirred' => file' = got'[Writer]
  BY <1>2 DEF Waiting, IInv, Watched
<1>4. Refused' => stirred'
  BY <1>2 DEF Refused, IInv, Watched
<1>5. said' = "conflict" => stirred' /\ pc'[Writer] = "idle"
  BY <1>2 DEF IInv, Watched
<1>. QED  BY <1>1, <1>3, <1>4, <1>5 DEF Watched

LEMMA EndKeepsWatched ==
  ASSUME IInv, NEW t \in Callers, NEW how, End(t, how), UNCHANGED <<file, stirred>>,
         cmd'[t] = NoCommand, \A u \in Callers \ {t} : cmd'[u] = cmd[u],
         t = Writer /\ how = "conflict" => stirred
  PROVE  Watched'
<1>1. pc'[t] = "idle" /\ Keeps(t) /\ said' = IF t = Writer THEN how ELSE said
  BY EndDoes DEF IInv, Types, Keeps
<1>2. ~ Armed(t)' /\ (t = Writer => ~ Waiting' /\ ~ Refused')
  BY <1>1 DEF Armed, Moving, Replacing, Waiting, Refused
<1>. QED  BY <1>1, <1>2, WatchedOfOne

LEMMA BeginsKeepWatched ==
  ASSUME IInv, NEW t \in Callers, Begin(t) \/ Get(t) \/ Swap(t) \/ Lock(t)
  PROVE  Watched'
<1>1. UNCHANGED <<file, kind, cmd, got, want, stirred>>
  BY Zenon DEF Begin, Get, Swap, Lock, remote
<1>2. /\ \/ \E p \in {"get", "first", "swap", "read", "reread"} : Goto(t, p)
         \/ Goto(t, "check") /\ pc[t] = "second"
         \/ Goto(t, "put") /\ pc[t] = "second"
      /\ pc[t] \in {"idle", "get", "swap", "first", "second", "third"}
      /\ \/ said' = said /\ pc[t] # "idle"
         \/ said' = IF t = Writer THEN "nothing" ELSE said
  <2>1. CASE Begin(t)
    BY <2>1 DEF Begin, At
  <2>2. CASE Get(t) \/ Swap(t)
    <3>1. said' = said /\ pc[t] \in {"get", "swap"} /\ \E p \in {"first", "swap"} : Goto(t, p)
      BY <2>2, Zenon DEF Get, Swap, Build, At
    <3>. QED  BY <3>1
  <2>3. CASE Lock(t)
    BY <2>3, LockDoes
  <2>. QED  BY <2>1, <2>2, <2>3
<1>3. cmd[t] = NoCommand
  BY <1>2, NothingSent
<1>4. /\ \/ pc'[t] \in {"get", "first", "swap", "read", "reread"}
         \/ pc'[t] \in {"check", "put"} /\ pc[t] = "second"
      /\ \A u \in Callers \ {t} : pc'[u] = pc[u]
  BY <1>2 DEF Goto, IInv, Types
<1>5. Keeps(t) /\ ~ Armed(t)' /\ (t = Writer => ~ Refused')
  BY <1>1, <1>3, <1>4 DEF Keeps, Armed, Moving, Replacing, Refused
<1>6. t = Writer /\ Waiting' => Waiting
  BY <1>4 DEF Waiting
<1>7. t = Writer /\ Waiting' /\ ~ stirred => file = got'[t]
  BY <1>1, <1>6 DEF IInv, Watched
<1>8. \/ said' = said /\ (t = Writer => pc[t] # "idle")
      \/ said' # "conflict"
  BY <1>2
<1>. QED  BY <1>1, <1>5, <1>7, <1>8, WatchedOfOne

(* The writer reads while nobody is about to replace the file.             *)
LEMMA ReadKeepsWatched ==
  ASSUME IInv, NEW t \in Callers, Read(t)
  PROVE  Watched'
<1>1. /\ UNCHANGED <<file, kind, cmd, said>> /\ pc[t] = "read" /\ ~ AgentBusy
      /\ stirred' = (stirred /\ t # Writer)
  BY DEF Read, remote, At
<1>2. cmd[t] = NoCommand
  BY <1>1, NothingSent
<1>3. /\ \/ Goto(t, "second")
         \/ Goto(t, "transfer") /\ t # Writer
      /\ got' = [got EXCEPT ![t] = file]
      /\ \E c \in IF t = Writer THEN Contents \ {file} ELSE {file} : want' = [want EXCEPT ![t] = c]
  BY DEF Read
<1>4. /\ pc'[t] = "second" \/ (pc'[t] = "transfer" /\ t # Writer)
      /\ got'[t] = file /\ Keeps(t)
  BY <1>1, <1>3 DEF Goto, Keeps, IInv, Types
<1>5. CASE t # Writer
  <2>1. stirred' = stirred
    BY <1>1, <1>5, Zenon DEF IInv, Types
  <2>. QED  BY <1>1, <1>4, <1>5, <2>1, WatchedOfOne
<1>6. CASE t = Writer
  <2>1. ASSUME NEW u \in Testers PROVE ~ Armed(u)'
    <3>1. u \in Callers /\ u # t /\ u \in Slots
      BY <1>6, Distinct
    <3>2. pc'[u] = pc[u] /\ cmd'[u] = cmd[u]
      BY <1>4, <3>1 DEF Keeps
    <3>3. CASE kind = "ssh"
      <4>1. pc[u] \notin Holding
        BY <1>1, <3>1, <3>3, HoldersAreOne DEF Holding
      <4>2. cmd[u] = NoCommand
        BY <3>1, <4>1, NothingSent DEF Holding
      <4>. QED  BY <3>2, <4>1, <4>2 DEF Armed, Moving, Replacing, Holding
    <3>4. CASE kind # "ssh"
      <4>1. ~ Replacing(u)
        BY <1>1, <3>1 DEF AgentBusy, Replacing
      <4>2. pc[u] \notin {"transfer", "move"}
        BY <3>1, <3>4, Distinct DEF IInv, Types, Commands, Step
      <4>. QED  BY <3>2, <4>1, <4>2 DEF Armed, Moving, Replacing
    <3>. QED  BY <3>3, <3>4
  <2>2. ~ Refused'
    BY <1>1, <1>2, <1>6 DEF Refused
  <2>3. said' # "conflict"
    BY <1>1, <1>6 DEF IInv, Watched
  <2>. QED  BY <1>1, <1>4, <1>6, <2>1, <2>2, <2>3 DEF Watched
<1>. QED  BY <1>5, <1>6

LEMMA CheckKeepsWatched ==
  ASSUME IInv, NEW t \in Callers, Check(t)
  PROVE  Watched'
<1>1. UNCHANGED <<file, cmd, stirred>> /\ pc[t] = "check"
  BY DEF Check, remote, At
<1>2. cmd[t] = NoCommand
  BY <1>1, NothingSent
<1>3. CASE file = got[t] /\ Goto(t, "transfer") /\ UNCHANGED <<got, want, said>>
  <2>1. pc'[t] = "transfer" /\ Keeps(t) /\ got'[t] = file
    BY <1>1, <1>3 DEF Goto, Keeps, IInv, Types
  <2>2. t = Writer => ~ Waiting' /\ ~ Refused'
    BY <1>1, <1>2, <2>1 DEF Waiting, Refused
  <2>. QED  BY <1>1, <1>3, <2>1, <2>2, WatchedOfOne
<1>4. CASE file # got[t] /\ End(t, "conflict")
  <2>1. t = Writer => stirred
    BY <1>1, <1>4 DEF IInv, Watched, Waiting
  <2>. QED  BY <1>1, <1>2, <1>4, <2>1, EndKeepsWatched
<1>. QED  BY <1>3, <1>4 DEF Check

LEMMA AnswerKeepsWatched ==
  ASSUME IInv, NEW t \in Callers, Answer(t)
  PROVE  Watched'
<1>1. /\ cmd[t] # NoCommand /\ cmd[t].at = "done" /\ ~ cmd[t].cut
      /\ cmd' = [cmd EXCEPT ![t] = NoCommand] /\ UNCHANGED <<file, stirred>>
  BY AnswerDoes DEF remote
<1>2. cmd'[t] = NoCommand /\ \A u \in Callers \ {t} : cmd'[u] = cmd[u]
  BY <1>1, Distinct DEF IInv, Types
<1>3. pc[t] = cmd[t].op /\ pc[t] \in {"transfer", "move", "put"}
  BY <1>1, SendersHold
<1>4. CASE cmd[t].sum # cmd[t].data /\ End(t, IF cmd[t].op = "put" THEN "conflict" ELSE "failed")
  <2>1. t = Writer /\ cmd[t].op = "put" => stirred
    BY <1>1, <1>4 DEF IInv, Watched, Refused
  <2>. QED  BY <1>1, <1>2, <1>4, <2>1, EndKeepsWatched
<1>5. CASE End(t, "ok")
  BY <1>1, <1>2, <1>5, EndKeepsWatched
<1>6. CASE /\ \E p \in {"move", "reread", "third"} : Goto(t, p) /\ (p = "move" => cmd[t].op = "transfer")
           /\ UNCHANGED <<got, want, said>>
  <2>1. /\ pc'[t] \in {"move", "reread", "third"} /\ (pc'[t] = "move" => pc[t] = "transfer")
        /\ Keeps(t) /\ got'[t] = got[t]
    BY <1>2, <1>3, <1>6 DEF Goto, Keeps, IInv, Types
  <2>2. t = Writer => ~ Waiting' /\ ~ Refused'
    BY <1>2, <2>1 DEF Waiting, Refused
  <2>3. Armed(t)' => Armed(t)
    BY <1>2, <2>1 DEF Armed, Moving, Replacing
  <2>4. t # Writer /\ Armed(t)' /\ ~ stirred => file = got'[t]
    BY <2>1, <2>3 DEF IInv, Watched, Callers
  <2>. QED  BY <1>1, <1>3, <1>6, <2>1, <2>2, <2>4, WatchedOfOne
<1>7. UNCHANGED <<cfg, via, got, want, said, mutex>> \/ UNCHANGED <<cfg, via, got, want, said>>
      => UNCHANGED <<got, want, said>>
  OBVIOUS
<1>. QED  BY <1>4, <1>5, <1>6, <1>7, AnswerDoes

LEMMA CallersKeepWatched ==
  ASSUME IInv, NEW t \in Callers, Begin(t) \/ Caller(t)
  PROVE  Watched'
<1>1. CASE ReadFails(t) \/ Reread(t)
  <2>1. UNCHANGED <<file, stirred, cmd>> /\ pc[t] \in {"read", "check", "reread"}
    BY <1>1, Zenon DEF ReadFails, Reread, remote, At
  <2>2. \E how \in {"ok", "failed"} : End(t, how)
    BY <1>1, Zenon DEF ReadFails, Reread
  <2>3. cmd[t] = NoCommand
    BY <2>1, NothingSent
  <2>. QED  BY <2>1, <2>2, <2>3, EndKeepsWatched
<1>2. CASE GiveUp(t)
  <2>1. /\ UNCHANGED <<file, stirred>> /\ End(t, "failed")
        /\ \/ cmd' = [cmd EXCEPT ![t] = NoCommand]
           \/ cmd' = [cmd EXCEPT ![t] = NoCommand, ![Stray] = cmd[t]]
    BY <1>2 DEF GiveUp, remote
  <2>2. cmd'[t] = NoCommand /\ \A u \in Callers \ {t} : cmd'[u] = cmd[u]
    BY <2>1, Distinct DEF IInv, Types
  <2>. QED  BY <2>1, <2>2, EndKeepsWatched
<1>3. CASE Timeout(t) \/ Send(t)
  <2>1. UNCHANGED <<file, stirred, pc, got, want, said>>
    BY <1>3, Zenon DEF Timeout, Send, remote, caller
  <2>2. /\ \A u \in Callers \ {t} : cmd'[u] = cmd[u]
        /\ Replacing(t)' => Replacing(t)
        /\ Moving(t)' => Moving(t)
        /\ pc[t] = "put" /\ (cmd'[t] = NoCommand \/ cmd'[t].at = "sent") => cmd[t] = NoCommand \/ cmd[t].at = "sent"
        /\ cmd'[t].at = "sent" \/ cmd'[t].cut
        /\ pc[t] # "idle"
    <3>1. CASE Send(t)
      <4>1. /\ cmd[t] = NoCommand /\ pc[t] \in {"transfer", "move", "put"}
            /\ cmd' = [cmd EXCEPT ![t] = [op |-> pc[t], expect |-> got[t], data |-> want[t], sum |-> Part,
                                          at |-> "sent", cut |-> FALSE]]
        BY <3>1 DEF Send
      <4>2. cmd'[t].at = "sent" /\ \A u \in Callers \ {t} : cmd'[u] = cmd[u]
        BY <4>1, Distinct DEF IInv, Types
      <4>. QED  BY <2>1, <4>1, <4>2 DEF Moving, Replacing
    <3>2. CASE Timeout(t)
      <4>1. cmd[t] # NoCommand /\ cmd' = [cmd EXCEPT ![t] = [cmd[t] EXCEPT !.cut = TRUE]]
        BY <3>2 DEF Timeout
      <4>2. cmd[t] \in WholeCommand /\ pc[t] # "idle"
        BY <4>1, SendersHold
      <4>3. cmd'[t] = [cmd[t] EXCEPT !.cut = TRUE] /\ \A u \in Callers \ {t} : cmd'[u] = cmd[u]
        BY <4>1, Distinct DEF IInv, Types
      <4>4. cmd'[t].op = cmd[t].op /\ cmd'[t].at = cmd[t].at /\ cmd'[t].cut /\ cmd'[t] \in WholeCommand
        BY <4>2, <4>3 DEF WholeCommand
      <4>5. cmd'[t] # NoCommand
        BY <4>4, NoCommandIsNone
      <4>. QED  BY <2>1, <4>1, <4>2, <4>3, <4>4, <4>5 DEF Moving, Replacing
    <3>. QED  BY <1>3, <3>1, <3>2
  <2>3. Keeps(t)
    BY <2>1, <2>2 DEF Keeps
  <2>4. t # Writer /\ Armed(t)' /\ ~ stirred => file = got'[t]
    BY <2>1, <2>2 DEF Armed, IInv, Watched, Callers
  <2>5. t = Writer /\ Waiting' /\ ~ stirred => file = got'[t]
    BY <2>1, <2>2 DEF Waiting, IInv, Watched
  <2>6. t = Writer => ~ Refused'
    BY <2>2 DEF Refused
  <2>. QED  BY <2>1, <2>2, <2>3, <2>4, <2>5, <2>6, WatchedOfOne
<1>. QED  BY <1>1, <1>2, <1>3, BeginsKeepWatched, ReadKeepsWatched, CheckKeepsWatched, AnswerKeepsWatched,
             Zenon DEF Caller

(* A transfer or a move: nobody else is in a call, and a test moves what   *)
(* it has read.                                                            *)
LEMMA SessionKeepsWatched ==
  ASSUME IInv, NEW s \in Slots, Open(s) \/ Fill(s) \/ Move(s)
  PROVE  Watched'
<1>1. /\ cmd[s] \in WholeCommand /\ cmd[s] # NoCommand /\ cmd[s].op \in {"transfer", "move"}
      /\ UNCHANGED Rests /\ stirred' = stirred
  BY OpenDoes, FillDoes, MoveDoes, Zenon
<1>2. UNCHANGED <<kind, pc, got, want, said>>
  BY <1>1 DEF Rests, caller
<1>3. /\ s \in Callers /\ s # Stray /\ pc[s] = cmd[s].op
      /\ \A u \in Callers \ {s} : pc[u] \notin Holding
      /\ \A r \in Slots \ {s} : cmd[r] = NoCommand
  BY <1>1, SessionsAreAlone
<1>4. file' = file \/ (file' = want[s] /\ cmd[s].op = "move" /\ cmd[s].at = "sent")
  BY OpenDoes, FillDoes, MoveDoes
<1>5. /\ \A r \in Slots \ {s} : cmd'[r] = NoCommand
      /\ cmd'[s].op # "put"
  <2>1. \E a \in {"tmp", "done"}, x \in Contents \cup {Part} :
          \/ cmd' = [cmd EXCEPT ![s] = [cmd[s] EXCEPT !.at = a]]
          \/ cmd' = [cmd EXCEPT ![s] = [cmd[s] EXCEPT !.at = a, !.sum = x]]
    <3>1. want[s] \in Contents /\ cmd[s].data \in Contents
      BY <1>1, <1>3 DEF IInv, Types, WholeCommand
    <3>2. CASE Open(s)
      BY <3>1, <3>2, OpenDoes, Zenon
    <3>3. CASE Fill(s)
      <4>1. tmp' \in Contents \cup {Part}
        BY <3>1, <3>3, FillDoes
      <4>. QED  BY <3>3, <4>1, FillDoes, Zenon
    <3>4. CASE Move(s)
      <4>1. want[s] \in Contents \cup {Part}
        BY <3>1
      <4>. QED  BY <3>4, <4>1, MoveDoes, Zenon
    <3>. QED  BY <3>2, <3>3, <3>4
  <2>2. PICK a \in {"tmp", "done"}, x \in Contents \cup {Part} :
          \/ cmd' = [cmd EXCEPT ![s] = [cmd[s] EXCEPT !.at = a]]
          \/ cmd' = [cmd EXCEPT ![s] = [cmd[s] EXCEPT !.at = a, !.sum = x]]
    BY <2>1
  <2>3. /\ \A r \in Slots \ {s} : cmd'[r] = NoCommand
        /\ cmd'[s] = [cmd[s] EXCEPT !.at = a] \/ cmd'[s] = [cmd[s] EXCEPT !.at = a, !.sum = x]
    BY <1>3, <2>2 DEF IInv, Types
  <2>. QED  BY <1>1, <2>3 DEF WholeCommand
<1>6. cmd[s].op = "move" => Moving(s)
  <2>1. cmd[s].op = "move" => cmd[s].at = "sent"
    BY OpenDoes, FillDoes, MoveDoes
  <2>. QED  BY <1>3, <2>1 DEF Moving
<1>7. s \in Testers /\ ~ stirred => file' = file
  <2>1. s \in Testers /\ cmd[s].op = "move" /\ ~ stirred => file = got[s]
    BY <1>6 DEF Armed, IInv, Watched
  <2>2. s \in Testers => want[s] = got[s]
    BY <1>3 DEF IInv, Commands, Step
  <2>. QED  BY <1>4, <2>1, <2>2
<1>8. ASSUME NEW u \in Testers, Armed(u)', ~ stirred'
      PROVE  file' = got'[u]
  <2>1. u \in Callers
    BY Distinct
  <2>2. pc[u] \in Holding
    <3>1. cmd'[u] # NoCommand => u = s
      BY <1>5, <2>1, Distinct
    <3>. QED  BY <1>1, <1>2, <1>3, <1>8, <3>1 DEF Armed, Moving, Replacing, Holding
  <2>3. u = s
    BY <1>3, <2>1, <2>2
  <2>4. Armed(s)
    BY <1>1, <1>3, <1>6 DEF Armed
  <2>. QED  BY <1>1, <1>2, <1>7, <1>8, <2>3, <2>4 DEF IInv, Watched
<1>9. Writer \in Callers /\ Writer \in Slots /\ (s # Writer => s \in Testers)
  BY <1>3, Distinct DEF Callers
<1>10. Waiting' /\ ~ stirred' => file' = got'[Writer]
  <2>1. CASE s = Writer
    BY <1>1, <1>2, <1>3, <2>1 DEF Waiting
  <2>2. CASE s # Writer
    <3>1. pc[Writer] \notin Holding
      BY <1>3, <1>9, <2>2
    <3>2. Waiting' => Waiting
      BY <1>2, <3>1 DEF Waiting, Holding
    <3>. QED  BY <1>1, <1>2, <1>7, <1>9, <2>2, <3>2 DEF IInv, Watched
  <2>. QED  BY <2>1, <2>2
<1>11. ~ Refused'
  BY <1>5, <1>9 DEF Refused
<1>12. said' = "conflict" => stirred' /\ pc'[Writer] = "idle"
  BY <1>1, <1>2 DEF IInv, Watched
<1>. QED  BY <1>8, <1>10, <1>11, <1>12 DEF Watched

(* An agent that compares has somebody replace what he expects, and        *)
(* refuses the writer only what was stirred.                               *)
LEMMA CompareKeepsWatched ==
  ASSUME IInv, NEW s \in Slots, Compare(s)
  PROVE  Watched'
<1>1. /\ cmd[s] # NoCommand /\ cmd[s].op = "put" /\ cmd[s].at = "sent"
      /\ \/ file = cmd[s].expect /\ cmd' = [cmd EXCEPT ![s] = [cmd[s] EXCEPT !.at = "tmp"]]
         \/ file # cmd[s].expect /\ cmd' = [cmd EXCEPT ![s] = Done(s, [cmd[s] EXCEPT !.at = "done"])]
      /\ UNCHANGED <<Rests, file, stirred>>
  BY CompareDoes
<1>2. /\ cmd[s] \in WholeCommand /\ kind = "agent"
      /\ s # Stray => s \in Callers /\ pc[s] = "put" /\ cmd[s].expect = got[s]
  BY <1>1, RequestsAreOf
<1>3. UNCHANGED <<kind, pc, got, want, said>>
  BY <1>1 DEF Rests, caller
<1>4. /\ \A r \in Slots \ {s} : cmd'[r] = cmd[r]
      /\ \/ file = cmd[s].expect /\ cmd'[s].at = "tmp" /\ cmd'[s] # NoCommand
         \/ file # cmd[s].expect /\ cmd'[s] # NoCommand /\ cmd'[s].at = "done"
         \/ s = Stray
  <2>1. [cmd[s] EXCEPT !.at = "tmp"] \in WholeCommand /\ [cmd[s] EXCEPT !.at = "done"] \in WholeCommand
    BY <1>2 DEF WholeCommand
  <2>2. /\ [cmd[s] EXCEPT !.at = "tmp"].at = "tmp" /\ [cmd[s] EXCEPT !.at = "tmp"] # NoCommand
        /\ [cmd[s] EXCEPT !.at = "done"].at = "done" /\ [cmd[s] EXCEPT !.at = "done"] # NoCommand
    BY <1>2, <2>1, NoCommandIsNone DEF WholeCommand
  <2>3. /\ \A r \in Slots \ {s} : cmd'[r] = cmd[r]
        /\ \/ file = cmd[s].expect /\ cmd'[s] = [cmd[s] EXCEPT !.at = "tmp"]
           \/ file # cmd[s].expect /\ cmd'[s] = Done(s, [cmd[s] EXCEPT !.at = "done"])
    BY <1>1 DEF IInv, Types
  <2>. QED  BY <2>2, <2>3 DEF Done
<1>5. ASSUME NEW u \in Testers, Armed(u)', ~ stirred'
      PROVE  file' = got'[u]
  <2>1. u \in Callers /\ u \in Slots /\ u # Stray
    BY Distinct
  <2>2. Replacing(u)'
    <3>1. pc[u] \notin {"transfer", "move"}
      BY <1>2, <2>1 DEF IInv, Commands, Step
    <3>. QED  BY <1>3, <1>5, <3>1 DEF Armed, Moving
  <2>3. CASE u = s
    BY <1>1, <1>2, <1>3, <1>4, <2>1, <2>2, <2>3 DEF Replacing
  <2>4. CASE u # s
    <3>1. Armed(u)
      BY <1>4, <2>1, <2>2, <2>4 DEF Armed, Replacing
    <3>. QED  BY <1>1, <1>3, <1>5, <3>1 DEF IInv, Watched
  <2>. QED  BY <2>3, <2>4
<1>6. Writer \in Callers /\ Writer \in Slots /\ Writer # Stray
  BY Distinct
<1>7. Waiting' => Waiting
  <2>1. CASE s = Writer
    BY <1>1, <1>3, <1>4, <1>6, <2>1 DEF Waiting
  <2>2. CASE s # Writer
    BY <1>3, <1>4, <1>6, <2>2 DEF Waiting
  <2>. QED  BY <2>1, <2>2
<1>8. Refused' => stirred
  <2>1. CASE s = Writer
    <3>1. Waiting
      BY <1>1, <1>2, <1>6, <2>1 DEF Waiting
    <3>. QED  BY <1>2, <1>4, <1>6, <2>1, <3>1 DEF Refused, IInv, Watched
  <2>2. CASE s # Writer
    <3>1. cmd'[Writer] = cmd[Writer]
      BY <1>4, <1>6, <2>2
    <3>. QED  BY <3>1 DEF Refused, IInv, Watched
  <2>. QED  BY <2>1, <2>2
<1>9. /\ Waiting' /\ ~ stirred' => file' = got'[Writer]
      /\ Refused' => stirred'
      /\ said' = "conflict" => stirred' /\ pc'[Writer] = "idle"
  BY <1>1, <1>3, <1>7, <1>8 DEF IInv, Watched
<1>. QED  BY <1>5, <1>9 DEF Watched

(* While an agent replaces the file no test has its own replacement open.  *)
LEMMA RenameKeepsWatched ==
  ASSUME IInv, NEW s \in Slots, Rename(s)
  PROVE  Watched'
<1>1. /\ cmd[s] # NoCommand /\ cmd[s].op = "put" /\ cmd[s].at = "tmp" /\ file' = cmd[s].data
      /\ cmd' = [cmd EXCEPT ![s] = Done(s, [cmd[s] EXCEPT !.at = "done", !.sum = cmd[s].data])]
      /\ stirred' = (stirred \/ (s = Stray /\ file' # file))
      /\ UNCHANGED Rests
  BY RenameDoes
<1>2. /\ cmd[s] \in WholeCommand /\ kind = "agent"
      /\ s # Stray => s \in Callers /\ pc[s] = "put" /\ cmd[s].data = want[s]
  BY <1>1, RequestsAreOf
<1>3. UNCHANGED <<kind, pc, got, want, said>>
  BY <1>1 DEF Rests, caller
<1>4. /\ \A r \in Slots \ {s} : cmd'[r] = cmd[r]
      /\ s # Stray => cmd'[s].at = "done" /\ cmd'[s].sum = cmd'[s].data /\ cmd'[s] # NoCommand
  <2>1. [cmd[s] EXCEPT !.at = "done", !.sum = cmd[s].data] \in WholeCommand
    BY <1>2 DEF WholeCommand
  <2>2. /\ [cmd[s] EXCEPT !.at = "done", !.sum = cmd[s].data] # NoCommand
        /\ [cmd[s] EXCEPT !.at = "done", !.sum = cmd[s].data].at = "done"
        /\ [cmd[s] EXCEPT !.at = "done", !.sum = cmd[s].data].sum = cmd[s].data
        /\ [cmd[s] EXCEPT !.at = "done", !.sum = cmd[s].data].data = cmd[s].data
    BY <1>2, <2>1, NoCommandIsNone DEF WholeCommand
  <2>3. /\ \A r \in Slots \ {s} : cmd'[r] = cmd[r]
        /\ cmd'[s] = Done(s, [cmd[s] EXCEPT !.at = "done", !.sum = cmd[s].data])
    BY <1>1 DEF IInv, Types
  <2>. QED  BY <2>2, <2>3 DEF Done
<1>5. Replacing(s)
  BY <1>1 DEF Replacing
<1>6. ASSUME NEW u \in Testers PROVE ~ Armed(u)'
  <2>1. u \in Callers /\ u \in Slots /\ u # Stray
    BY Distinct
  <2>2. pc[u] \notin {"transfer", "move"}
    BY <1>2, <2>1 DEF IInv, Commands, Step
  <2>3. ~ Replacing(u)'
    <3>1. CASE u = s
      BY <1>4, <2>1, <3>1 DEF Replacing
    <3>2. CASE u # s
      <4>1. ~ Replacing(u)
        BY <1>5, <2>1, <3>2 DEF IInv, Commands
      <4>. QED  BY <1>4, <2>1, <3>2, <4>1 DEF Replacing
    <3>. QED  BY <3>1, <3>2
  <2>. QED  BY <1>3, <2>2, <2>3 DEF Armed, Moving
<1>7. Writer \in Callers /\ Writer \in Slots /\ Writer # Stray
  BY Distinct
<1>8. s = Stray /\ ~ stirred' => file' = file
  BY <1>1
<1>9. s \in Testers /\ ~ stirred' => file' = file
  <2>1. s \in Testers => s \in Callers /\ s # Stray
    BY Distinct
  <2>2. s \in Testers => want[s] = got[s]
    BY <2>1 DEF IInv, Commands, Step
  <2>3. s \in Testers /\ ~ stirred => file = got[s]
    BY <1>5 DEF Armed, IInv, Watched
  <2>. QED  BY <1>1, <1>2, <2>1, <2>2, <2>3
<1>10. Waiting' /\ ~ stirred' => file' = got'[Writer]
  <2>1. CASE s = Writer
    BY <1>2, <1>3, <1>4, <1>7, <2>1 DEF Waiting
  <2>2. CASE s # Writer
    <3>1. Waiting' => Waiting
      BY <1>3, <1>4, <1>7, <2>2 DEF Waiting
    <3>2. s = Stray \/ s \in Testers
      BY <2>2 DEF Slots, Callers
    <3>3. ~ stirred' => ~ stirred
      BY <1>1
    <3>. QED  BY <1>3, <1>8, <1>9, <3>1, <3>2, <3>3 DEF IInv, Watched
  <2>. QED  BY <2>1, <2>2
<1>11. Refused' => Refused
  <2>1. CASE s = Writer
    BY <1>4, <1>7, <2>1 DEF Refused
  <2>2. CASE s # Writer
    BY <1>4, <1>7, <2>2 DEF Refused
  <2>. QED  BY <2>1, <2>2
<1>12. /\ Refused' => stirred'
       /\ said' = "conflict" => stirred' /\ pc'[Writer] = "idle"
  BY <1>1, <1>3, <1>11 DEF IInv, Watched
<1>. QED  BY <1>6, <1>10, <1>12 DEF Watched

LEMMA OthersKeepWatched ==
  ASSUME IInv, Save \/ Sweep \/ Pooling \/ HandEdit \/ Restart
  PROVE  Watched'
<1>1. UNCHANGED <<pc, got, want, said>>
  BY Zenon DEF Save, Sweep, Pooling, Remove, Close, HandEdit, Restart, caller
<1>2. CASE UNCHANGED <<file, cmd, stirred>>
  BY <1>1, <1>2 DEF IInv, Watched, Armed, Moving, Replacing, Waiting, Refused
<1>3. CASE HandEdit
  <2>1. stirred' = TRUE /\ cmd' = cmd
    BY <1>3 DEF HandEdit
  <2>. QED  BY <1>1, <2>1 DEF IInv, Watched
<1>4. CASE Restart
  <2>1. /\ UNCHANGED <<file, stirred>>
        /\ cmd' = [s \in Slots |->
                    IF s = Stray \/ cmd[s] = NoCommand \/ cmd[s].at = "done"
                      THEN IF s = Stray THEN NoCommand ELSE cmd[s]
                      ELSE [cmd[s] EXCEPT !.at = "done", !.cut = TRUE]]
    BY <1>4, Zenon DEF Restart, remote
  <2>2. ASSUME NEW u \in Callers
        PROVE  /\ cmd'[u] = NoCommand => cmd[u] = NoCommand
               /\ cmd'[u] = cmd[u] \/ (cmd'[u] # NoCommand /\ cmd'[u].at = "done" /\ cmd'[u].cut)
    <3>1. CASE cmd[u] = NoCommand \/ cmd[u].at = "done"
      BY <2>1, <3>1, Distinct
    <3>2. CASE cmd[u] # NoCommand /\ cmd[u].at # "done"
      <4>1. cmd[u] \in WholeCommand
        BY <3>2, Distinct DEF IInv, Types
      <4>2. cmd'[u] = [cmd[u] EXCEPT !.at = "done", !.cut = TRUE]
        BY <2>1, <3>2, Distinct
      <4>3. cmd'[u].at = "done" /\ cmd'[u].cut /\ cmd'[u] \in WholeCommand
        BY <4>1, <4>2 DEF WholeCommand
      <4>. QED  BY <4>3, NoCommandIsNone
    <3>. QED  BY <3>1, <3>2
  <2>3. \A u \in Testers : Armed(u)' => Armed(u)
    BY <1>1, <2>2, Distinct DEF Armed, Moving, Replacing
  <2>4. (Waiting' => Waiting) /\ (Refused' => Refused)
    BY <1>1, <2>2, Distinct DEF Waiting, Refused
  <2>. QED  BY <1>1, <2>1, <2>3, <2>4 DEF IInv, Watched
<1>5. Save \/ Sweep \/ Pooling => UNCHANGED <<file, cmd, stirred>>
  BY DEF Save, Sweep, Pooling, Remove, Close, remote
<1>. QED  BY <1>2, <1>3, <1>4, <1>5

-----------------------------------------------------------------------------
(* A step of nobody: a server falls silent or speaks. *)
LEMMA StillnessKeepsAll ==
  ASSUME IInv, loose' = {}, faults' \in 0..MaxFaults, UNCHANGED <<remote, cmd, pooling, mutex, caller, jobs, stirred>>
  PROVE  IInv'
<1>1. UNCHANGED <<kind, file, tmp, cmd, record, entry, made, pool, keeper, saves, mutex, pc, cfg, via, got, want,
                  said, jobs, stirred>>
  BY DEF remote, pooling, caller
<1>2. Types'
  BY <1>1, Zenon DEF IInv, Types
<1>3. Placed' /\ Held' /\ Alone'
  BY <1>1 DEF IInv, Placed, Held, Alone
<1>4. Commands' /\ Watched'
  BY <1>1 DEF IInv, Commands, Step, Command1, Moving, Replacing, Watched, Armed, Waiting, Refused
<1>. QED  BY <1>2, <1>3, <1>4 DEF IInv

-----------------------------------------------------------------------------
LEMMA Initially == Init => Sound
<1> SUFFICES ASSUME Init PROVE IInv
  BY DEF Sound
<1>1. /\ pc = [t \in Callers |-> "idle"] /\ via = [t \in Callers |-> NoTransport]
      /\ cmd = [s \in Slots |-> NoCommand] /\ said = "nothing" /\ keeper = "idle"
      /\ got = [t \in Callers |-> file] /\ want = [t \in Callers |-> file]
  BY DEF Init
<1>2. Types
  <2>1. file \in Contents /\ record \in Endpoints /\ made \in Endpoints
    BY Distinct DEF Init
  <2>2. /\ pc \in [Callers -> Point] /\ via \in [Callers -> Transports \cup {NoTransport}]
        /\ cmd \in [Slots -> WholeCommand \cup {NoCommand}]
        /\ got \in [Callers -> Contents] /\ want \in [Callers -> Contents]
    BY <1>1, <2>1 DEF Point
  <2>3. /\ cfg \in [Callers -> Endpoints] /\ mutex \in [Transports -> Callers \cup {NoOne}]
        /\ jobs \in [Callers -> Nat] /\ saves \in 0..MaxSaves /\ faults \in 0..MaxFaults
    BY <2>1, TransportAssumption DEF Init
  <2>4. /\ kind \in Kinds /\ tmp \in Contents \cup {Part, NoFile} /\ entry \in Transports \cup {NoTransport}
        /\ pool \in Callers \cup {Keeper, NoOne} /\ keeper \in {"idle", "remove", "close"}
        /\ said \in {"nothing", "ok", "conflict", "failed"} /\ stirred \in BOOLEAN
    BY DEF Init
  <2>. QED  BY <2>1, <2>2, <2>3, <2>4 DEF Types
<1>3. Placed /\ Held /\ Alone
  BY <1>1 DEF Placed, Held, Alone, Without, Holding
<1>5. Commands
  BY <1>1, Distinct DEF Commands, Step, Command1, Moving, Replacing
<1>6. Watched
  <2>1. \A t \in Testers : ~ Armed(t)
    BY <1>1, Distinct DEF Armed, Moving, Replacing
  <2>2. ~ Waiting /\ ~ Refused
    BY <1>1, Distinct DEF Waiting, Refused
  <2>. QED  BY <1>1, <2>1, <2>2 DEF Watched
<1>. QED  BY <1>2, <1>3, <1>5, <1>6 DEF IInv

(* What let two calls be under way at once is not forgotten, and is no     *)
(* matter of an agent.                                                     *)
LEMMA LooseStays == [Next]_vars => kind' = kind /\ loose \subseteq loose' /\ (loose' = loose \/ kind = "ssh")
<1> SUFFICES ASSUME [Next]_vars PROVE kind' = kind /\ loose \subseteq loose' /\ (loose' = loose \/ kind = "ssh")
  OBVIOUS
<1>1. CASE \E t \in Callers : Lock(t) \/ GiveUp(t)
  <2>1. kind' = kind
    BY <1>1, Zenon DEF Lock, GiveUp, remote
  <2>2. \/ loose' = loose
        \/ \E c : loose' = loose \cup {x \in {c} : kind = "ssh"}
        \/ loose' = loose \cup {x \in {"beside"} :
                                kind = "ssh" /\ \E t, u \in Callers : pc[u] \in Holding /\ via[u] # via[t]}
        \/ kind = "ssh" /\ loose \subseteq loose'
    BY <1>1 DEF Lock, GiveUp
  <2>. QED  BY <2>1, <2>2
<1>2. CASE \E t \in Callers : \/ Begin(t) \/ Get(t) \/ Swap(t) \/ Read(t) \/ ReadFails(t) \/ Check(t)
                               \/ Send(t) \/ Answer(t) \/ Reread(t) \/ Timeout(t)
  BY <1>2, Zenon DEF Begin, Get, Swap, Read, ReadFails, Check, Send, Answer, Reread, Timeout, remote
<1>3. CASE Save \/ Sweep \/ Pooling \/ HandEdit \/ Restart \/ GoSilent \/ Speak
  BY <1>3, Zenon DEF Save, Sweep, Pooling, Remove, Close, HandEdit, Restart, GoSilent, Speak, remote
<1>4. CASE \E s \in Slots : Open(s) \/ Fill(s) \/ Move(s) \/ Compare(s) \/ Rename(s)
  BY <1>4, Zenon DEF Open, Fill, Move, Compare, Rename
<1>5. CASE Rest \/ UNCHANGED vars
  BY <1>5 DEF Rest, vars, remote
<1>. QED  BY <1>1, <1>2, <1>3, <1>4, <1>5, Zenon DEF Next, Caller, Target

LEMMA Inductive == Sound /\ [Next]_vars => Sound'
<1> SUFFICES ASSUME Sound, [Next]_vars, loose' = {} PROVE IInv'
  BY DEF Sound
<1>1. IInv
  BY LooseStays DEF Sound
<1>2. CASE \E t \in Callers : Begin(t) \/ Caller(t)
  BY <1>1, <1>2, CallersKeepTypes, CallersKeepPlaces, CallersKeepCommands, CallersKeepWatched DEF IInv
<1>3. CASE Save \/ Sweep \/ Pooling \/ HandEdit \/ Restart
  BY <1>1, <1>3, OthersKeepTypes, OthersKeepPlaces, OthersKeepCommands, OthersKeepWatched DEF IInv
<1>4. CASE \E s \in Slots : Open(s) \/ Fill(s) \/ Move(s) \/ Compare(s) \/ Rename(s)
  BY <1>1, <1>4, TargetKeepsTypes, OthersKeepPlaces, SessionKeepsCommands, AgentKeepsCommands,
     SessionKeepsWatched, CompareKeepsWatched, RenameKeepsWatched DEF IInv
<1>5. CASE GoSilent \/ Speak \/ UNCHANGED vars
  <2>1. UNCHANGED <<remote, cmd, pooling, mutex, caller, jobs, stirred>>
    BY <1>5 DEF GoSilent, Speak, vars
  <2>2. faults' \in 0..MaxFaults
    BY <1>1, <1>5, TransportAssumption DEF GoSilent, Speak, Disturb, vars, IInv, Types
  <2>. QED  BY <1>1, <2>1, <2>2, StillnessKeepsAll
<1>6. CASE Rest
  BY <1>5, <1>6 DEF Rest
<1>. QED  BY <1>2, <1>3, <1>4, <1>5, <1>6 DEF Next, Target

LEMMA Invariance == Spec => []Sound
BY Initially, Inductive, PTL DEF Spec

(* Only over SSH do commands outlive their calls or calls overlap in a way *)
(* that matters: an agent keeps every promise below to the letter.         *)
THEOREM AgentsKeepTheirOrder == Spec => [](kind = "agent" => loose = {})
<1>1. Init => (kind = "agent" => loose = {})
  BY DEF Init
<1>2. (kind = "agent" => loose = {}) /\ [Next]_vars => (kind = "agent" => loose = {})'
  BY LooseStays
<1>. QED  BY <1>1, <1>2, PTL DEF Spec

(* A change is refused only when the file changed under it ("the remote    *)
(* file changed since it was read"), or after SSH commands of two calls    *)
(* were under way at once: a connection test beside it is no cause, nor is *)
(* the transport it is given.                                              *)
THEOREM ConflictsAreReal == Spec => []ConflictsHaveACause
<1>1. Sound => ConflictsHaveACause
  BY DEF Sound, IInv, Watched, ConflictsHaveACause
<1>. QED  BY Invariance, <1>1, PTL

-----------------------------------------------------------------------------
(* The refinement of GuardedFile: which requests are armed, and for what.  *)
Moves(t) == pc[t] = "transfer" \/ Moving(t)
Arms(e, d) ==
  \/ \E t \in Callers : Moves(t) /\ got[t] = e /\ want[t] = d
  \/ \E s \in Slots : Replacing(s) /\ cmd[s].expect = e /\ cmd[s].data = d

Armed1(e, d) == [expect |-> e, data |-> d, armed |-> TRUE]

LEMMA AsksAreRequests == IInv => Asks \subseteq [expect : Contents, data : Contents, armed : BOOLEAN]
<1> SUFFICES ASSUME IInv, NEW a \in Asks
             PROVE  a \in [expect : Contents, data : Contents, armed : BOOLEAN]
  OBVIOUS
<1>1. CASE \E s \in Slots : cmd[s] # NoCommand /\ a = Ask(cmd[s])
  <2>1. PICK s \in Slots : cmd[s] # NoCommand /\ a = Ask(cmd[s])
    BY <1>1
  <2>2. cmd[s] \in WholeCommand
    BY <2>1 DEF IInv, Types
  <2>3. cmd[s].expect \in Contents /\ cmd[s].data \in Contents
    BY <2>2 DEF WholeCommand
  <2>. QED  BY <2>1, <2>3 DEF Ask
<1>2. CASE \E t \in Callers : a = [expect |-> got[t], data |-> want[t], armed |-> TRUE]
  BY <1>2 DEF IInv, Types
<1>. QED  BY <1>1, <1>2 DEF Asks

LEMMA ArmedAsks == IInv => \A a \in Asks : a.armed => Arms(a.expect, a.data)
<1> SUFFICES ASSUME IInv, NEW a \in Asks, a.armed
             PROVE  Arms(a.expect, a.data)
  OBVIOUS
<1>1. CASE \E s \in Slots : cmd[s] # NoCommand /\ cmd[s].op # "transfer" /\ cmd[s].at # "done" /\ a = Ask(cmd[s])
  <2>1. PICK s \in Slots : cmd[s] # NoCommand /\ cmd[s].op # "transfer" /\ cmd[s].at # "done" /\ a = Ask(cmd[s])
    BY <1>1
  <2>2. /\ a.expect = cmd[s].expect /\ a.data = cmd[s].data
        /\ cmd[s].op = "move" \/ cmd[s].at = "tmp"
    BY <2>1 DEF Ask
  <2>3. cmd[s] \in WholeCommand
    BY <2>1 DEF IInv, Types
  <2>4. CASE cmd[s].op = "put"
    BY <2>1, <2>2, <2>4 DEF Arms, Replacing
  <2>5. CASE cmd[s].op # "put"
    <3>1. s \in Callers /\ pc[s] = cmd[s].op /\ cmd[s].op = "move"
      BY <2>1, <2>3, <2>5, SessionsAreAlone DEF WholeCommand
    <3>2. cmd[s].at = "sent" /\ cmd[s].expect = got[s] /\ cmd[s].data = want[s]
      BY <2>1, <2>3, <3>1 DEF IInv, Commands, Command1, WholeCommand
    <3>. QED  BY <2>2, <3>1, <3>2 DEF Arms, Moves, Moving
  <2>. QED  BY <2>4, <2>5
<1>2. CASE \E t \in Callers : /\ At(t, "transfer") \/ (At(t, "move") /\ cmd[t] = NoCommand)
                              /\ a = [expect |-> got[t], data |-> want[t], armed |-> TRUE]
  BY <1>2 DEF Arms, Moves, Moving, At
<1>. QED  BY <1>1, <1>2 DEF Asks

LEMMA ArmsAreAsks ==
  ASSUME IInv, NEW e, NEW d, Arms(e, d)
  PROVE  Armed1(e, d) \in Asks
<1>1. ASSUME NEW t \in Callers, Moves(t)
      PROVE  Armed1(got[t], want[t]) \in Asks
  <2>1. CASE pc[t] = "transfer" \/ (pc[t] = "move" /\ cmd[t] = NoCommand)
    BY <2>1 DEF Asks, Armed1, At
  <2>2. CASE pc[t] = "move" /\ cmd[t] # NoCommand /\ cmd[t].at = "sent"
    <3>1. cmd[t].op = "move" /\ cmd[t].expect = got[t] /\ cmd[t].data = want[t] /\ t \in Slots
      BY <2>2, SendersHold, Distinct
    <3>2. Ask(cmd[t]) = Armed1(got[t], want[t])
      BY <3>1 DEF Ask, Armed1
    <3>. QED  BY <2>2, <3>1, <3>2 DEF Asks
  <2>. QED  BY <1>1, <2>1, <2>2 DEF Moves, Moving
<1>2. ASSUME NEW s \in Slots, Replacing(s)
      PROVE  Armed1(cmd[s].expect, cmd[s].data) \in Asks
  <2>1. cmd[s] # NoCommand /\ cmd[s].op = "put" /\ cmd[s].at = "tmp"
    BY <1>2 DEF Replacing
  <2>2. Ask(cmd[s]) = Armed1(cmd[s].expect, cmd[s].data)
    BY <2>1 DEF Ask, Armed1
  <2>. QED  BY <2>1, <2>2 DEF Asks
<1>. QED  BY <1>1, <1>2 DEF Arms

(* A step that leaves the file arms only what expects it.                  *)
LEMMA CallersArm ==
  ASSUME IInv, NEW t \in Callers, Begin(t) \/ Caller(t)
  PROVE  /\ file' = file
         /\ Keeps(t)
         /\ Moves(t)' => got'[t] = file \/ (Moves(t) /\ got'[t] = got[t] /\ want'[t] = want[t])
         /\ Replacing(t)' => Replacing(t) /\ cmd'[t].expect = cmd[t].expect /\ cmd'[t].data = cmd[t].data
         /\ cmd'[Stray] \in {cmd[Stray], cmd[t]}
<1> DEFINE Goal ==
         /\ file' = file
         /\ Keeps(t)
         /\ Moves(t)' => got'[t] = file \/ (Moves(t) /\ got'[t] = got[t] /\ want'[t] = want[t])
         /\ Replacing(t)' => Replacing(t) /\ cmd'[t].expect = cmd[t].expect /\ cmd'[t].data = cmd[t].data
         /\ cmd'[Stray] \in {cmd[Stray], cmd[t]}
<1> SUFFICES Goal
  OBVIOUS
<1> HIDE DEF Goal
<1>1. ASSUME NEW how, End(t, how), file' = file, cmd'[t] = NoCommand,
             \A u \in Callers \ {t} : cmd'[u] = cmd[u], cmd'[Stray] \in {cmd[Stray], cmd[t]}
      PROVE  Goal
  <2>1. pc'[t] = "idle" /\ Keeps(t)
    BY <1>1, EndDoes DEF IInv, Types, Keeps
  <2>. QED  BY <1>1, <2>1 DEF Goal, Moves, Moving, Replacing
<1>2. ASSUME NEW p \in Point \ {"transfer", "move"}, Goto(t, p), UNCHANGED <<file, got, want>>,
             cmd'[t] = NoCommand, \A u \in Callers \ {t} : cmd'[u] = cmd[u], cmd'[Stray] = cmd[Stray]
      PROVE  Goal
  <2>1. pc'[t] = p /\ Keeps(t)
    BY <1>2 DEF Goto, Keeps, IInv, Types
  <2>. QED  BY <1>2, <2>1 DEF Goal, Moves, Moving, Replacing
<1>3. CASE Begin(t) \/ Get(t) \/ Swap(t) \/ Lock(t)
  <2>1. UNCHANGED <<file, cmd, got, want>>
    BY <1>3, Zenon DEF Begin, Get, Swap, Lock, remote
  <2>2. /\ \E p \in {"get", "first", "swap", "read", "reread", "check", "put"} : Goto(t, p)
        /\ pc[t] \in {"idle", "get", "swap", "first", "second", "third"}
    <3>1. CASE Begin(t)
      BY <3>1 DEF Begin, At
    <3>2. CASE Get(t) \/ Swap(t)
      BY <3>2, Zenon DEF Get, Swap, Build, At
    <3>3. CASE Lock(t)
      BY <3>3, LockDoes
    <3>. QED  BY <1>3, <3>1, <3>2, <3>3
  <2>3. cmd[t] = NoCommand
    BY <2>2, NothingSent
  <2>4. {"get", "first", "swap", "read", "reread", "check", "put"} \subseteq Point \ {"transfer", "move"}
    BY DEF Point
  <2>. QED  BY <1>2, <2>1, <2>2, <2>3, <2>4
<1>4. CASE Read(t)
  <2>1. /\ UNCHANGED <<file, cmd>> /\ pc[t] = "read" /\ got' = [got EXCEPT ![t] = file]
        /\ Goto(t, "second") \/ Goto(t, "transfer")
        /\ \E c \in IF t = Writer THEN Contents \ {file} ELSE {file} : want' = [want EXCEPT ![t] = c]
    BY <1>4 DEF Read, remote, At
  <2>2. cmd[t] = NoCommand
    BY <2>1, NothingSent
  <2>3. Keeps(t) /\ got'[t] = file
    BY <2>1 DEF Goto, Keeps, IInv, Types
  <2>. QED  BY <2>1, <2>2, <2>3 DEF Goal, Replacing
<1>5. CASE ReadFails(t) \/ Reread(t)
  <2>1. UNCHANGED <<file, cmd>> /\ pc[t] \in {"read", "check", "reread"}
    BY <1>5, Zenon DEF ReadFails, Reread, remote, At
  <2>2. \E how \in {"ok", "failed"} : End(t, how)
    BY <1>5, Zenon DEF ReadFails, Reread
  <2>3. cmd[t] = NoCommand
    BY <2>1, NothingSent
  <2>. QED  BY <1>1, <2>1, <2>2, <2>3
<1>6. CASE Check(t)
  <2>1. UNCHANGED <<file, cmd>> /\ pc[t] = "check"
    BY <1>6 DEF Check, remote, At
  <2>2. cmd[t] = NoCommand
    BY <2>1, NothingSent
  <2>3. CASE file = got[t] /\ Goto(t, "transfer") /\ UNCHANGED <<got, want>>
    <3>1. Keeps(t) /\ got'[t] = file
      BY <2>1, <2>3 DEF Goto, Keeps, IInv, Types
    <3>. QED  BY <2>1, <2>2, <3>1 DEF Goal, Replacing
  <2>4. CASE End(t, "conflict")
    BY <1>1, <2>1, <2>2, <2>4
  <2>. QED  BY <1>6, <2>3, <2>4 DEF Check
<1>7. CASE Send(t)
  <2>1. /\ UNCHANGED <<file, pc, got, want>> /\ cmd[t] = NoCommand
        /\ cmd' = [cmd EXCEPT ![t] = [op |-> pc[t], expect |-> got[t], data |-> want[t], sum |-> Part,
                                      at |-> "sent", cut |-> FALSE]]
    BY <1>7 DEF Send, remote, caller
  <2>2. cmd'[t].at = "sent" /\ Keeps(t) /\ cmd'[Stray] = cmd[Stray]
    BY <2>1, Distinct DEF Keeps, IInv, Types
  <2>. QED  BY <2>1, <2>2 DEF Goal, Moves, Moving, Replacing
<1>8. CASE Answer(t)
  <2>1. /\ cmd' = [cmd EXCEPT ![t] = NoCommand] /\ UNCHANGED <<file, kind>> /\ cmd[t] # NoCommand
    BY <1>8, AnswerDoes DEF remote
  <2>2. cmd'[t] = NoCommand /\ cmd'[Stray] = cmd[Stray] /\ \A u \in Callers \ {t} : cmd'[u] = cmd[u]
    BY <2>1, Distinct DEF IInv, Types
  <2>3. pc[t] = cmd[t].op
    BY <2>1, SendersHold
  <2>4. CASE \E how \in {"ok", "conflict", "failed"} : End(t, how)
    BY <1>1, <2>1, <2>2, <2>4
  <2>5. CASE \E p \in {"reread", "third"} : Goto(t, p) /\ UNCHANGED <<got, want>>
    BY <1>2, <2>1, <2>2, <2>5 DEF Point
  <2>6. CASE cmd[t].op = "transfer" /\ Goto(t, "move") /\ UNCHANGED <<got, want>>
    <3>1. Keeps(t) /\ got'[t] = got[t] /\ want'[t] = want[t]
      BY <2>2, <2>6 DEF Goto, Keeps, IInv, Types
    <3>. QED  BY <2>1, <2>2, <2>3, <2>6, <3>1 DEF Goal, Moves, Replacing
  <2>7. UNCHANGED <<cfg, via, got, want, said, mutex>> \/ UNCHANGED <<cfg, via, got, want, said>>
        => UNCHANGED <<got, want>>
    OBVIOUS
  <2>. QED  BY <1>8, <2>4, <2>5, <2>6, <2>7, AnswerDoes
<1>9. CASE Timeout(t)
  <2>1. /\ UNCHANGED <<file, pc, got, want>> /\ cmd[t] # NoCommand
        /\ cmd' = [cmd EXCEPT ![t] = [cmd[t] EXCEPT !.cut = TRUE]]
    BY <1>9 DEF Timeout, remote, caller
  <2>2. cmd[t] \in WholeCommand
    BY <2>1, SendersHold
  <2>3. cmd'[t] = [cmd[t] EXCEPT !.cut = TRUE] /\ cmd'[Stray] = cmd[Stray] /\ Keeps(t)
    BY <2>1, Distinct DEF Keeps, IInv, Types
  <2>4. /\ cmd'[t].op = cmd[t].op /\ cmd'[t].expect = cmd[t].expect /\ cmd'[t].data = cmd[t].data
        /\ cmd'[t].at = cmd[t].at /\ cmd'[t] \in WholeCommand
    BY <2>2, <2>3 DEF WholeCommand
  <2>5. cmd'[t] # NoCommand
    BY <2>4, NoCommandIsNone
  <2>. QED  BY <2>1, <2>3, <2>4, <2>5 DEF Goal, Moves, Moving, Replacing
<1>10. CASE GiveUp(t)
  <2>1. /\ file' = file /\ End(t, "failed")
        /\ \/ cmd' = [cmd EXCEPT ![t] = NoCommand]
           \/ cmd' = [cmd EXCEPT ![t] = NoCommand, ![Stray] = cmd[t]]
    BY <1>10 DEF GiveUp, remote
  <2>2. /\ cmd'[t] = NoCommand /\ \A u \in Callers \ {t} : cmd'[u] = cmd[u]
        /\ cmd'[Stray] \in {cmd[Stray], cmd[t]}
    BY <2>1, Distinct DEF IInv, Types
  <2>. QED  BY <1>1, <2>1, <2>2
<1>. QED  BY <1>3, <1>4, <1>5, <1>6, <1>7, <1>8, <1>9, <1>10, Zenon DEF Caller

LEMMA CallersAsk ==
  ASSUME IInv, NEW t \in Callers, Begin(t) \/ Caller(t), NEW e, NEW d, Arms(e, d)'
  PROVE  file' = file /\ (Arms(e, d) \/ e = file)
<1>1. /\ file' = file
      /\ Keeps(t)
      /\ Moves(t)' => got'[t] = file \/ (Moves(t) /\ got'[t] = got[t] /\ want'[t] = want[t])
      /\ Replacing(t)' => Replacing(t) /\ cmd'[t].expect = cmd[t].expect /\ cmd'[t].data = cmd[t].data
      /\ cmd'[Stray] \in {cmd[Stray], cmd[t]}
  BY CallersArm
<1>2. ASSUME NEW u \in Callers, Moves(u)', got'[u] = e, want'[u] = d
      PROVE  Arms(e, d) \/ e = file
  <2>1. CASE u = t
    BY <1>1, <1>2, <2>1 DEF Arms
  <2>2. CASE u # t
    <3>1. pc'[u] = pc[u] /\ got'[u] = got[u] /\ want'[u] = want[u] /\ cmd'[u] = cmd[u]
      BY <1>1, <2>2 DEF Keeps
    <3>2. Moves(u)
      BY <1>2, <3>1 DEF Moves, Moving
    <3>. QED  BY <1>2, <3>1, <3>2 DEF Arms
  <2>. QED  BY <2>1, <2>2
<1>3. ASSUME NEW s \in Slots, Replacing(s)', cmd'[s].expect = e, cmd'[s].data = d
      PROVE  Arms(e, d)
  <2>1. CASE s = t
    BY <1>1, <1>3, <2>1 DEF Arms
  <2>2. CASE s = Stray
    <3>1. \/ Replacing(Stray) /\ cmd[Stray].expect = e /\ cmd[Stray].data = d
          \/ Replacing(t) /\ cmd[t].expect = e /\ cmd[t].data = d
      BY <1>1, <1>3, <2>2 DEF Replacing
    <3>. QED  BY <3>1, Distinct DEF Arms
  <2>3. CASE s # t /\ s # Stray
    <3>1. cmd'[s] = cmd[s]
      BY <1>1, <2>3, Distinct DEF Keeps
    <3>. QED  BY <1>3, <3>1 DEF Arms, Replacing
  <2>. QED  BY <2>1, <2>2, <2>3
<1>4. \/ \E u \in Callers : Moves(u)' /\ got'[u] = e /\ want'[u] = d
      \/ \E s \in Slots : Replacing(s)' /\ cmd'[s].expect = e /\ cmd'[s].data = d
  BY DEF Arms
<1>. QED  BY <1>1, <1>2, <1>3, <1>4

LEMMA TargetAsks ==
  ASSUME IInv, NEW s \in Slots, Open(s) \/ Fill(s) \/ Compare(s), NEW e, NEW d, Arms(e, d)'
  PROVE  file' = file /\ (Arms(e, d) \/ e = file)
<1>1. /\ UNCHANGED <<Rests, file>> /\ cmd[s] \in WholeCommand /\ cmd[s] # NoCommand
      /\ \/ cmd[s].op = "transfer"
         \/ cmd[s].op = "put" /\ Compare(s)
  BY OpenDoes, FillDoes, CompareDoes, RequestsAreOf
<1>2. UNCHANGED <<pc, got, want>>
  BY <1>1 DEF Rests, caller
<1>3. /\ \A r \in Slots \ {s} : cmd'[r] = cmd[r]
      /\ \/ cmd'[s] \in WholeCommand /\ cmd'[s].op = cmd[s].op /\ cmd'[s].expect = cmd[s].expect
            /\ (cmd[s].op = "put" /\ cmd'[s].at = "tmp" => cmd[s].expect = file)
         \/ cmd'[s] = NoCommand /\ s = Stray
  <2>1. CASE Open(s)
    <3>1. cmd' = [cmd EXCEPT ![s] = [cmd[s] EXCEPT !.at = "tmp"]] /\ cmd[s].op = "transfer"
      BY <2>1, OpenDoes
    <3>2. cmd'[s] = [cmd[s] EXCEPT !.at = "tmp"] /\ \A r \in Slots \ {s} : cmd'[r] = cmd[r]
      BY <3>1 DEF IInv, Types
    <3>. QED  BY <1>1, <3>1, <3>2 DEF WholeCommand
  <2>2. CASE Fill(s)
    <3>1. /\ cmd' = [cmd EXCEPT ![s] = [cmd[s] EXCEPT !.at = "done", !.sum = tmp']] /\ cmd[s].op = "transfer"
          /\ tmp' \in {cmd[s].data, Part}
      BY <2>2, FillDoes
    <3>2. cmd'[s] = [cmd[s] EXCEPT !.at = "done", !.sum = tmp'] /\ \A r \in Slots \ {s} : cmd'[r] = cmd[r]
      BY <3>1 DEF IInv, Types
    <3>3. tmp' \in Contents \cup {Part}
      BY <1>1, <3>1 DEF WholeCommand
    <3>4. cmd'[s] \in WholeCommand /\ cmd'[s].op = cmd[s].op /\ cmd'[s].expect = cmd[s].expect
      BY <1>1, <3>2, <3>3 DEF WholeCommand
    <3>. QED  BY <3>1, <3>2, <3>4
  <2>3. CASE Compare(s)
    <3>1. \/ file = cmd[s].expect /\ cmd' = [cmd EXCEPT ![s] = [cmd[s] EXCEPT !.at = "tmp"]]
          \/ cmd' = [cmd EXCEPT ![s] = Done(s, [cmd[s] EXCEPT !.at = "done"])]
      BY <2>3, CompareDoes
    <3>2. CASE file = cmd[s].expect /\ cmd' = [cmd EXCEPT ![s] = [cmd[s] EXCEPT !.at = "tmp"]]
      <4>1. cmd'[s] = [cmd[s] EXCEPT !.at = "tmp"] /\ \A r \in Slots \ {s} : cmd'[r] = cmd[r]
        BY <3>2 DEF IInv, Types
      <4>. QED  BY <1>1, <3>2, <4>1 DEF WholeCommand
    <3>3. CASE cmd' = [cmd EXCEPT ![s] = Done(s, [cmd[s] EXCEPT !.at = "done"])]
      <4>1. cmd'[s] = Done(s, [cmd[s] EXCEPT !.at = "done"]) /\ \A r \in Slots \ {s} : cmd'[r] = cmd[r]
        BY <3>3 DEF IInv, Types
      <4>. QED  BY <1>1, <4>1 DEF WholeCommand, Done
    <3>. QED  BY <3>1, <3>2, <3>3
  <2>. QED  BY <2>1, <2>2, <2>3
<1>4. ASSUME NEW u \in Callers, Moves(u)', got'[u] = e, want'[u] = d
      PROVE  Arms(e, d)
  <2>1. Moves(u)
    <3>1. CASE u # s
      BY <1>2, <1>3, <1>4, <3>1, Distinct DEF Moves, Moving
    <3>2. CASE u = s
      <4>1. pc[s] = cmd[s].op
        BY <1>1, <3>2, SendersHold
      <4>. QED  BY <1>1, <1>2, <1>4, <3>2, <4>1 DEF Moves, Moving
    <3>. QED  BY <3>1, <3>2
  <2>. QED  BY <1>2, <1>4, <2>1 DEF Arms
<1>5. ASSUME NEW r \in Slots, Replacing(r)', cmd'[r].expect = e, cmd'[r].data = d
      PROVE  Arms(e, d) \/ e = file
  <2>1. CASE r = s
    BY <1>1, <1>3, <1>5, <2>1 DEF Replacing
  <2>2. CASE r # s
    BY <1>3, <1>5, <2>2 DEF Replacing, Arms
  <2>. QED  BY <2>1, <2>2
<1>6. \/ \E u \in Callers : Moves(u)' /\ got'[u] = e /\ want'[u] = d
      \/ \E r \in Slots : Replacing(r)' /\ cmd'[r].expect = e /\ cmd'[r].data = d
  BY DEF Arms
<1>. QED  BY <1>1, <1>4, <1>5, <1>6

LEMMA OthersAsk ==
  ASSUME IInv, Save \/ Sweep \/ Pooling \/ Restart \/ GoSilent \/ Speak \/ UNCHANGED vars, NEW e, NEW d, Arms(e, d)'
  PROVE  file' = file /\ Arms(e, d)
<1>1. UNCHANGED <<file, pc, got, want>>
  BY Zenon DEF Save, Sweep, Pooling, Remove, Close, Restart, GoSilent, Speak, remote, caller, vars
<1>2. CASE UNCHANGED cmd
  BY <1>1, <1>2 DEF Arms, Moves, Moving, Replacing
<1>3. CASE Restart
  <2>1. cmd' = [s \in Slots |->
                 IF s = Stray \/ cmd[s] = NoCommand \/ cmd[s].at = "done"
                   THEN IF s = Stray THEN NoCommand ELSE cmd[s]
                   ELSE [cmd[s] EXCEPT !.at = "done", !.cut = TRUE]]
    BY <1>3, Zenon DEF Restart
  <2>2. ASSUME NEW s \in Slots
        PROVE  /\ cmd'[s] = NoCommand => cmd[s] = NoCommand \/ s = Stray
               /\ cmd'[s] = NoCommand \/ cmd'[s] = cmd[s] \/ cmd'[s].at = "done"
    <3>1. CASE s = Stray \/ cmd[s] = NoCommand \/ cmd[s].at = "done"
      BY <2>1, <3>1
    <3>2. CASE s # Stray /\ cmd[s] # NoCommand /\ cmd[s].at # "done"
      <4>1. cmd[s] \in WholeCommand
        BY <3>2 DEF IInv, Types
      <4>2. cmd'[s] = [cmd[s] EXCEPT !.at = "done", !.cut = TRUE]
        BY <2>1, <3>2
      <4>3. cmd'[s].at = "done" /\ cmd'[s] \in WholeCommand
        BY <4>1, <4>2 DEF WholeCommand
      <4>. QED  BY <4>3, NoCommandIsNone
    <3>. QED  BY <3>1, <3>2
  <2>3. \A u \in Callers : Moves(u)' => Moves(u)
    BY <1>1, <2>2, Distinct DEF Moves, Moving
  <2>4. \A s \in Slots : Replacing(s)' => Replacing(s) /\ cmd'[s] = cmd[s]
    BY <2>2 DEF Replacing
  <2>. QED  BY <1>1, <2>3, <2>4 DEF Arms
<1>4. Save \/ Sweep \/ Pooling \/ GoSilent \/ Speak \/ UNCHANGED vars => UNCHANGED cmd
  BY DEF Save, Sweep, Pooling, Remove, Close, GoSilent, Speak, vars
<1>. QED  BY <1>1, <1>2, <1>3, <1>4

(* What replaces the file was armed, and leaves nobody armed beside it.    *)
LEMMA ReplacementsAreAsked ==
  ASSUME IInv, NEW s \in Slots, Move(s) \/ Rename(s)
  PROVE  \E e : Arms(e, file') /\ \A f, d : ~ Arms(f, d)'
<1>1. CASE Move(s)
  <2>1. /\ cmd[s] # NoCommand /\ cmd[s].op = "move" /\ cmd[s].at = "sent" /\ cmd[s] \in WholeCommand
        /\ s \in Callers /\ file' = want[s]
        /\ cmd' = [cmd EXCEPT ![s] = [cmd[s] EXCEPT !.at = "done", !.sum = want[s]]]
        /\ UNCHANGED Rests
    BY <1>1, MoveDoes
  <2>2. UNCHANGED <<pc, got, want>>
    BY <2>1 DEF Rests, caller
  <2>3. /\ pc[s] = "move"
        /\ \A u \in Callers \ {s} : pc[u] \notin Holding
        /\ \A r \in Slots \ {s} : cmd[r] = NoCommand
    BY <2>1, SessionsAreAlone
  <2>4. Arms(got[s], file')
    BY <2>1, <2>3 DEF Arms, Moves, Moving
  <2>5. want[s] \in Contents
    BY <2>1 DEF IInv, Types
  <2>6. cmd'[s] = [cmd[s] EXCEPT !.at = "done", !.sum = want[s]] /\ \A r \in Slots \ {s} : cmd'[r] = NoCommand
    BY <2>1, <2>3 DEF IInv, Types
  <2>7. cmd'[s].at = "done" /\ cmd'[s].op = "move" /\ cmd'[s] \in WholeCommand
    <3>1. cmd[s] \in WholeCommand /\ cmd[s].op = "move" /\ want[s] \in Contents \cup {Part}
      BY <2>1, <2>5
    <3>2. cmd'[s] = [cmd[s] EXCEPT !.at = "done", !.sum = want[s]]
      BY <2>6
    <3>. QED  BY <3>1, <3>2 DEF WholeCommand
  <2>8. cmd'[s] # NoCommand
    BY <2>7, NoCommandIsNone
  <2>9. \A u \in Callers : ~ Moves(u)'
    BY <2>2, <2>3, <2>7, <2>8 DEF Moves, Moving, Holding
  <2>10. \A r \in Slots : ~ Replacing(r)'
    BY <2>6, <2>7 DEF Replacing
  <2>. QED  BY <2>4, <2>9, <2>10 DEF Arms
<1>2. CASE Rename(s)
  <2>1. /\ cmd[s] # NoCommand /\ cmd[s].op = "put" /\ cmd[s].at = "tmp" /\ file' = cmd[s].data
        /\ cmd' = [cmd EXCEPT ![s] = Done(s, [cmd[s] EXCEPT !.at = "done", !.sum = cmd[s].data])]
        /\ UNCHANGED Rests
    BY <1>2, RenameDoes
  <2>2. UNCHANGED <<pc, got, want>>
    BY <2>1 DEF Rests, caller
  <2>3. cmd[s] \in WholeCommand /\ kind = "agent"
    BY <2>1, RequestsAreOf
  <2>4. Replacing(s)
    BY <2>1 DEF Replacing
  <2>5. Arms(cmd[s].expect, file')
    BY <2>1, <2>4 DEF Arms
  <2>6. /\ cmd'[s] = Done(s, [cmd[s] EXCEPT !.at = "done", !.sum = cmd[s].data])
        /\ \A r \in Slots \ {s} : cmd'[r] = cmd[r]
    BY <2>1 DEF IInv, Types
  <2>7. cmd'[s] = NoCommand \/ cmd'[s].at = "done"
    BY <2>3, <2>6 DEF Done, WholeCommand
  <2>8. \A u \in Callers : ~ Moves(u)'
    BY <2>2, <2>3 DEF IInv, Commands, Step, Moves, Moving
  <2>9. ASSUME NEW r \in Slots PROVE ~ Replacing(r)'
    <3>1. CASE r = s
      BY <2>7, <3>1 DEF Replacing
    <3>2. CASE r # s
      <4>1. ~ Replacing(r)
        BY <2>4, <3>2 DEF IInv, Commands
      <4>. QED  BY <2>6, <3>2, <4>1 DEF Replacing
    <3>. QED  BY <3>1, <3>2
  <2>. QED  BY <2>5, <2>8, <2>9 DEF Arms
<1>. QED  BY <1>1, <1>2

-----------------------------------------------------------------------------
(* Every step maps to a step of GuardedFile or to a stutter. *)
LEMMA StepMaps == Sound /\ Sound' /\ [Next]_vars => [Guarded!Next]_<<file, Asks, loose # {}>>
<1> SUFFICES ASSUME Sound, Sound', [Next]_vars PROVE Guarded!Next
  OBVIOUS
<1> SUFFICES ASSUME loose' = {} PROVE Guarded!Next
  BY DEF Guarded!Next
<1>0. IInv /\ IInv' /\ loose = {}
  BY LooseStays DEF Sound
<1> SUFFICES Guarded!Ask \/ Guarded!Replace \/ Guarded!HandEdit
  BY <1>0 DEF Guarded!Next
<1> USE <1>0
<1>1. Asks' \subseteq [expect : Contents, data : Contents, armed : BOOLEAN]
  <2>1. (IInv => Asks \subseteq [expect : Contents, data : Contents, armed : BOOLEAN])'
    BY AsksAreRequests, PTL
  <2>. QED  BY <2>1
<1>2. \A a \in Asks' : a.armed => Arms(a.expect, a.data)'
  <2>1. (IInv => \A a \in Asks : a.armed => Arms(a.expect, a.data))'
    BY ArmedAsks, PTL
  <2>. QED  BY <2>1
<1>3. ASSUME file' = file, \A e, d : Arms(e, d)' => Arms(e, d) \/ e = file
      PROVE  Guarded!Ask
  <2>1. ASSUME NEW a \in Asks', a.armed
        PROVE  a \in Asks \/ a.expect = file
    <3>1. Arms(a.expect, a.data) \/ a.expect = file
      BY <1>2, <1>3, <2>1
    <3>2. a = Armed1(a.expect, a.data)
      BY <1>1, <2>1 DEF Armed1
    <3>. QED  BY <3>1, <3>2, ArmsAreAsks
  <2>. QED  BY <1>1, <1>3, <2>1 DEF Guarded!Ask, Guarded!Request
<1>4. CASE \E t \in Callers : Begin(t) \/ Caller(t)
  <2>1. file' = file
    BY <1>4, CallersArm
  <2>2. \A e, d : Arms(e, d)' => Arms(e, d) \/ e = file
    BY <1>4, CallersAsk
  <2>. QED  BY <1>3, <2>1, <2>2
<1>5. CASE \E s \in Slots : Open(s) \/ Fill(s) \/ Compare(s)
  <2>1. file' = file
    BY <1>5, OpenDoes, FillDoes, CompareDoes
  <2>2. \A e, d : Arms(e, d)' => Arms(e, d) \/ e = file
    BY <1>5, TargetAsks
  <2>. QED  BY <1>3, <2>1, <2>2
<1>6. CASE Save \/ Sweep \/ Pooling \/ Restart \/ GoSilent \/ Speak \/ Rest \/ UNCHANGED vars
  <2>1. Save \/ Sweep \/ Pooling \/ Restart \/ GoSilent \/ Speak \/ UNCHANGED vars
    BY <1>6 DEF Rest
  <2>2. file' = file
    BY <2>1, Zenon DEF Save, Sweep, Pooling, Remove, Close, Restart, GoSilent, Speak, remote, vars
  <2>3. \A e, d : Arms(e, d)' => Arms(e, d) \/ e = file
    BY <2>1, OthersAsk
  <2>. QED  BY <1>3, <2>2, <2>3
<1>7. CASE \E s \in Slots : Move(s) \/ Rename(s)
  <2>1. PICK e : Arms(e, file') /\ \A f, d : ~ Arms(f, d)'
    BY <1>7, ReplacementsAreAsked
  <2>2. Armed1(e, file') \in Asks
    BY <2>1, ArmsAreAsks
  <2>3. Armed1(e, file').armed /\ Armed1(e, file').data = file'
    BY DEF Armed1
  <2>4. \A a \in Asks' : ~ a.armed
    BY <1>2, <2>1
  <2>. QED  BY <1>1, <2>2, <2>3, <2>4 DEF Guarded!Replace, Guarded!Request
<1>8. CASE HandEdit
  <2>1. file' \in Contents /\ UNCHANGED <<cmd, pc, got, want>>
    BY <1>8 DEF HandEdit, caller
  <2>2. Asks' = Asks
    BY <2>1 DEF Asks, Ask, At
  <2>. QED  BY <2>1, <2>2 DEF Guarded!HandEdit
<1>. QED  BY <1>4, <1>5, <1>6, <1>7, <1>8 DEF Next, Target

(* "The write is refused when the remote file no longer matches it": the   *)
(* file is replaced as a whole, by one request at a time, and only over    *)
(* the content that request expects, whatever times out, restarts, is      *)
(* swept from the pool or tested meanwhile; over SSH until a command has   *)
(* outlived its call or calls have run over two transports.                *)
THEOREM WritesAreGuarded == Spec => ReplacesWhatWasSeen
<1>1. Init => Guarded!Init
  <2> SUFFICES ASSUME Init PROVE Guarded!Init
    OBVIOUS
  <2>1. cmd = [s \in Slots |-> NoCommand] /\ pc = [t \in Callers |-> "idle"] /\ file \in Contents
        /\ loose = {}
    BY Distinct DEF Init
  <2>2. Asks = {}
    BY <2>1 DEF Asks, At
  <2>. QED  BY <2>1, <2>2 DEF Guarded!Init
<1>. QED  BY <1>1, Invariance, StepMaps, PTL DEF Spec, ReplacesWhatWasSeen, Guarded!Spec

=============================================================================
