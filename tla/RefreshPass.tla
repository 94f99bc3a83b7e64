----------------------------- MODULE RefreshPass -----------------------------
(***************************************************************************)
(* Reading the whole fleet into the cache (Refresher.All in                *)
(* fleet/refresh.go) while the servers it reads are edited, re-keyed and   *)
(* deleted (Inventory) and while a change is written to one of them.  The  *)
(* timer and the refresh button call; a call joins the pass under way or   *)
(* leads one of its own, on its own context.  A pass lists the servers     *)
(* once and reads each in a goroutine, behind a slot and the mutex of the  *)
(* server.                                                                 *)
(*                                                                         *)
(* A records file is the number of changes made to it.                     *)
(***************************************************************************)
EXTENDS Inventory

CONSTANTS
  Callers,   \* the timer and the requests that refresh
  Timer,     \* the one that never goes away
  Slots,     \* fleet_max_concurrent
  MaxPasses  \* bound: passes

ASSUME RefreshPassAssumption ==
  /\ Timer \in Callers
  /\ Slots \in Nat \ {0}
  /\ MaxPasses \in Nat
  /\ \A b \in Budgets : b.calls <= MaxPasses

Passes == 1..MaxPasses
NoPass == 0

VARIABLES
  file,     \* the records file of each host
  current,  \* Refresher.pass
  pass,     \* every pass: where its leader is, the rows it listed, its readers
  call,     \* the callers
  writer    \* a change on its way to one server

vars == <<inventory, file, current, pass, call, writer>>

(* A reader is queued, has a slot, holds the mutex, has read a file, and   *)
(* is done one way or the other.                                           *)
Reader == [at : {"unlisted", "queued", "slot", "held", "read", "ok", "failed"},
           host : Host \cup {None}, no : Nat]
NoReader == [at |-> "unlisted", host |-> None, no |-> 0]

NewPass(c) == [at |-> "list", leader |-> c, since |-> file,
               list |-> [s \in Server |-> None], reader |-> [s \in Server |-> NoReader]]
NotStarted == [at |-> "none", leader |-> None, since |-> [h \in Host |-> 0],
               list |-> [s \in Server |-> None], reader |-> [s \in Server |-> NoReader]]

(* "since" is history: the files when the pass under way at the time of    *)
(* the call began, or at the call when there is none.                      *)
NoCall == [at |-> "idle", pass |-> NoPass, gone |-> FALSE, since |-> [h \in Host |-> 0]]
NoWriter == [at |-> "idle", id |-> None, row |-> None]

Init ==
  /\ InventoryInit
  /\ file = [h \in Host |-> 0]
  /\ current = NoPass
  /\ pass = [p \in Passes |-> NotStarted]
  /\ call = [c \in Callers |-> NoCall]
  /\ writer = NoWriter

InventoryRest == <<rows, issued, keys, staging, made, installed, op, shown, told, raced, abandoned>>

-----------------------------------------------------------------------------
(* Calls. *)

UnderWay == {p \in Passes : pass[p].at \in {"list", "read", "done", "ended"}}
Since == IF UnderWay = {} THEN file
         ELSE LET p == CHOOSE p \in UnderWay : \A q \in UnderWay : p <= q IN pass[p].since

(* startPass: joins the pass in progress or becomes it. *)
Joins == current # NoPass
NextPass == CHOOSE p \in Passes : pass[p].at = "none" /\ \A q \in Passes : q < p => pass[q].at # "none"

All(c) ==
  /\ call[c].at = "idle"
  /\ Spend("calls")
  /\ IF Joins
       THEN /\ call' = [call EXCEPT ![c] = [NoCall EXCEPT !.at = "join", !.pass = current, !.since = Since]]
            /\ UNCHANGED <<current, pass>>
       ELSE /\ current' = NextPass
            /\ pass' = [pass EXCEPT ![NextPass] = NewPass(c)]
            /\ call' = [call EXCEPT ![c] = [NoCall EXCEPT !.at = "lead", !.pass = NextPass, !.since = Since]]
  /\ UNCHANGED <<InventoryRest, pool, cache, file, writer>>

Collect(c) ==
  /\ call[c].at \in {"lead", "join"}
  /\ pass[call[c].pass].at = "closed"
  /\ call' = [call EXCEPT ![c] = NoCall]
  /\ UNCHANGED <<InventoryRest, pool, cache, budget, file, current, pass, writer>>

(* A follower that goes away is gone; a leader goes on, on a context that  *)
(* refuses every further statement and command.                            *)
GoAway(c) ==
  /\ c # Timer /\ call[c].at \in {"lead", "join"} /\ ~call[c].gone
  /\ Spend("faults")
  /\ call' = [call EXCEPT ![c] = IF @.at = "join" THEN NoCall ELSE [@ EXCEPT !.gone = TRUE]]
  /\ UNCHANGED <<InventoryRest, pool, cache, file, current, pass, writer>>

-----------------------------------------------------------------------------
(* The leader. *)

Gone(p) == LET c == pass[p].leader IN call[c].pass = p /\ call[c].gone

Lead(p, from, to) == pass[p].at = from /\ pass' = [pass EXCEPT ![p].at = to]

(* ListEnabled: the rows are those of now, whatever is done to them later. *)
Enabled == {s \in Server : Exists(s) /\ rows[s].enabled}

(* Mutant: a leader that cannot list returns before it ends its pass. *)
ListOrReturn(p) ==
  /\ pass[p].at = "list"
  /\ ~Gone(p)
  /\ pass' = [pass EXCEPT ![p].at = "read",
               ![p].list = [s \in Server |-> IF s \in Enabled THEN rows[s] ELSE None],
               ![p].reader = [s \in Server |-> IF s \in Enabled THEN [NoReader EXCEPT !.at = "queued"]
                                                                ELSE NoReader]]
  /\ UNCHANGED <<InventoryRest, pool, cache, budget, file, current, call, writer>>

List(p) ==
  /\ pass[p].at = "list"
  /\ pass' =
       IF Gone(p) THEN [pass EXCEPT ![p].at = "done"]
       ELSE [pass EXCEPT ![p].at = "read",
               ![p].list = [s \in Server |-> IF s \in Enabled THEN rows[s] ELSE None],
               ![p].reader = [s \in Server |-> IF s \in Enabled THEN [NoReader EXCEPT !.at = "queued"]
                                                                ELSE NoReader]]
  /\ UNCHANGED <<InventoryRest, pool, cache, budget, file, current, call, writer>>

(* wait.Wait and the assignment of the results. *)
Reading == {"queued", "slot", "held", "read"}
AllRead(p) == \A s \in Server : pass[p].reader[s].at \notin Reading

Finish(p) ==
  /\ AllRead(p)
  /\ Lead(p, "read", "done")
  /\ UNCHANGED <<InventoryRest, pool, cache, budget, file, current, call, writer>>

(* Mutant: the pass that is over stays the one to join. *)
EndAndKeep(p) ==
  /\ Lead(p, "done", "ended")
  /\ UNCHANGED <<InventoryRest, pool, cache, budget, file, current, call, writer>>

EndPass(p) ==
  /\ Lead(p, "done", "ended")
  /\ current' = NoPass
  /\ UNCHANGED <<InventoryRest, pool, cache, budget, file, call, writer>>

Close(p) ==
  /\ Lead(p, "ended", "closed")
  /\ UNCHANGED <<InventoryRest, pool, cache, budget, file, current, call, writer>>

-----------------------------------------------------------------------------
(* Its readers. *)

WithReader(p, s, r) == pass' = [pass EXCEPT ![p].reader[s] = r]
Moves(p, s, to) == pass' = [pass EXCEPT ![p].reader[s].at = to]

Locked(s) ==
  \/ \E p \in Passes : pass[p].reader[s].at \in {"held", "read"}
  \/ writer.id = s /\ writer.at \in {"write", "refill"}

InSlots(p) == {s \in Server : pass[p].reader[s].at \in {"slot", "held", "read"}}

TakeSlot(p, s) ==
  /\ pass[p].reader[s].at = "queued"
  /\ Cardinality(InSlots(p)) < Slots
  /\ Moves(p, s, "slot")
  /\ UNCHANGED <<InventoryRest, pool, cache, budget, file, current, call, writer>>

Lock(p, s) ==
  /\ pass[p].reader[s].at = "slot"
  /\ ~Locked(s)
  /\ Moves(p, s, "held")
  /\ UNCHANGED <<InventoryRest, pool, cache, budget, file, current, call, writer>>

(* refresh: the server is reached as the listed row names it.  A failure   *)
(* marks it unreachable and leaves the cached records.                     *)
ReadRecords(p, s) ==
  LET r == pass[p].list[s] IN
  /\ pass[p].reader[s].at = "held"
  /\ \/ /\ CanReach(s, r) /\ ~Gone(p)
        /\ pool' = Connected(s, r)
        /\ WithReader(p, s, [at |-> "read", host |-> r.host, no |-> file[r.host]])
        /\ UNCHANGED budget
     \/ /\ ~CanReach(s, r) \/ Gone(p)
        /\ pool' = IF Trusted(r) THEN Closed(s, r) ELSE pool
        /\ Moves(p, s, "failed")
        /\ UNCHANGED budget
     \/ (* the host does not answer *)
        /\ CanReach(s, r) /\ Spend("faults")
        /\ pool' = Closed(s, r)
        /\ Moves(p, s, "failed")
  /\ UNCHANGED <<InventoryRest, cache, file, current, call, writer>>

(* Replace and SetFetched: both rows refer to the row of the server. *)
Store(p, s) ==
  LET r == pass[p].reader[s] IN
  /\ r.at = "read"
  /\ IF Exists(s) /\ ~Gone(p)
       THEN /\ cache' = [cache EXCEPT ![s] = [host |-> r.host, no |-> r.no]]
            /\ Moves(p, s, "ok")
       ELSE /\ Moves(p, s, "failed")
            /\ UNCHANGED cache
  /\ UNCHANGED <<InventoryRest, pool, budget, file, current, call, writer>>

-----------------------------------------------------------------------------
(* A change on its way to a server: it is resolved before it waits for the *)
(* mutex, written to the host that row names, and the cache is refilled    *)
(* from the row as it is then.                                             *)

Resolve(s) ==
  /\ writer.at = "idle"
  /\ s \in Enabled /\ Trusted(rows[s])
  /\ Spend("writes")
  /\ writer' = [at |-> "lock", id |-> s, row |-> rows[s]]
  /\ UNCHANGED <<InventoryRest, pool, cache, file, current, pass, call>>

LockWriter ==
  /\ writer.at = "lock"
  /\ ~Locked(writer.id)
  /\ writer' = [writer EXCEPT !.at = "write"]
  /\ UNCHANGED <<InventoryRest, pool, cache, budget, file, current, pass, call>>

Write ==
  LET s == writer.id
      r == writer.row IN
  /\ writer.at = "write"
  /\ IF CanReach(s, r)
       THEN /\ file' = [file EXCEPT ![r.host] = @ + 1]
            /\ pool' = Connected(s, r)
            /\ writer' = [writer EXCEPT !.at = "refill"]
       ELSE /\ pool' = Closed(s, r)
            /\ writer' = NoWriter
            /\ UNCHANGED file
  /\ UNCHANGED <<InventoryRest, cache, budget, current, pass, call>>

Refill ==
  LET s == writer.id
      r == rows[s] IN
  /\ writer.at = "refill"
  /\ IF Exists(s) /\ CanReach(s, r)
       THEN /\ cache' = [cache EXCEPT ![s] = [host |-> r.host, no |-> file[r.host]]]
            /\ pool' = Connected(s, r)
       ELSE /\ pool' = IF Exists(s) /\ Trusted(r) THEN Closed(s, r) ELSE pool
            /\ UNCHANGED cache
  /\ writer' = NoWriter
  /\ UNCHANGED <<InventoryRest, budget, file, current, pass, call>>

-----------------------------------------------------------------------------
PassStep ==
  \/ \E p \in Passes : List(p) \/ Finish(p) \/ EndPass(p) \/ Close(p)
  \/ \E p \in Passes, s \in Server : TakeSlot(p, s) \/ Lock(p, s) \/ ReadRecords(p, s) \/ Store(p, s)
  \/ LockWriter \/ Write \/ Refill
  \/ \E c \in Callers : Collect(c)

Next ==
  \/ PassStep
  \/ \E c \in Callers : All(c) \/ GoAway(c)
  \/ \E s \in Server : Resolve(s)
  \/ InventoryNext /\ UNCHANGED <<file, current, pass, call, writer>>

Spec == Init /\ [][Next]_vars /\ WF_vars(PassStep)

-----------------------------------------------------------------------------
(* All, startPass, endPass: an answer names an outcome for every server    *)
(* the pass listed, and what it says of a server is no older than the pass *)
(* that was under way when the call was made, or than the call itself when *)
(* there was none.  A call never takes over the answer of a pass that is   *)
(* over.                                                                   *)
Answered(c) == call[c].at # "idle" /\ call'[c].at = "idle" /\ pass[call[c].pass].at = "closed"

AnswersAreWholeAndRecent ==
  [][\A c \in Callers : Answered(c) =>
       \A s \in Server :
         LET r == pass[call[c].pass].reader[s] IN
         /\ r.at \notin Reading
         /\ r.at = "ok" => r.no >= call[c].since[r.host]]_vars

(* All: no caller waits for a pass that never ends, whichever server does  *)
(* not answer and whoever goes away, the leader included.                  *)
EveryCallReturns == \A c \in Callers : (call[c].at # "idle") ~> (call[c].at = "idle")
=============================================================================
