------------------------------- MODULE SiemQueue -------------------------------
(***************************************************************************)
(* The audit trail on its way to the collector: the one goroutine that     *)
(* reads the rows it owes out of the database and writes them to a stream  *)
(* connection, the cursor that remembers how far it got, the operator who  *)
(* names a collector and turns the mirror on and off, and collectors that  *)
(* stop, with or without closing the connection.                           *)
(*                                                                         *)
(* A row is its identifier; all the queue asks of it is whether its action *)
(* is forwarded with the mirror off.                                       *)
(***************************************************************************)
EXTENDS Integers, Sequences, FiniteSets

CONSTANTS
  Collectors,
  Off,          \* no collector is named
  NoConn,       \* no connection is open
  Unplaced,     \* no cursor has been stored
  BatchSize,    \* rows a round reads
  MaxRows,      \* bound: the trail
  MaxChanges,   \* bound: settings the operator saves
  MaxFaults     \* bound: crashes, failed statements, vanished collectors

ASSUME SiemQueueAssumption ==
  /\ Off \notin Collectors
  /\ BatchSize \in Nat \ {0}
  /\ MaxRows \in Nat \ {0}   \* the trail may hold a row at first
  /\ MaxChanges \in Nat /\ MaxFaults \in Nat
  /\ Unplaced \notin Nat

Kinds == {"plain", "config"}
Ids == 1..MaxRows

VARIABLES
  trail,      \* the actions of audit_logs, by identifier
  cursor,     \* siem_cursor
  named,      \* the collector of the settings
  enabled,    \* the mirror switch
  unwritten,  \* a saved setting whose audit row is not written yet
  up,         \* the collectors that take connections
  conn,       \* the connection of the sender
  pc,         \* where the queue goroutine is
  base,       \* the cursor its round started from
  at,         \* the last row it is done with
  to,         \* the last row of its batch
  forwarding, \* the switch as this round read it
  changes,    \* settings saved so far
  faults,     \* crashes, failed statements and vanished collectors so far
  placed,     \* history: where the cursor was first placed
  got,        \* history: what each collector has received
  again,      \* history: rows handed to a connection a second time
  skipped,    \* history: rows passed over with the mirror off
  dropped     \* history: rows written to a connection that looked good and was not

settings == <<named, enabled, unwritten, changes>>
round    == <<base, at, to, forwarding>>
network  == <<up, conn>>
history  == <<placed, got, again, skipped, dropped>>
vars     == <<trail, cursor, settings, network, pc, round, faults, history>>

Rows == 1..Len(trail)

(* A connection that is open, one its collector has closed, one it closed  *)
(* after the sender last looked, and one whose collector is gone without a *)
(* word.                                                                   *)
Conn == [peer : Collectors, how : {"open", "closed", "late", "lost"}]
Open(c) == [peer |-> c, how |-> "open"]

Point == {"down", "drain", "start", "place", "fetch", "sample", "probe", "write",
          "store", "wait"}

TypeOK ==
  /\ trail \in Seq(Kinds) /\ Len(trail) <= MaxRows
  /\ cursor \in (0..MaxRows) \cup {Unplaced}
  /\ named \in Collectors \cup {Off}
  /\ enabled \in BOOLEAN /\ unwritten \in BOOLEAN
  /\ up \subseteq Collectors
  /\ conn \in Conn \cup {NoConn}
  /\ pc \in Point
  /\ base \in 0..MaxRows /\ at \in 0..MaxRows /\ to \in 0..MaxRows
  /\ forwarding \in BOOLEAN
  /\ changes \in 0..MaxChanges
  /\ faults \in 0..MaxFaults
  /\ placed \in (0..MaxRows) \cup {Unplaced}
  /\ got \in [Collectors -> SUBSET Ids]
  /\ again \subseteq Ids /\ skipped \subseteq Ids /\ dropped \subseteq Ids

Init ==
  /\ trail \in {<<>>, <<"plain">>}
  /\ cursor = Unplaced
  /\ named = Off /\ enabled = TRUE /\ unwritten = FALSE
  /\ up = Collectors /\ conn = NoConn
  /\ pc = "down"
  /\ base = 0 /\ at = 0 /\ to = 0 /\ forwarding = FALSE
  /\ changes = 0 /\ faults = 0
  /\ placed = Unplaced
  /\ got = [c \in Collectors |-> {}]
  /\ again = {} /\ skipped = {} /\ dropped = {}

-----------------------------------------------------------------------------
Goto(p) == pc' = p
Configured == named # Off
Full == to - base = BatchSize
Received == UNION {got[c] : c \in Collectors}
Least(a, b) == IF a < b THEN a ELSE b

Disturb ==
  /\ faults < MaxFaults
  /\ faults' = faults + 1

-----------------------------------------------------------------------------
(* The panel writes its trail, and an operator changes where it goes. *)

(* Logger.write *)
WriteRow ==
  /\ pc # "down"
  /\ Len(trail) < MaxRows
  /\ trail' = Append(trail, "plain")
  /\ UNCHANGED <<cursor, settings, network, pc, round, faults, history>>

(* handleSIEMReceiver, handleSIEMForwarding: the setting is saved first    *)
(* and its row is written after it.                                        *)
SaveSettings ==
  /\ pc # "down"
  /\ ~ unwritten
  /\ changes < MaxChanges
  /\ \/ \E c \in Collectors \cup {Off} : named' = c /\ UNCHANGED enabled
     \/ enabled' = ~ enabled /\ UNCHANGED named
  /\ unwritten' = TRUE
  /\ changes' = changes + 1
  /\ UNCHANGED <<trail, cursor, network, pc, round, faults, history>>

(* auditSIEM *)
WriteSettingsRow ==
  /\ pc # "down"
  /\ unwritten
  /\ Len(trail) < MaxRows
  /\ trail' = Append(trail, "config")
  /\ unwritten' = FALSE
  /\ UNCHANGED <<cursor, named, enabled, changes, network, pc, round, faults, history>>

-----------------------------------------------------------------------------
(* The queue goroutine. *)

Boot ==
  /\ pc = "down"
  /\ Goto("drain")
  /\ UNCHANGED <<trail, cursor, settings, network, round, faults, history>>

(* The ticker, or a wake-up. *)
Wake ==
  /\ pc = "wait"
  /\ Goto("drain")
  /\ UNCHANGED <<trail, cursor, settings, network, round, faults, history>>

Drain ==
  /\ pc = "drain"
  /\ Goto(IF Configured THEN "start" ELSE "wait")
  /\ UNCHANGED <<trail, cursor, settings, network, round, faults, history>>

(* A statement of the round fails, and the round is given up. *)
GiveUp ==
  /\ pc \in {"start", "place", "fetch", "store"}
  /\ Disturb
  /\ Goto("wait")
  /\ UNCHANGED <<trail, cursor, settings, network, round, history>>

(* start: a cursor that has been placed, or the newest row there is. *)
Start ==
  /\ pc = "start"
  /\ at' = IF cursor = Unplaced THEN Len(trail) ELSE cursor
  /\ base' = at'
  /\ Goto(IF cursor = Unplaced THEN "place" ELSE "fetch")
  /\ UNCHANGED <<trail, cursor, settings, network, to, forwarding, faults, history>>

(* SIMECursor.Write never moves backwards. *)
Store == cursor' = IF cursor # Unplaced /\ cursor > at THEN cursor ELSE at

Place ==
  /\ pc = "place"
  /\ Store
  /\ placed' = at
  /\ Goto("fetch")
  /\ UNCHANGED <<trail, settings, network, round, faults, got, again, skipped,
                 dropped>>

(* rows.After *)
Fetch ==
  /\ pc = "fetch"
  /\ to' = Least(at + BatchSize, Len(trail))
  /\ Goto(IF to' = at THEN "wait" ELSE "sample")
  /\ UNCHANGED <<trail, cursor, settings, network, base, at, forwarding, faults,
                 history>>

(* enabled() *)
Sample ==
  /\ pc = "sample"
  /\ forwarding' = enabled
  /\ Goto("probe")
  /\ UNCHANGED <<trail, cursor, settings, network, base, at, to, faults, history>>

(* Mutant: a row that turns the mirror off is passed over like any other. *)
OwedIfForwarding(i) == forwarding

(* alwaysForwarded *)
Owed(i) == forwarding \/ trail[i] = "config"

PassOver ==
  /\ pc = "probe"
  /\ ~ Owed(at + 1)
  /\ at' = at + 1
  /\ skipped' = skipped \cup {at + 1}
  /\ Goto(IF at + 1 = to THEN "store" ELSE "probe")
  /\ UNCHANGED <<trail, cursor, settings, network, base, to, forwarding, faults,
                 placed, got, again, dropped>>

(* peerHasGone: a collector that closed the connection is noticed before   *)
(* the row is written.                                                     *)
Probe ==
  /\ pc = "probe"
  /\ Owed(at + 1)
  /\ conn' = IF conn # NoConn /\ conn.how = "closed" THEN NoConn ELSE conn
  /\ Goto("write")
  /\ UNCHANGED <<trail, cursor, settings, up, round, faults, history>>

(* The row went into a connection. *)
Sent ==
  /\ at' = at + 1
  /\ again' = IF at + 1 \in Received \cup dropped THEN again \cup {at + 1} ELSE again
  /\ Goto(IF at + 1 = to THEN "store" ELSE "probe")

Deliver(c) ==
  /\ conn' = Open(c)
  /\ got' = [got EXCEPT ![c] = @ \cup {at + 1}]
  /\ Sent
  /\ UNCHANGED dropped

(* Mutant: a failure passes over its row. *)
FailAndGoOn ==
  /\ at' = at + 1
  /\ Goto(IF at + 1 = to THEN "store" ELSE "probe")

(* A round that fails at a row stops before it. *)
Fail == Goto("store") /\ UNCHANGED at

(* A fresh connection goes to the collector named now. *)
Redial ==
  \/ named \in up /\ Deliver(named)
  \/ named \notin up /\ conn' = NoConn /\ Fail /\ UNCHANGED <<got, again, dropped>>

(* Sender.Send: the connection at hand first, and once more on a fresh one *)
(* if the write fails.                                                     *)
Write ==
  /\ pc = "write"
  /\ \/ ~ Configured /\ Fail /\ UNCHANGED <<conn, got, again, dropped>>
     \/ Configured /\ conn = NoConn /\ Redial
     \/ /\ Configured /\ conn # NoConn
        /\ \/ conn.how = "open" /\ Deliver(conn.peer)
           \/ conn.how # "open" /\ Redial
           \/ /\ conn.how # "open"
              /\ dropped' = IF conn.how = "closed" THEN dropped ELSE dropped \cup {at + 1}
              /\ conn' = IF conn.how = "late" THEN [conn EXCEPT !.how = "closed"]
                                              ELSE conn
              /\ Sent
              /\ UNCHANGED got
  /\ UNCHANGED <<trail, cursor, settings, up, base, to, forwarding, faults, placed,
                 skipped>>

(* Mutant: a batch is stored only when it was full.                        *)
StoreFullBatch ==
  /\ pc = "store"
  /\ IF at > base /\ Full THEN Store ELSE UNCHANGED cursor
  /\ Goto(IF Full /\ at > base THEN "start" ELSE "wait")
  /\ UNCHANGED <<trail, settings, network, round, faults, history>>

(* The cursor follows what moved; a full batch has more behind it. *)
StoreCursor ==
  /\ pc = "store"
  /\ IF at > base THEN Store ELSE UNCHANGED cursor
  /\ Goto(IF Full /\ at > base THEN "start" ELSE "wait")
  /\ UNCHANGED <<trail, settings, network, round, faults, history>>

-----------------------------------------------------------------------------
(* What the panel does not choose. *)

(* A collector stops and closes its connection. *)
Close(c) ==
  /\ c \in up
  /\ up' = up \ {c}
  /\ conn' = IF conn = Open(c)
               THEN [conn EXCEPT !.how = IF pc = "write" THEN "late" ELSE "closed"]
               ELSE conn
  /\ UNCHANGED <<trail, cursor, settings, pc, round, faults, history>>

(* It vanishes: the connection looks as good as ever. *)
Vanish(c) ==
  /\ c \in up
  /\ Disturb
  /\ up' = up \ {c}
  /\ conn' = IF conn = Open(c) THEN [conn EXCEPT !.how = "lost"] ELSE conn
  /\ UNCHANGED <<trail, cursor, settings, pc, round, history>>

Return(c) ==
  /\ c \notin up
  /\ up' = up \cup {c}
  /\ UNCHANGED <<trail, cursor, settings, conn, pc, round, faults, history>>

(* The panel stops; the trail, the settings and the cursor stay. *)
Crash ==
  /\ pc # "down"
  /\ Disturb
  /\ Goto("down")
  /\ conn' = NoConn
  /\ base' = 0 /\ at' = 0 /\ to' = 0 /\ forwarding' = FALSE
  /\ unwritten' = FALSE
  /\ UNCHANGED <<trail, cursor, named, enabled, changes, up, history>>

-----------------------------------------------------------------------------
Panel == WriteRow \/ SaveSettings \/ WriteSettingsRow

Queue ==
  \/ Wake \/ Drain \/ GiveUp \/ Start \/ Place \/ Fetch \/ Sample
  \/ PassOver \/ Probe \/ Write \/ StoreCursor

Network == \E c \in Collectors : Close(c) \/ Vanish(c) \/ Return(c)

Next == Panel \/ Boot \/ Queue \/ Network \/ Crash

(* The goroutine runs for as long as the panel does, its ticker fires, and *)
(* a panel that stopped is started again.  A collector need not return.    *)
Spec == Init /\ [][Next]_vars /\ WF_vars(Boot) /\ WF_vars(Queue)

-----------------------------------------------------------------------------
(* Properties. *)

(* Drain: "Skipping it and carrying on would put a hole in the receiver's  *)
(* copy of the trail that nothing later fills": the cursor never passes a  *)
(* row owed to the collector unless the collector has it or left, unseen,  *)
(* while it was written (peerHasGone), and the mirror switch passes over   *)
(* no row that changes the forwarding.                                     *)
NoHoleBehindTheCursor ==
  cursor # Unplaced =>
    \A i \in Rows : placed < i /\ i <= cursor =>
      \/ i \in Received \cup dropped
      \/ i \in skipped /\ trail[i] # "config"

(* Drain, "oldest first", and start: a collector is given a row only after *)
(* everything before it since the cursor was placed, and nothing of what   *)
(* was in the trail by then.  Without a crash or a failed statement it is  *)
(* given no row twice, however often it refuses one of a batch.            *)
RowsArriveInOrder ==
  [][/\ \A c \in Collectors, i \in Rows :
          i \in got'[c] \ got[c] =>
            /\ i > placed
            /\ \A k \in placed + 1 .. i - 1 : k \in Received \cup dropped \cup skipped
     /\ faults' = 0 => again' = {}]_vars

(* Queue: "a receiver that is down costs nothing but a growing backlog":   *)
(* once the named collector stays reachable the whole trail is dealt with. *)
BacklogIsCleared ==
  (<>[](named \in up)) => \A i \in Ids : (i \in Rows) ~> (cursor # Unplaced /\ cursor >= i)

=============================================================================
