--------------------------- MODULE SiemQueue_proofs ---------------------------
(***************************************************************************)
(* Theorems about SiemQueue for every set of collectors, every size of a   *)
(* batch and every bound.                                                  *)
(*                                                                         *)
(* A round works on a stretch of the trail: behind it everything since the *)
(* cursor was placed has been dealt with, and, as long as nothing failed,  *)
(* nothing of what lies ahead of it has ever been handed to a collector.   *)
(***************************************************************************)
EXTENDS SiemQueue, TLAPS

-----------------------------------------------------------------------------
(* The inductive invariant. *)

InRound == pc \in {"fetch", "sample", "probe", "write", "store"}

(* How far the queue got: the row it is done with, or the cursor. *)
Reached == IF InRound THEN at ELSE cursor

(* A row the collector has, one that left unseen, or one the mirror switch *)
(* passed over.                                                            *)
Handed == Received \cup dropped
Settled(i) == i \in Handed \/ (i \in skipped /\ trail[i] # "config")

CursorInv ==
  /\ cursor = Unplaced <=> placed = Unplaced
  /\ cursor # Unplaced => placed <= cursor /\ cursor <= Len(trail)

(* Only the round itself moves the cursor it started from, and it writes   *)
(* no row into a connection it has seen closed.                            *)
RoundInv ==
  /\ pc = "place" => cursor = Unplaced /\ base = at /\ at <= Len(trail)
  /\ InRound => cursor # Unplaced /\ base = cursor /\ base <= at /\ at <= Len(trail)
  /\ pc \in {"fetch", "sample"} => at = base
  /\ pc \in {"sample", "probe", "write"} => at < to /\ to <= Len(trail)
  /\ pc = "write" /\ conn # NoConn => conn.how # "closed"

SettledInv == cursor # Unplaced => \A i \in placed + 1 .. Reached : Settled(i)

OnceInv ==
  faults = 0 => /\ again = {}
                /\ \A i \in Handed : cursor # Unplaced /\ i <= Reached

IInv == TypeOK /\ CursorInv /\ RoundInv /\ SettledInv /\ OnceInv

-----------------------------------------------------------------------------
LEMMA InitInv == Init => IInv
<1>. SUFFICES ASSUME Init PROVE IInv  OBVIOUS
<1>1. TypeOK
  <2>1. enabled \in BOOLEAN /\ unwritten \in BOOLEAN /\ forwarding \in BOOLEAN
    BY Zenon DEF Init
  <2>2. trail \in Seq(Kinds) /\ Len(trail) <= MaxRows
    <3>1. CASE trail = <<>>
      BY <3>1, SiemQueueAssumption
    <3>2. CASE trail = <<"plain">>
      <4>1. "plain" \in Kinds
        BY DEF Kinds
      <4>. QED  BY <3>2, <4>1, SiemQueueAssumption
    <3>. QED  BY <3>1, <3>2 DEF Init
  <2>. QED  BY <2>1, <2>2, SiemQueueAssumption DEF Init, TypeOK, Conn, Point
<1>2. Handed = {}
  BY DEF Init, Handed, Received
<1>. QED
  BY <1>1, <1>2
  DEF Init, IInv, CursorInv, RoundInv, SettledInv, OnceInv, InRound, Reached

-----------------------------------------------------------------------------
(* Every step keeps the types. *)
LEMMA TypeStep ==
  ASSUME IInv, Next
  PROVE  TypeOK'
<1>. USE SiemQueueAssumption DEF TypeOK, IInv, Point, Goto
<1>1. CASE WriteRow
  BY <1>1 DEF WriteRow, settings, network, round, history, Kinds
<1>2. CASE SaveSettings
  <2>1. enabled' \in BOOLEAN /\ unwritten' \in BOOLEAN
    BY <1>2, Zenon DEF SaveSettings
  <2>. QED  BY <1>2, <2>1 DEF SaveSettings, settings, network, round, history
<1>3. CASE WriteSettingsRow
  <2>1. unwritten' \in BOOLEAN
    BY <1>3, Zenon DEF WriteSettingsRow
  <2>. QED  BY <1>3, <2>1 DEF WriteSettingsRow, settings, network, round, history, Kinds
<1>4. CASE Boot
  BY <1>4 DEF Boot, settings, network, round, history
<1>5. CASE Wake
  BY <1>5 DEF Wake, settings, network, round, history
<1>6. CASE Drain
  BY <1>6 DEF Drain, settings, network, round, history
<1>7. CASE GiveUp
  BY <1>7 DEF GiveUp, settings, network, round, history, Disturb
<1>8. CASE Start
  BY <1>8 DEF Start, settings, network, round, history, CursorInv
<1>9. CASE Place
  BY <1>9 DEF Place, settings, network, round, history, Store, RoundInv
<1>10. CASE Fetch
  BY <1>10 DEF Fetch, settings, network, round, history, Least, Full, RoundInv, InRound
<1>11. CASE Sample
  BY <1>11 DEF Sample, settings, network, round, history
<1>12. CASE PassOver
  BY <1>12 DEF PassOver, settings, network, round, history, RoundInv, Ids
<1>13. CASE Probe
  BY <1>13 DEF Probe, settings, network, round, history, Conn
<1>14. CASE StoreCursor
  BY <1>14 DEF StoreCursor, settings, network, round, history, Store, Full
<1>15. CASE Crash
  <2>1. forwarding' \in BOOLEAN /\ unwritten' \in BOOLEAN
    BY <1>15, Zenon DEF Crash
  <2>. QED  BY <1>15, <2>1 DEF Crash, settings, network, round, history, Disturb
<1>16. CASE Write
  <2>1. at + 1 \in Ids /\ at + 1 <= MaxRows
    BY <1>16 DEF Write, RoundInv, Ids
  <2>2. conn' \in Conn \cup {NoConn} /\ got' \in [Collectors -> SUBSET Ids]
    BY <1>16, <2>1 DEF Write, Redial, Deliver, Sent, Fail, Open, Conn, Configured
  <2>3. /\ at' \in 0..MaxRows /\ again' \in SUBSET Ids /\ dropped' \in SUBSET Ids
        /\ pc' \in Point
    BY <1>16, <2>1 DEF Write, Redial, Deliver, Sent, Fail, Conn
  <2>. QED  BY <1>16, <2>2, <2>3 DEF Write, settings
<1>17. ASSUME NEW c \in Collectors, Close(c) \/ Vanish(c) \/ Return(c)
      PROVE  TypeOK'
  <2>1. conn' \in Conn \cup {NoConn}
    BY <1>17 DEF Close, Vanish, Return, Open, Conn
  <2>2. up' \in SUBSET Collectors /\ faults' \in 0..MaxFaults
    BY <1>17 DEF Close, Vanish, Return, Disturb
  <2>. QED  BY <1>17, <2>1, <2>2 DEF Close, Vanish, Return, settings, round, history
<1>. QED
  BY <1>1, <1>2, <1>3, <1>4, <1>5, <1>6, <1>7, <1>8, <1>9, <1>10, <1>11, <1>12, <1>13, <1>14, <1>15, <1>16, <1>17 DEF Next, Panel, Queue, Network

-----------------------------------------------------------------------------
(* The trail only grows. *)
LEMMA TrailGrows ==
  ASSUME TypeOK, Next
  PROVE  /\ Len(trail) <= Len(trail)'
         /\ \A i \in 1..Len(trail) : trail'[i] = trail[i]
<1>. USE DEF TypeOK
<1>1. CASE WriteRow \/ WriteSettingsRow
  BY <1>1 DEF WriteRow, WriteSettingsRow, Kinds
<1>2. CASE UNCHANGED trail
  BY <1>2
<1>. QED
  BY <1>1, <1>2
  DEF Next, Panel, Queue, Network, SaveSettings, Boot, Wake, Drain, GiveUp, Start, Place,
      Fetch, Sample, PassOver, Probe, Write, StoreCursor, Close, Vanish, Return, Crash

(* The cursor is moved by the round that read it, and never backwards. *)
LEMMA CursorStep ==
  ASSUME IInv, Next
  PROVE  CursorInv' /\ RoundInv'
<1>0. Len(trail) \in Nat /\ Len(trail') \in Nat /\ Len(trail) <= Len(trail')
  BY TypeStep, TrailGrows DEF IInv, TypeOK
<1>. USE <1>0, SiemQueueAssumption DEF IInv, TypeOK, CursorInv, RoundInv, InRound, Goto
<1>1. CASE WriteRow
  BY <1>1 DEF WriteRow, settings, network, round, history
<1>2. CASE SaveSettings
  BY <1>2 DEF SaveSettings, settings, network, round, history
<1>3. CASE WriteSettingsRow
  BY <1>3 DEF WriteSettingsRow, settings, network, round, history
<1>4. CASE Boot
  BY <1>4 DEF Boot, settings, network, round, history
<1>5. CASE Wake
  BY <1>5 DEF Wake, settings, network, round, history
<1>6. CASE Drain
  BY <1>6 DEF Drain, settings, network, round, history
<1>7. CASE GiveUp
  BY <1>7 DEF GiveUp, settings, network, round, history
<1>8. CASE Start
  BY <1>8 DEF Start, settings, network, round, history
<1>9. CASE Place
  BY <1>9 DEF Place, settings, network, round, history, Store
<1>10. CASE Fetch
  BY <1>10 DEF Fetch, settings, network, round, history, Least
<1>11. CASE Sample
  BY <1>11 DEF Sample, settings, network, round, history
<1>12. CASE PassOver
  BY <1>12 DEF PassOver, settings, network, round, history
<1>13. CASE Probe
  BY <1>13 DEF Probe, settings, network, round, history
<1>14. CASE StoreCursor
  BY <1>14 DEF StoreCursor, settings, network, round, history, Store, Full
<1>15. CASE Crash
  BY <1>15 DEF Crash, settings, network, round, history
<1>16. CASE Write
  <2>1. /\ pc = "write" /\ UNCHANGED <<trail, cursor, base, to, placed>>
        /\ \/ at' = at /\ pc' = "store"
           \/ at' = at + 1 /\ pc' = (IF at + 1 = to THEN "store" ELSE "probe")
    BY <1>16 DEF Write, Redial, Deliver, Sent, Fail
  <2>. QED  BY <2>1
<1>17. CASE Network
  <2>1. UNCHANGED <<trail, cursor, round, pc, placed>>
    BY <1>17 DEF Network, Close, Vanish, Return, history
  <2>2. pc = "write" => conn' = conn \/ conn'.how # "closed"
    BY <1>17 DEF Network, Close, Vanish, Return, Open
  <2>. QED  BY <2>1, <2>2 DEF round
<1>. QED
  BY <1>1, <1>2, <1>3, <1>4, <1>5, <1>6, <1>7, <1>8, <1>9, <1>10, <1>11, <1>12, <1>13, <1>14, <1>15, <1>16, <1>17 DEF Next, Panel, Queue

-----------------------------------------------------------------------------
(* A write hands out the next row, or leaves everything as it is. *)
LEMMA WriteHands ==
  ASSUME IInv, Write
  PROVE  \/ /\ UNCHANGED <<at, got, again, dropped>> /\ Handed' = Handed
            /\ pc' = "store"
         \/ /\ at' = at + 1 /\ Handed' = Handed \cup {at + 1}
            /\ \A c \in Collectors : got'[c] \subseteq got[c] \cup {at + 1}
            /\ again' = IF at + 1 \in Handed THEN again \cup {at + 1} ELSE again
            /\ pc' \in {"store", "probe"}
<1>. USE DEF IInv, TypeOK
<1>1. ASSUME NEW c \in Collectors, Deliver(c)
      PROVE  /\ at' = at + 1 /\ Handed' = Handed \cup {at + 1}
             /\ \A d \in Collectors : got'[d] \subseteq got[d] \cup {at + 1}
             /\ again' = IF at + 1 \in Handed THEN again \cup {at + 1} ELSE again
             /\ pc' \in {"store", "probe"}
  <2>1. got' = [got EXCEPT ![c] = got[c] \cup {at + 1}] /\ dropped' = dropped
    BY <1>1 DEF Deliver
  <2>2. Received' = Received \cup {at + 1}
    BY <2>1 DEF Received
  <2>. QED  BY <1>1, <2>1, <2>2 DEF Deliver, Sent, Handed, Goto
<1>2. ASSUME Fail, UNCHANGED <<got, again, dropped>>
      PROVE  UNCHANGED <<at, got, again, dropped>> /\ Handed' = Handed /\ pc' = "store"
  BY <1>2 DEF Fail, Goto, Handed, Received
<1>3. ASSUME Sent, UNCHANGED got, dropped' = dropped \/ dropped' = dropped \cup {at + 1},
             dropped' # dropped \cup {at + 1} => conn.how = "closed" /\ conn # NoConn, Write
      PROVE  /\ at' = at + 1 /\ Handed' = Handed \cup {at + 1}
             /\ \A d \in Collectors : got'[d] \subseteq got[d] \cup {at + 1}
             /\ again' = IF at + 1 \in Handed THEN again \cup {at + 1} ELSE again
             /\ pc' \in {"store", "probe"}
  BY <1>3 DEF Sent, Handed, Received, Goto, RoundInv, Write
<1>4. CASE Redial
  BY <1>1, <1>2, <1>4 DEF Redial, Write, Configured
<1>5. CASE ~ Redial
  BY <1>1, <1>2, <1>3, <1>5 DEF Write, Configured, Conn
<1>. QED
  BY <1>4, <1>5

(* Everything but a write leaves what was handed out as it is. *)
LEMMA OthersHandNothing ==
  ASSUME Next, ~ Write
  PROVE  UNCHANGED <<got, again, dropped>> /\ Handed' = Handed
<1>1. UNCHANGED <<got, again, dropped>>
  BY DEF Next, Panel, Queue, Network, WriteRow, SaveSettings, WriteSettingsRow, Boot,
         Wake, Drain, GiveUp, Start, Place, Fetch, Sample, PassOver, Probe, StoreCursor,
         Close, Vanish, Return, Crash, history
<1>. QED  BY <1>1 DEF Handed, Received

(* A row the mirror switch passes over is no setting, and what has been    *)
(* dealt with stays so.                                                    *)
LEMMA SettledStays ==
  ASSUME IInv, Next, NEW i \in 1..Len(trail), Settled(i)
  PROVE  Settled(i)'
<1>1. Handed \subseteq Handed'
  BY WriteHands, OthersHandNothing
<1>2. skipped \subseteq skipped'
  BY DEF Next, Panel, Queue, Network, WriteRow, SaveSettings, WriteSettingsRow, Boot,
         Wake, Drain, GiveUp, Start, Place, Fetch, Sample, PassOver, Probe, Write,
         StoreCursor, Close, Vanish, Return, Crash, history
<1>3. trail'[i] = trail[i]
  BY TrailGrows DEF IInv
<1>. QED  BY <1>1, <1>2, <1>3 DEF Settled

(* What a step moves: the one row it hands out or passes over, the start   *)
(* of a round, or nothing.                                                 *)
LEMMA ReachedStep ==
  ASSUME IInv, Next, cursor # Unplaced
  PROVE  /\ placed' = placed /\ cursor' # Unplaced
         /\ \/ Reached' = Reached
            \/ Reached' = cursor /\ faults' # 0
            \/ /\ pc \in {"probe", "write"} /\ Reached = at /\ Reached' = at + 1
               /\ \E i \in {at + 1} : Settled(i)'
<1>. USE SiemQueueAssumption
<1>0. CursorInv /\ RoundInv /\ TypeOK
  BY DEF IInv
<1>1. CASE Write
  <2>1. pc = "write" /\ UNCHANGED <<cursor, placed>>
    BY <1>1 DEF Write
  <2>. QED  BY <1>1, <2>1, WriteHands DEF Reached, InRound, Settled
<1>2. CASE PassOver
  <2>1. /\ pc = "probe" /\ UNCHANGED <<cursor, placed, trail>> /\ at' = at + 1
        /\ skipped' = skipped \cup {at + 1} /\ trail[at + 1] # "config"
        /\ pc' \in {"store", "probe"}
    BY <1>2 DEF PassOver, Owed, Goto
  <2>. QED  BY <2>1 DEF Reached, InRound, Settled
<1>3. CASE Start \/ Fetch \/ Place
  BY <1>0, <1>3 DEF Start, Fetch, Place, Goto, Reached, InRound, RoundInv, history
<1>4. CASE StoreCursor
  BY <1>0, <1>4 DEF StoreCursor, Store, Goto, Reached, InRound, RoundInv, round, history, TypeOK
<1>5. CASE GiveUp \/ Crash
  BY <1>0, <1>5 DEF GiveUp, Crash, Disturb, Goto, Reached, InRound, RoundInv, round, history, TypeOK
<1>6. CASE WriteRow \/ SaveSettings \/ WriteSettingsRow \/ Network
  BY <1>0, <1>6
  DEF WriteRow, SaveSettings, WriteSettingsRow, Network, Close, Vanish, Return, Reached,
      InRound, round, history
<1>7. CASE Boot \/ Wake \/ Drain \/ Sample \/ Probe
  BY <1>0, <1>7
  DEF Boot, Wake, Drain, Sample, Probe, Goto, Reached, InRound, RoundInv, round, history
<1>. QED
  BY <1>1, <1>2, <1>3, <1>4, <1>5, <1>6, <1>7 DEF Next, Panel, Queue

(* The cursor of a queue that had none is put at what it reached. *)
LEMMA PlacedStep ==
  ASSUME IInv, Next, cursor = Unplaced, cursor' # Unplaced
  PROVE  Place /\ placed' = at /\ Reached' = at
<1>. USE SiemQueueAssumption DEF IInv, RoundInv, InRound
<1>1. Place
  BY DEF Next, Panel, Queue, Network, WriteRow, SaveSettings, WriteSettingsRow, Boot,
         Wake, Drain, GiveUp, Start, Fetch, Sample, PassOver, Probe, Write,
         StoreCursor, Close, Vanish, Return, Crash
<1>. QED  BY <1>1 DEF Place, Goto, Reached, round

LEMMA SettledStep ==
  ASSUME IInv, Next
  PROVE  SettledInv'
<1>. SUFFICES ASSUME cursor' # Unplaced, NEW i \in (placed + 1 .. Reached)'
              PROVE  Settled(i)'
  BY DEF SettledInv
<1>0. /\ TypeOK /\ TypeOK' /\ CursorInv /\ RoundInv /\ SettledInv
      /\ CursorInv' /\ RoundInv'
  BY TypeStep, CursorStep DEF IInv
<1>1. CASE cursor = Unplaced
  BY <1>0, <1>1, PlacedStep DEF TypeOK
<1>2. CASE cursor # Unplaced
  <2>1. placed \in Nat /\ cursor \in Nat /\ Reached \in Nat /\ Reached <= Len(trail)
        /\ cursor <= Reached /\ placed' = placed /\ i \in Int /\ at \in Nat
    BY <1>0, <1>2, ReachedStep DEF TypeOK, CursorInv, RoundInv, Reached, InRound
  <2>2. CASE i <= Reached
    <3>1. i \in placed + 1 .. Reached /\ i \in 1..Len(trail)
      <4>1. Len(trail) \in Nat
        BY <1>0 DEF TypeOK
      <4>2. i >= placed + 1
        BY <2>1
      <4>. QED  BY <2>1, <2>2, <4>1, <4>2
    <3>2. Settled(i)
      BY <1>0, <1>2, <3>1 DEF SettledInv
    <3>. QED  BY <3>1, <3>2, SettledStays
  <2>3. CASE i > Reached
    <3>1. Reached = at /\ Reached' = at + 1 /\ \E k \in {at + 1} : Settled(k)'
      BY <1>2, <2>1, <2>3, ReachedStep
    <3>2. i = at + 1
      BY <2>1, <2>3, <3>1
    <3>. QED  BY <3>1, <3>2
  <2>. QED  BY <2>1, <2>2, <2>3
<1>. QED  BY <1>1, <1>2

LEMMA OnceStep ==
  ASSUME IInv, Next
  PROVE  OnceInv'
<1>. SUFFICES ASSUME faults' = 0
              PROVE  /\ again' = {}
                     /\ \A i \in Handed' : cursor' # Unplaced /\ i <= Reached'
  BY DEF OnceInv
<1>0. /\ TypeOK /\ TypeOK' /\ CursorInv /\ RoundInv /\ OnceInv
  BY TypeStep DEF IInv
<1>1. faults = 0
  <2>1. faults' \in {faults, faults + 1}
    BY DEF Next, Panel, Queue, Network, WriteRow, SaveSettings, WriteSettingsRow, Boot,
           Wake, Drain, GiveUp, Start, Place, Fetch, Sample, PassOver, Probe, Write,
           StoreCursor, Close, Vanish, Return, Crash, Disturb
  <2>. QED  BY <1>0, <2>1 DEF TypeOK
<1>2. again = {} /\ \A i \in Handed : cursor # Unplaced /\ i <= Reached
  BY <1>0, <1>1 DEF OnceInv
<1>3. Handed \subseteq Ids
  BY <1>0 DEF TypeOK, Handed, Received
<1>4. CASE Write
  <2>1. /\ cursor' = cursor /\ cursor # Unplaced /\ Reached = at /\ at \in Nat
        /\ at + 1 \notin Handed
    BY <1>0, <1>2, <1>3, <1>4 DEF Write, RoundInv, InRound, Reached, TypeOK, Ids
  <2>2. Reached' = at'
    BY <1>4, WriteHands DEF Reached, InRound
  <2>3. CASE UNCHANGED <<at, again>> /\ Handed' = Handed
    BY <1>2, <2>1, <2>2, <2>3
  <2>4. CASE /\ at' = at + 1 /\ Handed' = Handed \cup {at + 1}
             /\ again' = IF at + 1 \in Handed THEN again \cup {at + 1} ELSE again
    <3>1. \A i \in Handed : i <= at + 1
      BY <1>2, <1>3, <2>1 DEF Ids
    <3>. QED  BY <1>2, <2>1, <2>2, <2>4, <3>1
  <2>. QED  BY <1>4, <2>3, <2>4, WriteHands
<1>5. CASE ~ Write
  <2>1. again' = {} /\ Handed' = Handed
    BY <1>2, <1>5, OthersHandNothing
  <2>2. CASE cursor = Unplaced
    BY <1>2, <2>1, <2>2
  <2>3. CASE cursor # Unplaced
    <3>1. Reached \in Int /\ at \in Int
      BY <1>0, <2>3 DEF Reached, TypeOK
    <3>2. cursor' # Unplaced /\ Reached' \in {Reached, Reached + 1}
      BY <1>0, <2>3, <3>1, ReachedStep
    <3>. QED  BY <1>2, <1>3, <2>1, <3>1, <3>2 DEF Ids
  <2>. QED  BY <2>2, <2>3
<1>. QED  BY <1>4, <1>5

LEMMA NextInv == IInv /\ [Next]_vars => IInv'
<1>1. ASSUME IInv, Next PROVE IInv'
  BY <1>1, TypeStep, CursorStep, SettledStep, OnceStep DEF IInv
<1>2. ASSUME IInv, UNCHANGED vars PROVE IInv'
  BY <1>2
  DEF IInv, TypeOK, CursorInv, RoundInv, SettledInv, OnceInv, InRound, Reached, Handed,
      Received, Settled, vars, settings, network, round, history
<1>. QED  BY <1>1, <1>2

(* Every reachable state satisfies the inductive invariant. *)
THEOREM Invariance == Spec => []IInv
BY InitInv, NextInv, PTL DEF Spec

(* Drain: whatever crashes, failed statements, settings and collectors     *)
(* that come and go do, the cursor passes no row the collector is owed.    *)
THEOREM TrailHasNoHole == Spec => []NoHoleBehindTheCursor
<1>1. IInv => NoHoleBehindTheCursor
  <2>. SUFFICES ASSUME IInv, cursor # Unplaced, NEW i \in Rows, placed < i, i <= cursor
                PROVE  Settled(i)
    BY DEF NoHoleBehindTheCursor, Settled, Handed
  <2>1. TypeOK /\ CursorInv /\ RoundInv /\ SettledInv
    BY DEF IInv
  <2>2. i \in placed + 1 .. Reached
    BY <2>1, SiemQueueAssumption DEF TypeOK, CursorInv, RoundInv, Reached, InRound, Rows
  <2>. QED  BY <2>1, <2>2 DEF SettledInv
<1>. QED  BY <1>1, Invariance, PTL

(* Drain, start: a collector is given a row only after everything owed     *)
(* before it, and without a failure no row twice.                          *)
THEOREM OldestFirst == Spec => RowsArriveInOrder
<1>1. IInv /\ [Next]_vars
        => [/\ \A c \in Collectors, i \in Rows :
                 i \in got'[c] \ got[c] =>
                   /\ i > placed
                   /\ \A k \in placed + 1 .. i - 1 : k \in Received \cup dropped \cup skipped
            /\ faults' = 0 => again' = {}]_vars
  <2>. SUFFICES ASSUME IInv, Next
                PROVE  /\ \A c \in Collectors, i \in Rows :
                            i \in got'[c] \ got[c] =>
                              /\ i > placed
                              /\ \A k \in placed + 1 .. i - 1 : k \in Handed \cup skipped
                       /\ faults' = 0 => again' = {}
    BY DEF Handed
  <2>1. TypeOK /\ CursorInv /\ RoundInv /\ SettledInv
    BY DEF IInv
  <2>2. faults' = 0 => again' = {}
    BY OnceStep DEF OnceInv
  <2>3. ASSUME NEW c \in Collectors, NEW i \in Rows, i \in got'[c] \ got[c]
        PROVE  i > placed /\ \A k \in placed + 1 .. i - 1 : k \in Handed \cup skipped
    <3>1. Write
      BY <2>3, OthersHandNothing
    <3>2. i = at + 1
      BY <2>3, <3>1, WriteHands
    <3>3. cursor # Unplaced /\ Reached = at /\ placed \in Nat /\ placed <= at /\ at \in Nat
      BY <2>1, <3>1, SiemQueueAssumption
      DEF Write, RoundInv, InRound, Reached, CursorInv, TypeOK
    <3>. QED  BY <2>1, <3>2, <3>3 DEF SettledInv, Settled
  <2>. QED  BY <2>2, <2>3
<1>. QED  BY <1>1, Invariance, PTL DEF Spec, RowsArriveInOrder

=============================================================================
