-------------------------- MODULE RefreshPass_proofs --------------------------
(***************************************************************************)
(* Theorems about RefreshPass and the Inventory it extends, for every set  *)
(* of servers, hosts, operators and callers, any number of slots and       *)
(* passes, and every budget.                                               *)
(*                                                                         *)
(* Rows are held by many at a time: the table, the pool, the tests of the  *)
(* operators, the passes that listed them and the change that resolved     *)
(* one.  What a row trusts was displayed before it got there, and what has *)
(* been displayed stays displayed, so it is enough to follow the copies.   *)
(*                                                                         *)
(* Two more invariants stand beside that one and are proved upon it.  The  *)
(* keys: what every request has in hand of the files of its server.  The   *)
(* answers: how old the files are a pass began with, a reader has read and *)
(* a call asked for.                                                       *)
(***************************************************************************)
EXTENDS RefreshPass, WellFoundedInduction, TLAPS

-----------------------------------------------------------------------------
(* The inductive invariant. *)

OpFields == {"at", "id", "row", "key", "hostKey", "fd", "gone"}
RowFields == {"host", "hostKey", "enabled", "path"}
PassFields == {"at", "leader", "since", "list", "reader"}
ReaderFields == {"at", "host", "no"}

(* The functions and records are what the steps take them for. *)
OpShape ==
  /\ DOMAIN op = Operator
  /\ \A o \in Operator : DOMAIN op[o] = OpFields /\ (op[o].at # "idle" => op[o].id \in Server)
TableShape ==
  /\ DOMAIN rows = Server
  /\ \A s \in Server : Exists(s) => DOMAIN rows[s] = RowFields
PassShape ==
  /\ DOMAIN pass = Passes
  /\ \A p \in Passes :
       /\ DOMAIN pass[p] = PassFields
       /\ DOMAIN pass[p].reader = Server
       /\ \A s \in Server : DOMAIN pass[p].reader[s] = ReaderFields
WriterShape ==
  /\ DOMAIN writer = {"at", "id", "row"}
  /\ writer.at # "idle" => writer.id \in Server

(* A copy of the row of s trusts what was displayed for s. *)
Informed(s, r) == Trusted(r) => <<s, r.hostKey>> \in shown

ShownArePairs == \A x \in shown : x = <<x[1], x[2]>>
RowsInformed == \A s \in Server : Exists(s) => Informed(s, rows[s])
PoolInformed ==
  /\ DOMAIN pool = Server
  /\ \A s \in Server : pool[s] # None /\ Whole(pool[s].key) => <<s, pool[s].hostKey>> \in shown
OpsInformed ==
  \A o \in Operator :
    /\ op[o].at = "probe" => Informed(op[o].id, op[o].row)
    /\ op[o].at = "trust" => <<op[o].id, op[o].hostKey>> \in shown
PassesInformed ==
  \A p \in Passes, s \in Server :
    pass[p].reader[s].at \in {"queued", "slot", "held"} => Informed(s, pass[p].list[s])
WriterInformed == writer.at \in {"lock", "write"} => Informed(writer.id, writer.row)

Table == TableShape /\ RowsInformed
Ops == OpShape /\ OpsInformed
Pass == PassShape /\ PassesInformed
Writing == WriterShape /\ WriterInformed

IInv == ShownArePairs /\ Table /\ PoolInformed /\ Ops /\ Pass /\ Writing

-----------------------------------------------------------------------------
(* The keys: an inductive invariant of its own, beside the one above.      *)

Makes(o) == op[o].at \in {"secret", "path", "undo", "discard"}
Rotates(o) == op[o].at \in {"stage", "write", "rename"} \/ (op[o].at = "remove" /\ Whole(op[o].key))

(* A server that was made is not one that is being made any more.          *)
Settled(s) == s \in issued /\ (Exists(s) => rows[s].path)

FileShape == DOMAIN keys = Server /\ DOMAIN staging = Server /\ DOMAIN told = Server /\ made \in Nat

(* An identifier is used once. *)
Known ==
  /\ \A s \in Server : Exists(s) => s \in issued
  /\ \A o \in Operator : op[o].at # "idle" => op[o].id \in issued

(* One request makes a server, and unless two were begun at one time one   *)
(* gives it another key.                                                   *)
Alone ==
  \A o, q \in Operator : o # q /\ op[o].id = op[q].id =>
    /\ ~ (Makes(o) /\ Makes(q))
    /\ op[o].id \notin raced => ~ (Rotates(o) /\ Rotates(q))

(* What a request has done so far to the files of its server. *)
InHand(o) ==
  LET s == op[o].id IN
  /\ Makes(o) => (Exists(s) => ~ rows[s].path)
  /\ op[o].at = "path" => Whole(op[o].key) /\ (Exists(s) => keys[s] = op[o].key)
  /\ Rotates(o) => Settled(s)
  /\ op[o].at = "rename" => Whole(op[o].key)
  /\ op[o].at = "key" => ~ Exists(s)
  /\ op[o].at = "trust" => ~ Whole(op[o].key)
  /\ s \notin raced =>
       /\ op[o].at = "write" => op[o].fd = "staging"
       /\ op[o].at = "rename" => staging[s] = op[o].key
       /\ op[o].at = "remove" /\ Whole(op[o].key) /\ Exists(s) => keys[s] = op[o].key

ServerKeyed(s) ==
  Exists(s) =>
    /\ ~ rows[s].path => Making(s) \/ s \in abandoned
    /\ rows[s].path /\ s \notin raced => Whole(keys[s]) /\ (keys[s] = told[s] \/ Replacing(s))

Files == FileShape /\ Known /\ Alone /\ (\A o \in Operator : InHand(o)) /\ \A s \in Server : ServerKeyed(s)

(* A host key is displayed of a server that has its key, and a connection  *)
(* is open under one that was displayed.                                   *)
ShownSettled == \A x \in shown : x[1] \in Server /\ Settled(x[1])
PoolKeyed ==
  \A s \in Server : pool[s] # None =>
    /\ pool[s].key = NoFile \/ Whole(pool[s].key)
    /\ Exists(s) /\ ~ Replacing(s) /\ s \notin raced => pool[s].key \in {NoFile, keys[s]}

KeysInv == Files /\ ShownSettled /\ PoolKeyed

-----------------------------------------------------------------------------
(* The answers: an inductive invariant of their own.                       *)

Counts == [Host -> Nat]
Below(f, g) == \A h \in Host : f[h] <= g[h]

BudgetShape == budget \in [ops : Nat, calls : Nat, writes : Nat, faults : Nat]
RowsNamed == \A s \in Server : Exists(s) => rows[s].host \in Host
WriterNamed == writer.at \in {"lock", "write"} => writer.row.host \in Host

(* Passes begin in the order of their numbers, and one is left for every   *)
(* call that may still be made.                                            *)
BegunTo(k) == \A p \in Passes : pass[p].at # "none" <=> p <= k
PassesLeft == \E k \in 0..MaxPasses : BegunTo(k) /\ k + budget.calls <= MaxPasses

(* A later pass begins with files that are no older. *)
PassTimes ==
  /\ file \in Counts
  /\ \A p \in Passes :
       /\ pass[p].at \in {"none", "list", "read", "done", "ended", "closed"}
       /\ pass[p].since \in Counts
       /\ pass[p].at # "none" => Below(pass[p].since, file)
       /\ \A q \in Passes : p < q /\ pass[q].at # "none" => Below(pass[p].since, pass[q].since)

(* A reader is under way while its pass reads, and what it has read is no  *)
(* older than the pass.                                                    *)
ReaderTimed(p, s) ==
  LET r == pass[p].reader[s] IN
  /\ r.at \in Reading => pass[p].at = "read" /\ pass[p].list[s].host \in Host
  /\ r.at \in {"read", "ok"} => r.host \in Host /\ r.no \in Nat /\ pass[p].since[r.host] <= r.no
ReaderTimes == \A p \in Passes, s \in Server : ReaderTimed(p, s)

(* A call waits for a pass that is no older than it may be. *)
CallTimed(c) ==
  /\ DOMAIN call[c] = {"at", "pass", "gone", "since"}
  /\ call[c].at # "idle" =>
       /\ call[c].pass \in Passes /\ pass[call[c].pass].at # "none"
       /\ call[c].since \in Counts /\ Below(call[c].since, pass[call[c].pass].since)
CallTimes ==
  /\ DOMAIN call = Callers
  /\ current # NoPass => current \in Passes /\ pass[current].at \in {"list", "read", "done"}
  /\ \A c \in Callers : CallTimed(c)

Named == BudgetShape /\ RowsNamed /\ WriterNamed
TimesInv == Named /\ PassesLeft /\ PassTimes /\ ReaderTimes /\ CallTimes

-----------------------------------------------------------------------------
(* What a step leaves alone stays informed, since what was displayed stays *)
(* displayed.                                                              *)

LEMMA TableStays ==
  ASSUME Table, rows' = rows, shown \subseteq shown' PROVE Table'
BY DEF Table, TableShape, RowsInformed, Informed, Exists, Trusted

LEMMA PoolStays ==
  ASSUME PoolInformed, pool' = pool, shown \subseteq shown' PROVE PoolInformed'
BY DEF PoolInformed, Whole

LEMMA OpsStay ==
  ASSUME Ops, op' = op, shown \subseteq shown' PROVE Ops'
BY DEF Ops, OpShape, OpsInformed, Informed, Trusted

LEMMA PassStays ==
  ASSUME Pass, pass' = pass, shown \subseteq shown' PROVE Pass'
BY DEF Pass, PassShape, PassesInformed, Informed, Trusted

LEMMA WriterStays ==
  ASSUME Writing, writer' = writer, shown \subseteq shown' PROVE Writing'
BY DEF Writing, WriterShape, WriterInformed, Informed, Trusted

(* Pool.Get with a row that is informed, or none at all. *)
LEMMA ConnectedIsInformed ==
  ASSUME PoolInformed, NEW s, NEW r, <<s, r.hostKey>> \in shown',
         shown \subseteq shown', pool' = Connected(s, r)
  PROVE  PoolInformed'
BY DEF PoolInformed, Connected, Whole

LEMMA ClosedIsInformed ==
  ASSUME PoolInformed, NEW s, NEW r, shown \subseteq shown', pool' = Closed(s, r)
  PROVE  PoolInformed'
<1>1. CASE pool' = pool
  BY <1>1, PoolStays
<1>2. CASE pool' = [pool EXCEPT ![s] = [host |-> r.host, hostKey |-> r.hostKey, key |-> NoFile]]
  BY <1>2 DEF PoolInformed, Whole, NoFile
<1> QED BY <1>1, <1>2 DEF Closed

LEMMA RemovedIsInformed ==
  ASSUME PoolInformed, NEW s, shown \subseteq shown', pool' = Removed(pool, s)
  PROVE  PoolInformed'
BY DEF PoolInformed, Removed, Whole

-----------------------------------------------------------------------------
(* The requests. *)

(* A request that moves on, ends or changes, and is not about to connect   *)
(* or to store a host key, keeps the requests informed.                    *)
LEMMA OpMoves ==
  ASSUME Ops, shown \subseteq shown', DOMAIN op' = Operator, NEW o \in Operator,
         \A x \in Operator : x # o => op'[x] = op[x],
         DOMAIN op'[o] = OpFields,
         op'[o].at # "idle" => op'[o].id \in Server,
         op'[o].at = "probe" => Informed(op[o].id, op[o].row)',
         op'[o].at = "trust" => <<op'[o].id, op'[o].hostKey>> \in shown'
  PROVE  Ops'
<1>1. OpShape'
  BY DEF Ops, OpShape
<1>2. ASSUME NEW x \in Operator
      PROVE  /\ op'[x].at = "probe" => Informed(op[x].id, op[x].row)'
             /\ op'[x].at = "trust" => <<op'[x].id, op'[x].hostKey>> \in shown'
  <2>1. CASE x = o
    BY <2>1
  <2>2. CASE x # o
    BY <2>2 DEF Ops, OpsInformed, Informed, Trusted
  <2> QED BY <2>1, <2>2
<1> QED BY <1>1, <1>2 DEF Ops, OpsInformed, Informed, Trusted

LEMMA EndedOp ==
  ASSUME Ops, NEW o \in Operator, End(o), shown \subseteq shown' PROVE Ops'
<1>1. op' = [op EXCEPT ![o] = NoOp] /\ DOMAIN NoOp = OpFields /\ NoOp.at = "idle"
  BY DEF End, NoOp, OpFields
<1> QED BY <1>1, OpMoves DEF Ops, OpShape

LEMMA MovedOp ==
  ASSUME Ops, NEW o \in Operator, NEW p, p \notin {"idle", "probe", "trust"},
         op[o].at # "idle", Goto(o, p), shown \subseteq shown'
  PROVE  Ops'
<1>1. op' = [op EXCEPT ![o].at = p]
  BY DEF Goto
<1>2. DOMAIN op'[o] = OpFields /\ op'[o].at = p /\ op'[o].id = op[o].id
  BY <1>1 DEF Ops, OpShape, OpFields
<1> QED BY <1>1, <1>2, OpMoves DEF Ops, OpShape

LEMMA BegunOp ==
  ASSUME Ops, NEW o \in Operator, NEW p, NEW s \in Server, p \notin {"idle", "trust"},
         p = "probe" => Informed(s, rows[s]), Begin(o, p, s), shown \subseteq shown'
  PROVE  Ops'
<1>1. op' = [op EXCEPT ![o] = [NoOp EXCEPT !.at = p, !.id = s, !.row = rows[s]]]
  BY DEF Begin
<1>2. /\ DOMAIN op'[o] = OpFields /\ op'[o].at = p /\ op'[o].id = s /\ op'[o].row = rows[s]
      /\ \A x \in Operator : x # o => op'[x] = op[x]
      /\ DOMAIN op' = Operator
  BY <1>1 DEF Ops, OpShape, OpFields, NoOp
<1>3. p = "probe" => Informed(op[o].id, op[o].row)'
  BY <1>2 DEF Informed, Trusted
<1> QED BY <1>2, <1>3, OpMoves

-----------------------------------------------------------------------------
(* The table. *)

(* A row that is taken away, made anew without a host key, or edited       *)
(* without touching the host key it trusts.                                *)
LEMMA RowRemoved ==
  ASSUME Table, NEW s \in Server, rows' = [rows EXCEPT ![s] = None], shown \subseteq shown'
  PROVE  Table'
BY DEF Table, TableShape, RowsInformed, Informed, Exists, Trusted

LEMMA RowReplaced ==
  ASSUME Table, NEW s \in Server, NEW r, DOMAIN r = RowFields, shown \subseteq shown',
         rows' = [rows EXCEPT ![s] = r], Trusted(r) => <<s, r.hostKey>> \in shown'
  PROVE  Table'
BY DEF Table, TableShape, RowsInformed, Informed, Exists, Trusted

-----------------------------------------------------------------------------
(* Every step of a request. *)

(* What a request can disturb. *)
RequestPart == Table' /\ PoolInformed' /\ Ops' /\ ShownArePairs'

LEMMA RequestSteps ==
  ASSUME IInv, NEW o \in Operator, Steps(o)
  PROVE  RequestPart /\ shown \subseteq shown'
<1> USE DEF IInv
<1> DEFINE s == op[o].id
<1>0. op[o].at # "idle" => s \in Server
  BY DEF Ops, OpShape
<1>1. CASE RemoveFromPool(o)
  <2>1. op[o].at = "remove" /\ shown' = shown /\ rows' = rows /\ pool' = Removed(pool, s)
    BY <1>1 DEF RemoveFromPool, At
  <2>2. Ops'
    BY <1>1, <2>1, EndedOp, MovedOp DEF RemoveFromPool
  <2> QED BY <2>1, <2>2, TableStays, RemovedIsInformed DEF RequestPart, ShownArePairs
<1>2. CASE MakeSecret(o)
  <2>1. op[o].at = "secret" /\ shown' = shown /\ rows' = rows /\ pool' = pool
    BY <1>2 DEF MakeSecret, At
  <2>2. CASE op' = [op EXCEPT ![o].at = "path", ![o].key = made + 1]
    <3>1. /\ DOMAIN op' = Operator /\ \A x \in Operator : x # o => op'[x] = op[x]
          /\ DOMAIN op'[o] = OpFields /\ op'[o].at = "path" /\ op'[o].id = s
      BY <2>2 DEF Ops, OpShape, OpFields
    <3>2. Ops'
      BY <1>0, <2>1, <3>1, OpMoves
    <3> QED BY <2>1, <3>2, TableStays, PoolStays DEF RequestPart, ShownArePairs
  <2>3. CASE Goto(o, "discard")
    <3>1. Ops'
      BY <2>1, <2>3, MovedOp
    <3> QED BY <2>1, <3>1, TableStays, PoolStays DEF RequestPart, ShownArePairs
  <2> QED BY <1>2, <2>2, <2>3 DEF MakeSecret
<1>3. CASE SetKeyPath(o)
  <2>1. op[o].at = "path" /\ shown' = shown /\ pool' = pool
    BY <1>3 DEF SetKeyPath, At
  <2>2. CASE Exists(s) /\ ~op[o].gone
    <3>1. rows' = [rows EXCEPT ![s] = [rows[s] EXCEPT !.path = TRUE]] /\ End(o)
      BY <1>3, <2>2 DEF SetKeyPath
    <3> DEFINE r == [rows[s] EXCEPT !.path = TRUE]
    <3>2. DOMAIN r = RowFields /\ r.hostKey = rows[s].hostKey
      BY <1>0, <2>1, <2>2 DEF Table, TableShape, RowFields
    <3>3. Trusted(r) => <<s, r.hostKey>> \in shown
      BY <1>0, <2>1, <2>2, <3>2 DEF Table, RowsInformed, Informed, Trusted
    <3> HIDE DEF r
    <3>4. Table'
      BY <1>0, <2>1, <3>1, <3>2, <3>3, RowReplaced DEF r
    <3>5. Ops'
      BY <2>1, <3>1, EndedOp
    <3> QED BY <2>1, <3>4, <3>5, PoolStays DEF RequestPart, ShownArePairs
  <2>3. CASE ~(Exists(s) /\ ~op[o].gone)
    <3>1. rows' = rows /\ Goto(o, "undo")
      BY <1>3, <2>3 DEF SetKeyPath
    <3>2. Ops'
      BY <2>1, <3>1, MovedOp
    <3> QED BY <2>1, <3>1, <3>2, TableStays, PoolStays DEF RequestPart, ShownArePairs
  <2> QED BY <2>2, <2>3
<1>4. CASE RemoveKey(o)
  <2>1. op[o].at = "undo" /\ shown' = shown /\ rows' = rows /\ pool' = pool /\ Goto(o, "discard")
    BY <1>4 DEF RemoveKey, At
  <2>2. Ops'
    BY <2>1, MovedOp
  <2> QED BY <2>1, <2>2, TableStays, PoolStays DEF RequestPart, ShownArePairs
<1>5. CASE Discard(o)
  <2>1. op[o].at = "discard" /\ shown' = shown /\ pool' = pool /\ End(o)
    BY <1>5 DEF Discard, At
  <2>2. Table'
    BY <1>0, <1>5, <2>1, TableStays, RowRemoved DEF Discard
  <2>3. Ops'
    BY <2>1, EndedOp
  <2> QED BY <2>1, <2>2, <2>3, PoolStays DEF RequestPart, ShownArePairs
<1>6. CASE OpenStaging(o)
  <2>1. op[o].at = "stage" /\ shown' = shown /\ rows' = rows /\ pool' = pool
    BY <1>6 DEF OpenStaging, At
  <2>2. /\ DOMAIN op' = Operator /\ \A x \in Operator : x # o => op'[x] = op[x]
        /\ DOMAIN op'[o] = OpFields /\ op'[o].at = "write" /\ op'[o].id = s
    BY <1>6 DEF OpenStaging, Ops, OpShape, OpFields
  <2>3. Ops'
    BY <1>0, <2>1, <2>2, OpMoves
  <2> QED BY <2>1, <2>3, TableStays, PoolStays DEF RequestPart, ShownArePairs
<1>7. CASE WriteStaging(o)
  <2>1. op[o].at = "write" /\ shown' = shown /\ rows' = rows /\ pool' = pool
    BY <1>7 DEF WriteStaging, At
  <2>2. CASE op' = [op EXCEPT ![o].at = "rename", ![o].key = made + 1]
    <3>1. /\ DOMAIN op' = Operator /\ \A x \in Operator : x # o => op'[x] = op[x]
          /\ DOMAIN op'[o] = OpFields /\ op'[o].at = "rename" /\ op'[o].id = s
      BY <2>2 DEF Ops, OpShape, OpFields
    <3>2. Ops'
      BY <1>0, <2>1, <3>1, OpMoves
    <3> QED BY <2>1, <3>2, TableStays, PoolStays DEF RequestPart, ShownArePairs
  <2>3. CASE op' = [x \in Operator |->
                      IF x = o THEN NoOp
                      ELSE IF op[x].id = s /\ op[x].fd = "staging" THEN [op[x] EXCEPT !.fd = "none"]
                      ELSE op[x]]
    <3>1. \A x \in Operator : x # o =>
            /\ DOMAIN op'[x] = OpFields /\ op'[x].at = op[x].at /\ op'[x].id = op[x].id
            /\ op'[x].row = op[x].row /\ op'[x].hostKey = op[x].hostKey
      BY <2>3 DEF Ops, OpShape, OpFields
    <3>2. DOMAIN op' = Operator /\ DOMAIN op'[o] = OpFields /\ op'[o].at = "idle"
      BY <2>3 DEF NoOp, OpFields
    <3>3. Ops'
      BY <2>1, <3>1, <3>2 DEF Ops, OpShape, OpsInformed, Informed, Trusted
    <3> QED BY <2>1, <3>3, TableStays, PoolStays DEF RequestPart, ShownArePairs
  <2> QED BY <1>7, <2>2, <2>3 DEF WriteStaging
<1>8. CASE Rename(o)
  <2>1. op[o].at = "rename" /\ shown' = shown /\ rows' = rows /\ pool' = pool
    BY <1>8 DEF Rename, At
  <2>2. CASE op' = [x \in Operator |->
                      IF x = o THEN [op[x] EXCEPT !.at = "remove", !.fd = "none"]
                      ELSE IF op[x].id = s /\ op[x].fd = "staging" THEN [op[x] EXCEPT !.fd = "key"]
                      ELSE op[x]]
    <3>1. \A x \in Operator : x # o =>
            /\ DOMAIN op'[x] = OpFields /\ op'[x].at = op[x].at /\ op'[x].id = op[x].id
            /\ op'[x].row = op[x].row /\ op'[x].hostKey = op[x].hostKey
      BY <2>2 DEF Ops, OpShape, OpFields
    <3>2. DOMAIN op' = Operator /\ DOMAIN op'[o] = OpFields /\ op'[o].at = "remove" /\ op'[o].id = s
      BY <2>2 DEF Ops, OpShape, OpFields
    <3>3. Ops'
      BY <1>0, <2>1, <3>1, <3>2 DEF Ops, OpShape, OpsInformed, Informed, Trusted
    <3> QED BY <2>1, <3>3, TableStays, PoolStays DEF RequestPart, ShownArePairs
  <2>3. CASE End(o)
    <3>1. Ops'
      BY <2>1, <2>3, EndedOp
    <3> QED BY <2>1, <3>1, TableStays, PoolStays DEF RequestPart, ShownArePairs
  <2> QED BY <1>8, <2>2, <2>3 DEF Rename
<1>9. CASE DeleteRow(o)
  <2>1. op[o].at = "row" /\ shown' = shown /\ pool' = pool
    BY <1>9 DEF DeleteRow, At
  <2>2. Table'
    BY <1>0, <1>9, <2>1, TableStays, RowRemoved DEF DeleteRow
  <2>3. Ops'
    BY <1>9, <2>1, EndedOp, MovedOp DEF DeleteRow
  <2> QED BY <2>1, <2>2, <2>3, PoolStays DEF RequestPart, ShownArePairs
<1>10. CASE DeleteKey(o)
  <2>1. shown' = shown /\ rows' = rows /\ pool' = pool /\ End(o)
    BY <1>10 DEF DeleteKey
  <2>2. Ops'
    BY <2>1, EndedOp
  <2> QED BY <2>1, <2>2, TableStays, PoolStays DEF RequestPart, ShownArePairs
<1>11. CASE Probe(o)
  <2>1. op[o].at = "probe" /\ rows' = rows /\ End(o)
    BY <1>11 DEF Probe, At
  <2>2. shown \subseteq shown' /\ ShownArePairs'
    BY <1>11 DEF Probe, ShownArePairs
  <2>3. PoolInformed'
    <3>1. CASE CanReach(s, op[o].row)
      <4>1. pool' = Connected(s, op[o].row) /\ shown' = shown
        BY <1>11, <3>1 DEF Probe
      <4>2. <<s, op[o].row.hostKey>> \in shown'
        BY <2>1, <3>1, <4>1 DEF CanReach, Ops, OpsInformed, Informed
      <4> QED BY <4>1, <4>2, ConnectedIsInformed
    <3>2. CASE ~CanReach(s, op[o].row)
      <4>1. pool' = Closed(s, op[o].row)
        BY <1>11, <3>2 DEF Probe
      <4> QED BY <2>2, <4>1, ClosedIsInformed
    <3> QED BY <3>1, <3>2
  <2> QED BY <2>1, <2>2, <2>3, TableStays, EndedOp DEF RequestPart
<1>12. CASE SetHostKey(o)
  <2>1. op[o].at = "trust" /\ shown' = shown /\ pool' = pool
    BY <1>12 DEF SetHostKey, At
  <2>2. CASE Exists(s) /\ ~op[o].gone
    <3>1. rows' = [rows EXCEPT ![s] = [rows[s] EXCEPT !.hostKey = op[o].hostKey]] /\ Goto(o, "remove")
      BY <1>12, <2>2 DEF SetHostKey
    <3> DEFINE r == [rows[s] EXCEPT !.hostKey = op[o].hostKey]
    <3>2. DOMAIN r = RowFields /\ r.hostKey = op[o].hostKey
      BY <1>0, <2>1, <2>2 DEF Table, TableShape, RowFields
    <3>3. <<s, r.hostKey>> \in shown
      BY <2>1, <3>2 DEF Ops, OpsInformed
    <3> HIDE DEF r
    <3>4. Table'
      BY <1>0, <2>1, <3>1, <3>2, <3>3, RowReplaced DEF r
    <3>5. Ops'
      BY <2>1, <3>1, MovedOp
    <3> QED BY <2>1, <3>4, <3>5, PoolStays DEF RequestPart, ShownArePairs
  <2>3. CASE ~(Exists(s) /\ ~op[o].gone)
    <3>1. rows' = rows /\ End(o)
      BY <1>12, <2>3 DEF SetHostKey
    <3>2. Ops'
      BY <2>1, <3>1, EndedOp
    <3> QED BY <2>1, <3>1, <3>2, TableStays, PoolStays DEF RequestPart, ShownArePairs
  <2> QED BY <2>2, <2>3
<1>13. CASE TestTrusted(o)
  <2>1. op[o].at = "test" /\ shown' = shown /\ rows' = rows /\ pool' = pool
    BY <1>13 DEF TestTrusted, At
  <2>2. Ops'
    <3>1. CASE Exists(s) /\ ~op[o].gone
      <4>1. op' = [op EXCEPT ![o].at = "probe", ![o].row = rows[s]]
        BY <1>13, <3>1 DEF TestTrusted
      <4>2. /\ DOMAIN op' = Operator /\ \A x \in Operator : x # o => op'[x] = op[x]
            /\ DOMAIN op'[o] = OpFields /\ op'[o].at = "probe" /\ op'[o].id = s
            /\ op'[o].row = rows[s]
        BY <4>1 DEF Ops, OpShape, OpFields
      <4>3. Informed(op[o].id, op[o].row)'
        BY <1>0, <2>1, <3>1, <4>2 DEF Table, RowsInformed, Informed, Trusted
      <4> QED BY <1>0, <2>1, <4>2, <4>3, OpMoves
    <3>2. CASE ~(Exists(s) /\ ~op[o].gone)
      BY <1>13, <2>1, <3>2, EndedOp DEF TestTrusted
    <3> QED BY <3>1, <3>2
  <2> QED BY <2>1, <2>2, TableStays, PoolStays DEF RequestPart, ShownArePairs
<1> QED BY <1>1, <1>2, <1>3, <1>4, <1>5, <1>6, <1>7, <1>8, <1>9, <1>10, <1>11, <1>12, <1>13 DEF Steps

(* Every way a request may begin. *)
LEMMA RequestBegins ==
  ASSUME IInv, NEW o \in Operator, NEW s \in Server, Begins(o, s)
  PROVE  RequestPart /\ shown \subseteq shown'
<1> USE DEF IInv
<1>1. ASSUME NEW h \in Host, CreateRow(o, s, h) PROVE RequestPart /\ shown \subseteq shown'
  <2> DEFINE r == [host |-> h, hostKey |-> None, enabled |-> TRUE, path |-> FALSE]
  <2>1. /\ Begin(o, "secret", s) /\ shown' = shown /\ pool' = pool
        /\ rows' = [rows EXCEPT ![s] = r]
    BY <1>1 DEF CreateRow
  <2>2. DOMAIN r = RowFields /\ ~Trusted(r)
    BY DEF RowFields, Trusted
  <2> HIDE DEF r
  <2>3. Table'
    BY <2>1, <2>2, RowReplaced
  <2>4. Ops'
    BY <2>1, BegunOp
  <2> QED BY <2>1, <2>3, <2>4, PoolStays DEF RequestPart, ShownArePairs
<1>2. ASSUME NEW h \in Host, NEW e \in BOOLEAN, UpdateRow(o, s, h, e)
      PROVE  RequestPart /\ shown \subseteq shown'
  <2> DEFINE r == [rows[s] EXCEPT !.host = h, !.enabled = e]
  <2>1. /\ Begin(o, "remove", s) /\ shown' = shown /\ pool' = pool /\ Exists(s)
        /\ rows' = [rows EXCEPT ![s] = r]
    BY <1>2 DEF UpdateRow, Table, TableShape
  <2>2. DOMAIN r = RowFields /\ r.hostKey = rows[s].hostKey
    BY <2>1 DEF Table, TableShape, RowFields
  <2>3. Trusted(r) => <<s, r.hostKey>> \in shown
    BY <2>1, <2>2 DEF Table, RowsInformed, Informed, Trusted
  <2> HIDE DEF r
  <2>4. Table'
    BY <2>1, <2>2, <2>3, RowReplaced
  <2>5. Ops'
    BY <2>1, BegunOp
  <2> QED BY <2>1, <2>4, <2>5, PoolStays DEF RequestPart, ShownArePairs
<1>3. CASE RotateKey(o, s)
  <2>1. Begin(o, "stage", s) /\ shown' = shown /\ pool' = pool /\ rows' = rows
    BY <1>3 DEF RotateKey
  <2>2. Ops'
    BY <2>1, BegunOp
  <2> QED BY <2>1, <2>2, TableStays, PoolStays DEF RequestPart, ShownArePairs
<1>4. CASE Delete(o, s)
  <2>1. Begin(o, "row", s) /\ shown' = shown /\ pool' = Removed(pool, s) /\ rows' = rows
    BY <1>4 DEF Delete
  <2>2. Ops'
    BY <2>1, BegunOp
  <2> QED BY <2>1, <2>2, TableStays, RemovedIsInformed DEF RequestPart, ShownArePairs
<1>5. CASE TestConnection(o, s)
  <2>1. Begin(o, "probe", s) /\ shown' = shown /\ pool' = pool /\ rows' = rows /\ Exists(s)
    BY <1>5 DEF TestConnection
  <2>2. Informed(s, rows[s])
    BY <2>1 DEF Table, RowsInformed
  <2>3. Ops'
    BY <2>1, <2>2, BegunOp
  <2> QED BY <2>1, <2>3, TableStays, PoolStays DEF RequestPart, ShownArePairs
<1>6. ASSUME NEW k \in {x[2] : x \in {y \in shown : y[1] = s}}, TrustHostKey(o, s, k)
      PROVE  RequestPart /\ shown \subseteq shown'
  <2>1. shown' = shown /\ pool' = pool /\ rows' = rows /\ HostKeyOf(rows[s].host) = k
    BY <1>6 DEF TrustHostKey, Offered
  <2>2. <<s, k>> \in shown
    BY DEF ShownArePairs
  <2>3. op' = [op EXCEPT ![o] = [NoOp EXCEPT !.at = "trust", !.id = s, !.hostKey = k]]
    BY <1>6, <2>1 DEF TrustHostKey
  <2>4. /\ DOMAIN op' = Operator /\ \A x \in Operator : x # o => op'[x] = op[x]
        /\ DOMAIN op'[o] = OpFields /\ op'[o].at = "trust" /\ op'[o].id = s
        /\ op'[o].hostKey = k
    BY <2>3 DEF Ops, OpShape, OpFields, NoOp
  <2>5. Ops'
    BY <2>1, <2>2, <2>4, OpMoves
  <2> QED BY <2>1, <2>5, TableStays, PoolStays DEF RequestPart, ShownArePairs
<1> QED BY <1>1, <1>2, <1>3, <1>4, <1>5, <1>6 DEF Begins

LEMMA InventorySteps ==
  ASSUME IInv, InventoryNext, UNCHANGED <<pass, writer>>
  PROVE  IInv'
<1>1. RequestPart /\ shown \subseteq shown'
  <2>1. ASSUME NEW o \in Operator, Leave(o) PROVE RequestPart /\ shown \subseteq shown'
    <3>1. shown' = shown /\ rows' = rows /\ pool' = pool /\ op' = [op EXCEPT ![o].gone = TRUE]
      BY <2>1 DEF Leave
    <3>2. /\ DOMAIN op' = Operator
          /\ \A x \in Operator :
               /\ DOMAIN op'[x] = OpFields /\ op'[x].at = op[x].at /\ op'[x].id = op[x].id
               /\ op'[x].row = op[x].row /\ op'[x].hostKey = op[x].hostKey
      BY <3>1 DEF IInv, Ops, OpShape, OpFields
    <3>3. Ops'
      BY <3>1, <3>2 DEF IInv, Ops, OpShape, OpsInformed, Informed, Trusted
    <3> QED BY <3>1, <3>3, TableStays, PoolStays DEF IInv, RequestPart, ShownArePairs
  <2>2. ASSUME NEW h \in Host, Reinstall(h) PROVE RequestPart /\ shown \subseteq shown'
    <3>1. shown' = shown /\ rows' = rows /\ pool' = pool /\ op' = op
      BY <2>2 DEF Reinstall
    <3> QED BY <3>1, TableStays, PoolStays, OpsStay DEF IInv, RequestPart, ShownArePairs
  <2> QED BY <2>1, <2>2, RequestSteps, RequestBegins DEF InventoryNext
<1>2. Pass' /\ Writing'
  BY <1>1, PassStays, WriterStays DEF IInv
<1> QED BY <1>1, <1>2 DEF IInv, RequestPart

-----------------------------------------------------------------------------
(* The passes and the change. *)

LEMMA InventoryStays ==
  ASSUME IInv, UNCHANGED InventoryRest PROVE ShownArePairs' /\ Table' /\ Ops' /\ shown' = shown
<1>1. shown' = shown /\ rows' = rows /\ op' = op
  BY DEF InventoryRest
<1> QED BY <1>1, TableStays, OpsStay DEF IInv, ShownArePairs

(* A pass whose readers stay where they are. *)
LEMMA PassMoves ==
  ASSUME Pass, NEW p \in Passes, NEW to, Lead(p, pass[p].at, to), shown' = shown
  PROVE  Pass'
<1>1. pass' = [pass EXCEPT ![p].at = to]
  BY DEF Lead
<1>2. /\ DOMAIN pass' = Passes
      /\ \A q \in Passes : /\ DOMAIN pass'[q] = PassFields /\ pass'[q].reader = pass[q].reader
                           /\ pass'[q].list = pass[q].list
  BY <1>1 DEF Pass, PassShape, PassFields
<1> QED BY <1>2 DEF Pass, PassShape, PassesInformed, Informed, Trusted

(* A reader that goes on from a place where its row is informed, or to one *)
(* where it is no longer needed.                                           *)
LEMMA ReaderMoves ==
  ASSUME Pass, NEW p \in Passes, NEW s \in Server, NEW r, DOMAIN r = ReaderFields,
         pass' = [pass EXCEPT ![p].reader[s] = r], shown' = shown,
         r.at \in {"queued", "slot", "held"} => pass[p].reader[s].at \in {"queued", "slot", "held"}
  PROVE  Pass'
<1>1. /\ DOMAIN pass' = Passes
      /\ \A q \in Passes : /\ DOMAIN pass'[q] = PassFields /\ pass'[q].list = pass[q].list
                           /\ DOMAIN pass'[q].reader = Server
                           /\ q # p => pass'[q].reader = pass[q].reader
      /\ \A x \in Server : x # s => pass'[p].reader[x] = pass[p].reader[x]
      /\ pass'[p].reader[s] = r
  BY DEF Pass, PassShape, PassFields
<1>2. PassShape'
  BY <1>1 DEF Pass, PassShape
<1>3. PassesInformed'
  BY <1>1 DEF Pass, PassesInformed, Informed, Trusted
<1> QED BY <1>2, <1>3 DEF Pass

LEMMA ReaderGoesTo ==
  ASSUME Pass, NEW p \in Passes, NEW s \in Server, NEW to, Moves(p, s, to), shown' = shown,
         to \in {"queued", "slot", "held"} => pass[p].reader[s].at \in {"queued", "slot", "held"}
  PROVE  Pass'
<1> DEFINE r == [pass[p].reader[s] EXCEPT !.at = to]
<1>1. DOMAIN r = ReaderFields /\ r.at = to
  BY DEF Pass, PassShape, ReaderFields
<1>2. pass' = [pass EXCEPT ![p].reader[s] = r]
  BY DEF Moves, Pass, PassShape, PassFields
<1> HIDE DEF r
<1> QED BY <1>1, <1>2, ReaderMoves

LEMMA PassSteps ==
  ASSUME IInv, NEW p \in Passes, List(p) \/ Finish(p) \/ EndPass(p) \/ Close(p)
  PROVE  IInv'
<1> USE DEF IInv
<1>1. CASE List(p)
  <2>1. UNCHANGED InventoryRest /\ pool' = pool /\ writer' = writer
    BY <1>1 DEF List
  <2>2. shown' = shown
    BY <2>1, InventoryStays
  <2>3. Pass'
    <3>1. CASE Gone(p)
      <4>1. Lead(p, pass[p].at, "done")
        BY <1>1, <3>1 DEF List, Lead
      <4> QED BY <2>2, <4>1, PassMoves
    <3>2. CASE ~Gone(p)
      <4> DEFINE l == [s \in Server |-> IF s \in Enabled THEN rows[s] ELSE None]
                 r == [s \in Server |-> IF s \in Enabled THEN [NoReader EXCEPT !.at = "queued"]
                                                          ELSE NoReader]
      <4>1. pass' = [pass EXCEPT ![p].at = "read", ![p].list = l, ![p].reader = r]
        BY <1>1, <3>2 DEF List
      <4>2. ASSUME NEW s \in Server
            PROVE  /\ DOMAIN r[s] = ReaderFields
                   /\ r[s].at = "queued" => Informed(s, l[s])
                   /\ r[s].at \in {"queued", "unlisted"}
        BY DEF NoReader, ReaderFields, Enabled, Table, RowsInformed
      <4>3. DOMAIN r = Server
        OBVIOUS
      <4> HIDE DEF l, r
      <4>4. /\ DOMAIN pass' = Passes
            /\ \A q \in Passes : /\ DOMAIN pass'[q] = PassFields
                                 /\ q # p => pass'[q] = pass[q]
            /\ pass'[p].list = l /\ pass'[p].reader = r
        BY <4>1 DEF Pass, PassShape, PassFields
      <4>5. PassShape'
        BY <4>2, <4>3, <4>4 DEF Pass, PassShape
      <4>6. PassesInformed'
        <5> SUFFICES ASSUME NEW q \in Passes, NEW s \in Server,
                            pass'[q].reader[s].at \in {"queued", "slot", "held"}
                     PROVE  Informed(s, pass[q].list[s])'
          BY DEF PassesInformed
        <5>1. CASE q = p
          BY <2>2, <4>2, <4>4, <5>1 DEF Informed, Trusted
        <5>2. CASE q # p
          BY <2>2, <4>4, <5>2 DEF Pass, PassesInformed, Informed, Trusted
        <5> QED BY <5>1, <5>2
      <4> QED BY <4>5, <4>6 DEF Pass
    <3> QED BY <3>1, <3>2
  <2> QED BY <2>1, <2>2, <2>3, InventoryStays, PoolStays, WriterStays
<1>2. CASE Finish(p) \/ EndPass(p) \/ Close(p)
  <2>1. UNCHANGED InventoryRest /\ pool' = pool /\ writer' = writer
    BY <1>2 DEF Finish, EndPass, Close
  <2>2. PICK to \in {"done", "ended", "closed"} : Lead(p, pass[p].at, to)
    BY <1>2 DEF Finish, EndPass, Close, Lead
  <2>3. shown' = shown
    BY <2>1, InventoryStays
  <2>4. Pass'
    BY <2>2, <2>3, PassMoves
  <2> QED BY <2>1, <2>3, <2>4, InventoryStays, PoolStays, WriterStays
<1> QED BY <1>1, <1>2

LEMMA ReaderSteps ==
  ASSUME IInv, NEW p \in Passes, NEW s \in Server,
         TakeSlot(p, s) \/ Lock(p, s) \/ ReadRecords(p, s) \/ Store(p, s)
  PROVE  IInv'
<1> USE DEF IInv
<1>1. CASE TakeSlot(p, s) \/ Lock(p, s)
  <2>1. UNCHANGED InventoryRest /\ pool' = pool /\ writer' = writer
    BY <1>1 DEF TakeSlot, Lock
  <2>2. shown' = shown
    BY <2>1, InventoryStays
  <2>3. /\ pass[p].reader[s].at \in {"queued", "slot"}
        /\ Moves(p, s, "slot") \/ Moves(p, s, "held")
    BY <1>1 DEF TakeSlot, Lock
  <2>4. Pass'
    BY <2>2, <2>3, ReaderGoesTo
  <2> QED BY <2>1, <2>2, <2>4, InventoryStays, PoolStays, WriterStays
<1>2. CASE ReadRecords(p, s)
  <2> DEFINE r == pass[p].list[s]
  <2>1. UNCHANGED InventoryRest /\ writer' = writer /\ pass[p].reader[s].at = "held"
    BY <1>2 DEF ReadRecords
  <2>2. shown' = shown
    BY <2>1, InventoryStays
  <2>3. Informed(s, r)
    BY <2>1 DEF Pass, PassesInformed
  <2>4. PoolInformed'
    <3>1. CASE pool' = Connected(s, r) /\ CanReach(s, r)
      <4>1. <<s, r.hostKey>> \in shown'
        BY <2>2, <2>3, <3>1 DEF CanReach, Informed
      <4> QED BY <2>2, <3>1, <4>1, ConnectedIsInformed
    <3>2. CASE pool' = Closed(s, r)
      BY <2>2, <3>2, ClosedIsInformed
    <3>3. CASE pool' = pool
      BY <2>2, <3>3, PoolStays
    <3> QED BY <1>2, <3>1, <3>2, <3>3 DEF ReadRecords
  <2>5. Pass'
    <3>1. CASE WithReader(p, s, [at |-> "read", host |-> r.host, no |-> file[r.host]])
      <4> DEFINE t == [at |-> "read", host |-> r.host, no |-> file[r.host]]
      <4>1. DOMAIN t = ReaderFields /\ t.at = "read" /\ pass' = [pass EXCEPT ![p].reader[s] = t]
        BY <3>1 DEF WithReader, ReaderFields
      <4> HIDE DEF t
      <4> QED BY <2>2, <4>1, ReaderMoves
    <3>2. CASE Moves(p, s, "failed")
      BY <2>2, <3>2, ReaderGoesTo
    <3> QED BY <1>2, <3>1, <3>2 DEF ReadRecords
  <2> QED BY <2>1, <2>2, <2>4, <2>5, InventoryStays, WriterStays
<1>3. CASE Store(p, s)
  <2>1. UNCHANGED InventoryRest /\ pool' = pool /\ writer' = writer
    BY <1>3 DEF Store
  <2>2. shown' = shown
    BY <2>1, InventoryStays
  <2>3. Moves(p, s, "ok") \/ Moves(p, s, "failed")
    BY <1>3 DEF Store
  <2>4. Pass'
    BY <2>2, <2>3, ReaderGoesTo
  <2> QED BY <2>1, <2>2, <2>4, InventoryStays, PoolStays, WriterStays
<1> QED BY <1>1, <1>2, <1>3

LEMMA WriterSteps ==
  ASSUME IInv, (\E s \in Server : Resolve(s)) \/ LockWriter \/ Write \/ Refill
  PROVE  IInv'
<1> USE DEF IInv
<1>0. UNCHANGED InventoryRest /\ pass' = pass
  BY DEF Resolve, LockWriter, Write, Refill
<1>1. shown' = shown
  BY <1>0, InventoryStays
<1>2. ASSUME NEW s \in Server, Resolve(s) PROVE IInv'
  <2>1. writer' = [at |-> "lock", id |-> s, row |-> rows[s]] /\ pool' = pool /\ s \in Enabled
    BY <1>2 DEF Resolve
  <2>2. Informed(s, rows[s])
    BY <2>1 DEF Enabled, Table, RowsInformed
  <2>3. Writing'
    BY <1>1, <2>1, <2>2 DEF Writing, WriterShape, WriterInformed, Informed, Trusted
  <2> QED BY <1>0, <1>1, <2>1, <2>3, InventoryStays, PoolStays, PassStays
<1>3. CASE LockWriter
  <2>1. writer' = [writer EXCEPT !.at = "write"] /\ writer.at = "lock" /\ pool' = pool
    BY <1>3 DEF LockWriter
  <2>2. Writing'
    BY <1>1, <2>1 DEF Writing, WriterShape, WriterInformed, Informed, Trusted
  <2> QED BY <1>0, <1>1, <2>1, <2>2, InventoryStays, PoolStays, PassStays
<1>4. CASE Write
  <2> DEFINE s == writer.id
             r == writer.row
  <2>1. writer.at = "write" /\ Informed(s, r) /\ s \in Server
    BY <1>4 DEF Write, Writing, WriterShape, WriterInformed
  <2>2. PoolInformed'
    <3>1. CASE CanReach(s, r)
      <4>1. pool' = Connected(s, r) /\ <<s, r.hostKey>> \in shown'
        BY <1>1, <1>4, <2>1, <3>1 DEF Write, CanReach, Informed
      <4> QED BY <1>1, <4>1, ConnectedIsInformed
    <3>2. CASE ~CanReach(s, r)
      BY <1>1, <1>4, <3>2, ClosedIsInformed DEF Write
    <3> QED BY <3>1, <3>2
  <2>3. Writing'
    <3>1. CASE writer' = [writer EXCEPT !.at = "refill"]
      BY <1>1, <2>1, <3>1 DEF Writing, WriterShape, WriterInformed
    <3>2. CASE writer' = NoWriter
      BY <3>2 DEF Writing, WriterShape, WriterInformed, NoWriter
    <3> QED BY <1>4, <3>1, <3>2 DEF Write
  <2> QED BY <1>0, <1>1, <2>2, <2>3, InventoryStays, PassStays
<1>5. CASE Refill
  <2> DEFINE s == writer.id
             r == rows[s]
  <2>1. s \in Server /\ writer' = NoWriter
    BY <1>5 DEF Refill, Writing, WriterShape
  <2>2. PoolInformed'
    <3>1. CASE Exists(s) /\ CanReach(s, r)
      <4>1. pool' = Connected(s, r)
        BY <1>5, <3>1 DEF Refill
      <4>2. <<s, r.hostKey>> \in shown'
        BY <1>1, <2>1, <3>1 DEF CanReach, Table, RowsInformed, Informed
      <4> QED BY <1>1, <4>1, <4>2, ConnectedIsInformed
    <3>2. CASE pool' = Closed(s, r)
      BY <1>1, <3>2, ClosedIsInformed
    <3>3. CASE pool' = pool
      BY <1>1, <3>3, PoolStays
    <3> QED BY <1>5, <3>1, <3>2, <3>3 DEF Refill
  <2>3. Writing'
    BY <2>1 DEF Writing, WriterShape, WriterInformed, NoWriter
  <2> QED BY <1>0, <1>1, <2>2, <2>3, InventoryStays, PassStays
<1> QED BY <1>2, <1>3, <1>4, <1>5

LEMMA CallSteps ==
  ASSUME IInv, NEW c \in Callers, All(c) \/ Collect(c) \/ GoAway(c)
  PROVE  IInv'
<1> USE DEF IInv
<1>1. UNCHANGED InventoryRest /\ pool' = pool /\ writer' = writer
  BY DEF All, Collect, GoAway
<1>2. shown' = shown
  BY <1>1, InventoryStays
<1>3. Pass'
  <2>1. CASE pass' = pass
    BY <1>2, <2>1, PassStays
  <2>2. CASE pass' = [pass EXCEPT ![NextPass] = NewPass(c)]
    <3>1. /\ DOMAIN NewPass(c) = PassFields /\ DOMAIN NewPass(c).reader = Server
          /\ \A s \in Server : /\ DOMAIN NewPass(c).reader[s] = ReaderFields
                               /\ NewPass(c).reader[s].at = "unlisted"
      BY DEF NewPass, NoReader, PassFields, ReaderFields
    <3>2. /\ DOMAIN pass' = Passes
          /\ \A q \in Passes : pass'[q] = pass[q] \/ pass'[q] = NewPass(c)
      BY <2>2 DEF Pass, PassShape
    <3>3. PassShape'
      BY <3>1, <3>2 DEF Pass, PassShape
    <3>4. PassesInformed'
      BY <1>2, <3>1, <3>2 DEF Pass, PassesInformed, Informed, Trusted
    <3> QED BY <3>3, <3>4 DEF Pass
  <2> QED BY <2>1, <2>2 DEF All, Collect, GoAway
<1> QED BY <1>1, <1>2, <1>3, InventoryStays, PoolStays, WriterStays

-----------------------------------------------------------------------------
LEMMA InitEstablishes == Init => IInv
<1> SUFFICES ASSUME Init PROVE IInv
  OBVIOUS
<1> USE DEF Init, InventoryInit
<1>1. \A s \in FirstServers : /\ DOMAIN FirstRow(s) = RowFields
                             /\ <<s, FirstRow(s).hostKey>> \in shown
  BY DEF FirstRow, RowFields
<1>2. ShownArePairs
  BY DEF ShownArePairs
<1>3. Table
  BY <1>1 DEF Table, TableShape, RowsInformed, Informed, Exists
<1>4. PoolInformed
  BY DEF PoolInformed
<1>5. Ops
  BY DEF Ops, OpShape, OpsInformed, NoOp, OpFields
<1>6. Pass
  BY DEF Pass, PassShape, PassesInformed, NotStarted, NoReader, PassFields, ReaderFields
<1>7. Writing
  BY DEF Writing, WriterShape, WriterInformed, NoWriter
<1> QED BY <1>2, <1>3, <1>4, <1>5, <1>6, <1>7 DEF IInv

LEMMA StepPreserves == IInv /\ [Next]_vars => IInv'
<1> SUFFICES ASSUME IInv, [Next]_vars PROVE IInv'
  OBVIOUS
<1>1. CASE UNCHANGED vars
  BY <1>1, TableStays, PoolStays, OpsStay, PassStays, WriterStays
     DEF vars, inventory, IInv, ShownArePairs
<1>2. CASE PassStep
  BY <1>2, PassSteps, ReaderSteps, WriterSteps, CallSteps DEF PassStep
<1>3. ASSUME NEW c \in Callers, All(c) \/ GoAway(c) PROVE IInv'
  BY <1>3, CallSteps
<1>4. CASE \E s \in Server : Resolve(s)
  BY <1>4, WriterSteps
<1>5. CASE InventoryNext /\ UNCHANGED <<file, current, pass, call, writer>>
  BY <1>5, InventorySteps
<1> QED BY <1>1, <1>2, <1>3, <1>4, <1>5 DEF Next

(* hostKeyCallback, TrustHostKey: however many copies of a row are under   *)
(* way, and whatever becomes of the hosts meanwhile, no row and no pooled  *)
(* connection trusts a host key the panel has not displayed for that       *)
(* server.                                                                 *)
THEOREM TrustStaysInformed == Spec => []TrustIsInformed
<1>1. IInv => TrustIsInformed
  BY DEF IInv, Table, RowsInformed, PoolInformed, Informed, TrustIsInformed
<1> QED BY <1>1, InitEstablishes, StepPreserves, PTL DEF Spec

-----------------------------------------------------------------------------
(* The keys.  A step of a request touches one server, and of the others'   *)
(* requests at most where the file they opened is now.                     *)

Touches(o, s) ==
  /\ FileShape' /\ Known' /\ issued \subseteq issued'
  /\ op[o].at # "idle" => op[o].id = s
  /\ op'[o].at # "idle" => op'[o].id = s
  /\ \A q \in Operator \ {o} :
       /\ op'[q].id = op[q].id /\ op'[q].at = op[q].at /\ op'[q].key = op[q].key
       /\ op[q].id # s => op'[q].fd = op[q].fd
  /\ \A t \in Server \ {s} :
       rows'[t] = rows[t] /\ keys'[t] = keys[t] /\ staging'[t] = staging[t] /\ told'[t] = told[t]
  /\ raced \subseteq raced' /\ raced' \subseteq raced \cup {s} /\ abandoned \subseteq abandoned'

(* What it may do to the other requests for that server. *)
Spares(o, s) ==
  \A q \in Operator \ {o} : op[q].id = s =>
    /\ InHand(q)'
    /\ ~ (Makes(o)' /\ Makes(q))
    /\ s \notin raced' => ~ (Rotates(o)' /\ Rotates(q))

LEMMA FilesTouched ==
  ASSUME Ops, Files, NEW o \in Operator, NEW s \in Server,
         Touches(o, s), Spares(o, s), InHand(o)', ServerKeyed(s)'
  PROVE  Files'
<1>0. \A q \in Operator : op[q].at # "idle" => op[q].id \in Server
  BY DEF Ops, OpShape
<1>1. ASSUME NEW t \in Server, t # s
      PROVE  /\ Exists(t)' <=> Exists(t)
             /\ Settled(t) => Settled(t)'
             /\ Making(t)' <=> Making(t)
             /\ Replacing(t)' <=> Replacing(t)
             /\ t \in raced' <=> t \in raced
  BY <1>1 DEF Touches, Exists, Settled, Making, Replacing, At
<1>2. ASSUME NEW q \in Operator
      PROVE  InHand(q)'
  <2>1. CASE q = o
    BY <2>1
  <2>2. CASE q # o /\ op[q].at = "idle"
    BY <2>2 DEF Touches, InHand, Makes, Rotates
  <2>3. CASE q # o /\ op[q].id = s
    BY <2>3 DEF Spares
  <2>4. CASE q # o /\ op[q].at # "idle" /\ op[q].id # s
    <3>1. InHand(q) /\ op[q].id \in Server \ {s}
      BY <1>0, <2>4 DEF Files
    <3>2. /\ op'[q].id = op[q].id /\ op'[q].at = op[q].at /\ op'[q].key = op[q].key /\ op'[q].fd = op[q].fd
          /\ rows'[op[q].id] = rows[op[q].id] /\ keys'[op[q].id] = keys[op[q].id]
          /\ staging'[op[q].id] = staging[op[q].id]
      BY <2>4, <3>1 DEF Touches
    <3>3. /\ Makes(q)' <=> Makes(q)
          /\ Rotates(q)' <=> Rotates(q)
      BY <3>2 DEF Makes, Rotates, Whole
    <3>. QED  BY <1>1, <3>1, <3>2, <3>3 DEF InHand, Whole, Exists, Settled
  <2>. QED  BY <2>1, <2>2, <2>3, <2>4
<1>3. ASSUME NEW t \in Server
      PROVE  ServerKeyed(t)'
  <2>1. CASE t = s
    BY <2>1
  <2>2. CASE t # s
    <3>1. ServerKeyed(t)
      BY DEF Files
    <3>2. rows'[t] = rows[t] /\ keys'[t] = keys[t] /\ told'[t] = told[t] /\ abandoned \subseteq abandoned'
      BY <2>2 DEF Touches
    <3>. QED  BY <1>1, <2>2, <3>1, <3>2 DEF ServerKeyed, Whole
  <2>. QED  BY <2>1, <2>2
<1>4. Alone'
  <2>1. SUFFICES ASSUME NEW q \in Operator, NEW r \in Operator, q # r, op'[q].id = op'[r].id
                 PROVE  /\ ~ (Makes(q)' /\ Makes(r)')
                        /\ op'[q].id \notin raced' => ~ (Rotates(q)' /\ Rotates(r)')
    BY DEF Alone, Makes, Rotates, Whole
  <2>2. ASSUME NEW x \in Operator, x # o
        PROVE  (Makes(x)' <=> Makes(x)) /\ (Rotates(x)' <=> Rotates(x)) /\ op'[x].id = op[x].id
    BY <2>2 DEF Touches, Makes, Rotates, Whole
  <2>3. CASE q # o /\ r # o
    BY <2>1, <2>2, <2>3 DEF Files, Alone, Touches
  <2>4. ASSUME NEW x \in Operator, x # o, op'[x].id = op'[o].id
        PROVE  /\ ~ (Makes(o)' /\ Makes(x)')
               /\ op'[x].id \notin raced' => ~ (Rotates(o)' /\ Rotates(x)')
    <3>1. CASE op'[o].at = "idle"
      BY <3>1 DEF Makes, Rotates
    <3>2. CASE op'[o].at # "idle"
      <4>1. op[x].id = s /\ op'[x].id = s
        BY <2>2, <2>4, <3>2 DEF Touches
      <4>. QED  BY <2>2, <2>4, <4>1 DEF Spares
    <3>. QED  BY <3>1, <3>2
  <2>. QED  BY <2>1, <2>3, <2>4
<1>. QED  BY <1>2, <1>3, <1>4 DEF Files, Touches

(* What the steps of a request start from. *)
LEMMA HandsOf ==
  ASSUME Ops, Files, NEW o \in Operator, op[o].at # "idle"
  PROVE  /\ op[o].id \in Server /\ op[o].id \in issued /\ InHand(o)
         /\ ServerKeyed(op[o].id) /\ FileShape /\ Known
         /\ DOMAIN op = Operator /\ DOMAIN op[o] = OpFields
         /\ \A q \in Operator \ {o} : op[q].id = op[o].id =>
              /\ InHand(q)
              /\ ~ (Makes(o) /\ Makes(q))
              /\ op[o].id \notin raced => ~ (Rotates(o) /\ Rotates(q))
BY DEF Ops, OpShape, Files, Known, Alone

(* A request that neither begins to make a key nor to replace one leaves   *)
(* the others alone, where the row and the files stay as they are.         *)
LEMMA OthersSpared ==
  ASSUME Ops, Files, NEW o \in Operator, NEW s \in Server,
         \A q \in Operator \ {o} : op'[q] = op[q],
         rows'[s] = rows[s], keys'[s] = keys[s], staging'[s] = staging[s],
         s \in raced' <=> s \in raced, issued \subseteq issued',
         op[o].id = s \/ (~ Makes(o)' /\ ~ Rotates(o)'),
         Makes(o)' => Makes(o), Rotates(o)' => Rotates(o)
  PROVE  Spares(o, s)
<1>1. SUFFICES ASSUME NEW q \in Operator \ {o}, op[q].id = s
               PROVE  /\ InHand(q)'
                      /\ ~ (Makes(o)' /\ Makes(q))
                      /\ s \notin raced' => ~ (Rotates(o)' /\ Rotates(q))
  BY DEF Spares
<1>2. InHand(q) /\ op'[q] = op[q]
  BY DEF Files
<1>3. InHand(q)'
  BY <1>1, <1>2 DEF InHand, Makes, Rotates, Whole, Exists, Settled
<1>4. op[o].id = s => /\ ~ (Makes(o) /\ Makes(q))
                      /\ s \notin raced => ~ (Rotates(o) /\ Rotates(q))
  BY <1>1 DEF Files, Alone
<1>. QED  BY <1>3, <1>4

(* A request that is done with the files of its server, or never had to do *)
(* with them, and leaves the path of its key in the row.                   *)
LEMMA RowTouched ==
  ASSUME Ops, Files, NEW o \in Operator, NEW s \in Server, s \in issued,
         UNCHANGED <<issued, keys, staging, told, made, raced, abandoned>>,
         op[o].at # "idle" => op[o].id = s, op'[o].at # "idle" => op'[o].id = s,
         \A q \in Operator \ {o} : op'[q] = op[q],
         \A t \in Server \ {s} : rows'[t] = rows[t],
         Exists(s)' => Exists(s) /\ rows'[s].path = rows[s].path,
         ~ Makes(o), ~ Rotates(o), ~ Makes(o)', ~ Rotates(o)', InHand(o)'
  PROVE  Files'
<1>1. FileShape /\ Known /\ ServerKeyed(s)
  BY DEF Files
<1>2. Touches(o, s)
  BY <1>1 DEF Touches, FileShape, Known, Exists
<1>3. Spares(o, s)
  <2>1. SUFFICES ASSUME NEW q \in Operator \ {o}, op[q].id = s
                 PROVE  InHand(q)'
    BY DEF Spares
  <2>2. InHand(q) /\ op'[q] = op[q]
    BY DEF Files
  <2>. QED  BY <2>1, <2>2 DEF InHand, Makes, Rotates, Whole, Settled
<1>4. ServerKeyed(s)'
  <2>1. Making(s)' <=> Making(s)
    BY DEF Making, Makes
  <2>2. Replacing(s)' <=> Replacing(s)
    BY DEF Replacing, Rotates, At, Whole
  <2>. QED  BY <1>1, <2>1, <2>2 DEF ServerKeyed, Whole
<1>. QED  BY <1>2, <1>3, <1>4, FilesTouched

LEMMA RequestKeys ==
  ASSUME IInv, KeysInv, NEW o \in Operator, NEW s, op[o].id = s, Steps(o)
  PROVE  Files'
<1>0. Ops /\ Files /\ Table
  BY DEF IInv, KeysInv
<1>1. CASE RemoveFromPool(o)
  <2>1. /\ op[o].at = "remove"
        /\ UNCHANGED <<rows, issued, keys, staging, made, raced, abandoned>>
        /\ told' = IF Whole(op[o].key) THEN [told EXCEPT ![s] = op[o].key] ELSE told
    BY <1>1 DEF RemoveFromPool, At
  <2>2. /\ s \in Server /\ s \in issued /\ InHand(o) /\ ServerKeyed(s) /\ FileShape /\ Known
        /\ DOMAIN op = Operator /\ DOMAIN op[o] = OpFields
    BY <1>0, <2>1, HandsOf
  <2>3. op' = [op EXCEPT ![o] = NoOp] \/ op' = [op EXCEPT ![o].at = "test"]
    BY <1>1 DEF RemoveFromPool, End, Goto
  <2>4. /\ op'[o].at = "idle" \/ (op'[o].at = "test" /\ op'[o].id = s)
        /\ \A q \in Operator \ {o} : op'[q] = op[q]
    BY <2>2, <2>3 DEF NoOp, OpFields
  <2>5. ~ Makes(o)' /\ ~ Rotates(o)' /\ InHand(o)'
    BY <2>4 DEF Makes, Rotates, InHand
  <2>6. Touches(o, s)
    BY <2>1, <2>2, <2>4 DEF Touches, FileShape, Known, Exists
  <2>7. Spares(o, s)
    BY <1>0, <2>1, <2>2, <2>4, <2>5, OthersSpared
  <2>8. ServerKeyed(s)'
    <3>1. Making(s)' <=> Making(s)
      BY <2>1, <2>4 DEF Making
    <3>2. Replacing(s)' \/ ~ Replacing(s) \/ (Whole(op[o].key) /\ (Exists(s) /\ s \notin raced => keys[s] = told'[s]))
      <4>1. Whole(op[o].key) => told'[s] = op[o].key /\ (Exists(s) /\ s \notin raced => keys[s] = op[o].key)
        BY <2>1, <2>2 DEF InHand, FileShape
      <4>2. Whole(op[o].key) \/ Replacing(s)' \/ ~ Replacing(s)
        BY <2>1, <2>4 DEF Replacing, At, Whole
      <4>. QED  BY <4>1, <4>2
    <3>3. told'[s] = told[s] \/ (Exists(s) /\ s \notin raced => keys[s] = told'[s])
      BY <2>1, <2>2 DEF InHand, FileShape
    <3>. QED  BY <2>1, <2>2, <3>1, <3>2, <3>3 DEF ServerKeyed, Exists, Whole
  <2>. QED  BY <1>0, <2>2, <2>5, <2>6, <2>7, <2>8, FilesTouched
<1>2. CASE MakeSecret(o)
  <2>1. /\ op[o].at = "secret"
        /\ UNCHANGED <<rows, issued, staging, told, raced, abandoned>>
    BY <1>2 DEF MakeSecret, At
  <2>2. /\ s \in Server /\ s \in issued /\ InHand(o) /\ ServerKeyed(s) /\ FileShape /\ Known
        /\ DOMAIN op = Operator /\ DOMAIN op[o] = OpFields
    BY <1>0, <2>1, HandsOf
  <2>3. \/ /\ made' = made + 1 /\ keys' = [keys EXCEPT ![s] = made + 1]
           /\ op' = [op EXCEPT ![o].at = "path", ![o].key = made + 1]
        \/ keys' = keys /\ made' = made /\ op' = [op EXCEPT ![o].at = "discard"]
    BY <1>2 DEF MakeSecret, Goto
  <2>4. /\ op'[o].id = s /\ \A q \in Operator \ {o} : op'[q] = op[q]
        /\ \/ op'[o].at = "path" /\ op'[o].key = made + 1 /\ keys'[s] = made + 1
           \/ op'[o].at = "discard"
        /\ \A t \in Server \ {s} : keys'[t] = keys[t]
    BY <2>2, <2>3 DEF OpFields, FileShape
  <2>5. Makes(o) /\ Makes(o)' /\ ~ Rotates(o)' /\ (Exists(s) => ~ rows[s].path)
    BY <2>1, <2>2, <2>4 DEF Makes, Rotates, InHand
  <2>6. InHand(o)'
    BY <2>1, <2>2, <2>4, <2>5 DEF InHand, Exists, FileShape, Whole, Rotates
  <2>7. Touches(o, s)
    BY <2>1, <2>2, <2>3, <2>4 DEF Touches, FileShape, Known, Exists
  <2>8. Spares(o, s)
    <3>1. SUFFICES ASSUME NEW q \in Operator \ {o}, op[q].id = s
                   PROVE  InHand(q)' /\ ~ Makes(q)
      BY <2>5 DEF Spares
    <3>2. InHand(q) /\ ~ Makes(q) /\ op'[q] = op[q]
      BY <1>0, <2>1, <2>4, <2>5, <3>1, HandsOf
    <3>3. op[q].at # "path" /\ (Rotates(q) => ~ Exists(s))
      BY <2>5, <3>1, <3>2 DEF InHand, Makes, Settled
    <3>4. op[q].at = "remove" /\ Whole(op[q].key) => Rotates(q)
      BY DEF Rotates
    <3>. QED  BY <2>1, <3>1, <3>2, <3>3, <3>4 DEF InHand, Makes, Rotates, Whole, Exists, Settled
  <2>9. ServerKeyed(s)'
    BY <2>1, <2>4, <2>5 DEF ServerKeyed, Exists, Making
  <2>. QED  BY <1>0, <2>2, <2>6, <2>7, <2>8, <2>9, FilesTouched
<1>3. CASE SetKeyPath(o)
  <2>1. /\ op[o].at = "path"
        /\ UNCHANGED <<issued, keys, staging, made, raced, abandoned>>
    BY <1>3 DEF SetKeyPath, At
  <2>2. /\ s \in Server /\ s \in issued /\ InHand(o) /\ ServerKeyed(s) /\ FileShape /\ Known
        /\ DOMAIN op = Operator /\ DOMAIN op[o] = OpFields
    BY <1>0, <2>1, HandsOf
  <2>3. CASE Exists(s) /\ ~op[o].gone
    <3>1. /\ rows' = [rows EXCEPT ![s].path = TRUE] /\ told' = [told EXCEPT ![s] = op[o].key]
          /\ op' = [op EXCEPT ![o] = NoOp]
      BY <1>3, <2>3 DEF SetKeyPath, End
    <3>2. rows'[s].path = TRUE /\ \A t \in Server \ {s} : rows'[t] = rows[t]
      BY <1>0, <2>2, <2>3, <3>1 DEF Table, TableShape, RowFields
    <3>3. told'[s] = op[o].key /\ DOMAIN told' = Server /\ \A t \in Server \ {s} : told'[t] = told[t]
      BY <2>2, <3>1 DEF FileShape
    <3>4. op'[o].at = "idle" /\ \A q \in Operator \ {o} : op'[q] = op[q]
      BY <2>2, <3>1 DEF NoOp
    <3>5. keys[s] = op[o].key /\ Whole(keys[s])
      BY <2>1, <2>2, <2>3 DEF InHand
    <3>6. Makes(o) /\ ~ Makes(o)' /\ ~ Rotates(o)' /\ InHand(o)'
      BY <2>1, <3>4 DEF Makes, Rotates, InHand
    <3>7. Touches(o, s)
      BY <2>1, <2>2, <3>2, <3>3, <3>4 DEF Touches, FileShape, Known, Exists
    <3>8. Spares(o, s)
      <4>1. SUFFICES ASSUME NEW q \in Operator \ {o}, op[q].id = s
                     PROVE  InHand(q)'
        BY <3>6 DEF Spares
      <4>2. InHand(q) /\ ~ Makes(q) /\ op'[q] = op[q]
        BY <1>0, <2>1, <3>4, <3>6, <4>1, HandsOf
      <4>3. op[q].at # "path" /\ op[q].at # "key"
        BY <2>3, <4>1, <4>2 DEF InHand, Makes
      <4>4. Settled(s)'
        BY <2>1, <2>2, <3>2 DEF Settled
      <4>. QED  BY <2>1, <2>3, <4>1, <4>2, <4>3, <4>4 DEF InHand, Makes, Rotates, Whole
    <3>9. ServerKeyed(s)'
      BY <2>1, <3>2, <3>3, <3>5 DEF ServerKeyed, Whole
    <3>. QED  BY <1>0, <2>2, <3>6, <3>7, <3>8, <3>9, FilesTouched
  <2>4. CASE ~(Exists(s) /\ ~op[o].gone)
    <3>1. rows' = rows /\ told' = told /\ op' = [op EXCEPT ![o].at = "undo"]
      BY <1>3, <2>4 DEF SetKeyPath, Goto
    <3>2. op'[o].at = "undo" /\ op'[o].id = s /\ \A q \in Operator \ {o} : op'[q] = op[q]
      BY <2>2, <3>1 DEF OpFields
    <3>3. Makes(o) /\ Makes(o)' /\ ~ Rotates(o)'
      BY <2>1, <3>2 DEF Makes, Rotates
    <3>4. InHand(o)'
      BY <2>1, <2>2, <3>1, <3>2, <3>3 DEF InHand, Exists
    <3>5. Touches(o, s)
      BY <2>1, <2>2, <3>1, <3>2 DEF Touches, FileShape, Known, Exists
    <3>6. Spares(o, s)
      BY <1>0, <2>1, <2>2, <3>1, <3>2, <3>3, OthersSpared
    <3>7. ServerKeyed(s)'
      <4>1. Making(s)'
        BY <3>2 DEF Making
      <4>2. Replacing(s) => Replacing(s)'
        BY <2>1, <3>2 DEF Replacing, At, Whole
      <4>. QED  BY <2>1, <2>2, <3>1, <4>1, <4>2 DEF ServerKeyed, Exists, Whole
    <3>. QED  BY <1>0, <2>2, <3>4, <3>5, <3>6, <3>7, FilesTouched
  <2>. QED  BY <2>3, <2>4
<1>4. CASE RemoveKey(o)
  <2>1. /\ op[o].at = "undo" /\ keys' = [keys EXCEPT ![s] = NoFile] /\ op' = [op EXCEPT ![o].at = "discard"]
        /\ UNCHANGED <<rows, issued, staging, told, made, raced, abandoned>>
    BY <1>4 DEF RemoveKey, At, Goto
  <2>2. /\ s \in Server /\ s \in issued /\ InHand(o) /\ ServerKeyed(s) /\ FileShape /\ Known
        /\ DOMAIN op = Operator /\ DOMAIN op[o] = OpFields
    BY <1>0, <2>1, HandsOf
  <2>3. /\ op'[o].id = s /\ op'[o].at = "discard" /\ \A q \in Operator \ {o} : op'[q] = op[q]
        /\ \A t \in Server \ {s} : keys'[t] = keys[t]
    BY <2>1, <2>2 DEF OpFields, FileShape
  <2>4. Makes(o) /\ Makes(o)' /\ ~ Rotates(o)' /\ (Exists(s) => ~ rows[s].path)
    BY <2>1, <2>2, <2>3 DEF Makes, Rotates, InHand
  <2>5. InHand(o)'
    BY <2>1, <2>3, <2>4 DEF InHand, Exists
  <2>6. Touches(o, s)
    BY <2>1, <2>2, <2>3 DEF Touches, FileShape, Known, Exists
  <2>7. Spares(o, s)
    <3>1. SUFFICES ASSUME NEW q \in Operator \ {o}, op[q].id = s
                   PROVE  InHand(q)' /\ ~ Makes(q)
      BY <2>4 DEF Spares
    <3>2. InHand(q) /\ ~ Makes(q) /\ op'[q] = op[q]
      BY <1>0, <2>1, <2>3, <2>4, <3>1, HandsOf
    <3>3. op[q].at # "path" /\ (Rotates(q) => ~ Exists(s))
      BY <2>4, <3>1, <3>2 DEF InHand, Makes, Settled
    <3>4. op[q].at = "remove" /\ Whole(op[q].key) => Rotates(q)
      BY DEF Rotates
    <3>. QED  BY <2>1, <3>1, <3>2, <3>3, <3>4 DEF InHand, Makes, Rotates, Whole, Exists, Settled
  <2>8. ServerKeyed(s)'
    BY <2>1, <2>3, <2>4 DEF ServerKeyed, Exists, Making
  <2>. QED  BY <1>0, <2>2, <2>5, <2>6, <2>7, <2>8, FilesTouched
<1>5. CASE Discard(o)
  <2>1. /\ op[o].at = "discard" /\ op' = [op EXCEPT ![o] = NoOp]
        /\ UNCHANGED <<issued, keys, staging, told, made, raced>>
    BY <1>5 DEF Discard, At, End
  <2>2. /\ s \in Server /\ s \in issued /\ InHand(o) /\ ServerKeyed(s) /\ FileShape /\ Known
        /\ DOMAIN op = Operator /\ DOMAIN op[o] = OpFields
    BY <1>0, <2>1, HandsOf
  <2>3. /\ op'[o].at = "idle" /\ \A q \in Operator \ {o} : op'[q] = op[q]
    BY <2>1, <2>2 DEF NoOp
  <2>4. Makes(o) /\ ~ Makes(o)' /\ ~ Rotates(o)' /\ InHand(o)' /\ (Exists(s) => ~ rows[s].path)
    BY <2>1, <2>2, <2>3 DEF Makes, Rotates, InHand
  <2>5. /\ \/ rows' = rows /\ (Exists(s) => s \in abandoned')
           \/ rows' = [rows EXCEPT ![s] = None]
        /\ abandoned \subseteq abandoned'
    BY <1>5 DEF Discard
  <2>6. /\ rows'[s] = None \/ (rows'[s] = rows[s] /\ (Exists(s) => s \in abandoned'))
        /\ \A t \in Server \ {s} : rows'[t] = rows[t]
    BY <1>0, <2>2, <2>5 DEF Table, TableShape
  <2>7. Touches(o, s)
    BY <2>1, <2>2, <2>3, <2>5, <2>6 DEF Touches, FileShape, Known, Exists
  <2>8. Spares(o, s)
    <3>1. SUFFICES ASSUME NEW q \in Operator \ {o}, op[q].id = s
                   PROVE  InHand(q)'
      BY <2>4 DEF Spares
    <3>2. InHand(q) /\ op'[q] = op[q]
      BY <1>0, <2>1, <2>3, <3>1, HandsOf
    <3>. QED  BY <2>1, <2>6, <3>1, <3>2 DEF InHand, Makes, Rotates, Whole, Exists, Settled
  <2>9. ServerKeyed(s)'
    BY <2>4, <2>6 DEF ServerKeyed, Exists
  <2>. QED  BY <1>0, <2>2, <2>4, <2>7, <2>8, <2>9, FilesTouched
<1>6. CASE OpenStaging(o)
  <2>1. /\ op[o].at = "stage" /\ staging' = [staging EXCEPT ![s] = Part]
        /\ op' = [op EXCEPT ![o].at = "write", ![o].fd = "staging"]
        /\ UNCHANGED <<rows, issued, keys, told, made, raced, abandoned>>
    BY <1>6 DEF OpenStaging, At
  <2>2. /\ s \in Server /\ s \in issued /\ InHand(o) /\ ServerKeyed(s) /\ FileShape /\ Known
        /\ DOMAIN op = Operator /\ DOMAIN op[o] = OpFields
    BY <1>0, <2>1, HandsOf
  <2>3. /\ op'[o].id = s /\ op'[o].at = "write" /\ op'[o].fd = "staging"
        /\ \A q \in Operator \ {o} : op'[q] = op[q]
        /\ \A t \in Server \ {s} : staging'[t] = staging[t]
    BY <2>1, <2>2 DEF OpFields, FileShape
  <2>4. Rotates(o) /\ Rotates(o)' /\ ~ Makes(o)' /\ Settled(s)
    BY <2>1, <2>2, <2>3 DEF Makes, Rotates, InHand
  <2>5. InHand(o)'
    BY <2>1, <2>3, <2>4 DEF InHand, Exists, Settled
  <2>6. Touches(o, s)
    BY <2>1, <2>2, <2>3 DEF Touches, FileShape, Known, Exists
  <2>7. Spares(o, s)
    <3>1. SUFFICES ASSUME NEW q \in Operator \ {o}, op[q].id = s
                   PROVE  InHand(q)' /\ (s \notin raced' => ~ Rotates(q))
      BY <2>4 DEF Spares
    <3>2. InHand(q) /\ (s \notin raced => ~ Rotates(q))
      BY <1>0, <2>1, <2>4, <3>1, HandsOf
    <3>3. op[q].at = "path" => ~ Exists(s)
      BY <2>4, <3>1, <3>2 DEF InHand, Makes, Settled
    <3>4. /\ s \notin raced => op[q].at \notin {"write", "rename"}
          /\ s \notin raced => ~ (op[q].at = "remove" /\ Whole(op[q].key))
      BY <3>2 DEF Rotates
    <3>5. op'[q] = op[q] /\ (Makes(q)' <=> Makes(q)) /\ (Rotates(q)' <=> Rotates(q))
      BY <2>3 DEF Makes, Rotates, Whole
    <3>. QED  BY <2>1, <3>1, <3>2, <3>3, <3>4, <3>5 DEF InHand, Whole, Exists, Settled
  <2>8. ServerKeyed(s)'
    <3>1. (Making(s)' <=> Making(s)) /\ (Replacing(s)' <=> Replacing(s))
      BY <2>1, <2>3 DEF Making, Replacing, At, Whole
    <3>. QED  BY <2>1, <2>2, <3>1 DEF ServerKeyed, Exists, Whole
  <2>. QED  BY <1>0, <2>2, <2>5, <2>6, <2>7, <2>8, FilesTouched
<1>7. CASE WriteStaging(o)
  <2>1. /\ op[o].at = "write"
        /\ UNCHANGED <<rows, issued, told, raced, abandoned>>
    BY <1>7 DEF WriteStaging, At
  <2>2. /\ s \in Server /\ s \in issued /\ InHand(o) /\ ServerKeyed(s) /\ FileShape /\ Known
        /\ DOMAIN op = Operator /\ DOMAIN op[o] = OpFields
    BY <1>0, <2>1, HandsOf
  <2>3. Rotates(o) /\ Settled(s) /\ (s \notin raced => op[o].fd = "staging") /\ ~ Makes(o)
    BY <2>1, <2>2 DEF Makes, Rotates, InHand
  <2>4. CASE /\ made' = made + 1
             /\ staging' = IF op[o].fd = "staging" THEN [staging EXCEPT ![s] = made + 1] ELSE staging
             /\ keys' = IF op[o].fd = "key" THEN [keys EXCEPT ![s] = made + 1] ELSE keys
             /\ op' = [op EXCEPT ![o].at = "rename", ![o].key = made + 1]
    <3>1. /\ op'[o].id = s /\ op'[o].at = "rename" /\ op'[o].key = made + 1 /\ Whole(made + 1)
          /\ \A q \in Operator \ {o} : op'[q] = op[q]
          /\ \A t \in Server \ {s} : staging'[t] = staging[t] /\ keys'[t] = keys[t]
          /\ s \notin raced => staging'[s] = made + 1 /\ keys'[s] = keys[s]
          /\ DOMAIN keys' = Server /\ DOMAIN staging' = Server
      BY <2>2, <2>3, <2>4 DEF OpFields, FileShape, Whole
    <3>2. InHand(o)'
      BY <2>1, <2>3, <3>1 DEF InHand, Exists, Settled, Makes
    <3>3. Touches(o, s)
      BY <2>1, <2>2, <2>4, <3>1 DEF Touches, FileShape, Known, Exists
    <3>4. Spares(o, s)
    <4>1. SUFFICES ASSUME NEW q \in Operator \ {o}, op[q].id = s
                   PROVE  InHand(q)' /\ (s \notin raced' => ~ Rotates(q))
      BY <2>1, <2>3, <3>1 DEF Spares, Makes
    <4>2. InHand(q) /\ (s \notin raced => ~ Rotates(q))
      BY <1>0, <2>1, <2>3, <3>1, <4>1, HandsOf
    <4>3. op[q].at = "path" => ~ Exists(s)
      BY <2>3, <3>1, <4>1, <4>2 DEF InHand, Makes, Settled
    <4>4. /\ s \notin raced => op[q].at \notin {"write", "rename"}
          /\ s \notin raced => ~ (op[q].at = "remove" /\ Whole(op[q].key))
      BY <4>2 DEF Rotates
      <4>. QED  BY <2>1, <3>1, <4>1, <4>2, <4>3, <4>4 DEF InHand, Makes, Rotates, Whole, Exists, Settled
    <3>5. ServerKeyed(s)'
      <4>1. (Making(s)' <=> Making(s)) /\ (Replacing(s)' <=> Replacing(s))
        BY <2>1, <3>1 DEF Making, Replacing, At, Whole
      <4>. QED  BY <2>1, <2>2, <2>3, <3>1, <4>1 DEF ServerKeyed, Exists, Whole, Settled
    <3>. QED  BY <1>0, <2>2, <3>2, <3>3, <3>4, <3>5, FilesTouched
  <2>5. CASE /\ staging' = [staging EXCEPT ![s] = NoFile] /\ keys' = keys /\ made' = made
             /\ op' = [x \in Operator |->
                         IF x = o THEN NoOp
                         ELSE IF op[x].id = s /\ op[x].fd = "staging" THEN [op[x] EXCEPT !.fd = "none"]
                         ELSE op[x]]
    <3>1. /\ op'[o].at = "idle"
          /\ \A q \in Operator \ {o} :
               /\ op'[q].id = op[q].id /\ op'[q].at = op[q].at /\ op'[q].key = op[q].key
               /\ op[q].id # s => op'[q].fd = op[q].fd
      BY <1>0, <2>5 DEF NoOp, Ops, OpShape, OpFields
    <3>2. \A t \in Server \ {s} : staging'[t] = staging[t]
      BY <2>2, <2>5 DEF FileShape
    <3>3. ~ Makes(o)' /\ ~ Rotates(o)' /\ InHand(o)'
      BY <3>1 DEF InHand, Makes, Rotates
    <3>4. Touches(o, s)
      BY <2>1, <2>2, <2>5, <3>1, <3>2 DEF Touches, FileShape, Known, Exists
    <3>5. Spares(o, s)
    <4>1. SUFFICES ASSUME NEW q \in Operator \ {o}, op[q].id = s
                   PROVE  InHand(q)'
      BY <3>3 DEF Spares
    <4>2. InHand(q) /\ (s \notin raced => ~ Rotates(q))
      BY <1>0, <2>1, <2>3, <4>1, HandsOf
    <4>3. op[q].at = "path" => ~ Exists(s)
      BY <2>3, <4>1, <4>2 DEF InHand, Makes, Settled
    <4>4. /\ s \notin raced => op[q].at \notin {"write", "rename"}
          /\ s \notin raced => ~ (op[q].at = "remove" /\ Whole(op[q].key))
      BY <4>2 DEF Rotates
      <4>. QED  BY <2>1, <2>5, <3>1, <4>1, <4>2, <4>3, <4>4 DEF InHand, Makes, Rotates, Whole, Exists, Settled
    <3>6. ServerKeyed(s)'
      <4>1. Making(s)' <=> Making(s)
        BY <2>1, <3>1 DEF Making
      <4>3. Replacing(s)' <=> Replacing(s)
        BY <2>1, <3>1 DEF Replacing, At, Whole
      <4>. QED  BY <2>1, <2>2, <2>5, <4>1, <4>3 DEF ServerKeyed, Exists, Whole
    <3>. QED  BY <1>0, <2>2, <3>3, <3>4, <3>5, <3>6, FilesTouched
  <2>. QED  BY <1>7, <2>4, <2>5 DEF WriteStaging
<1>8. CASE Rename(o)
  <2>1. /\ op[o].at = "rename"
        /\ UNCHANGED <<rows, issued, told, made, raced, abandoned>>
    <3>1. op[o].at = "rename"
      BY <1>8, Zenon DEF Rename, At
    <3>2. UNCHANGED <<rows, issued, made, pool, installed, cache, budget, shown, told, raced, abandoned>>
      BY <1>8, Zenon DEF Rename
    <3>. QED  BY <3>1, <3>2
  <2>2. /\ s \in Server /\ s \in issued /\ InHand(o) /\ ServerKeyed(s) /\ FileShape /\ Known
        /\ DOMAIN op = Operator /\ DOMAIN op[o] = OpFields
    BY <1>0, <2>1, HandsOf
  <2>3. /\ Rotates(o) /\ Settled(s) /\ ~ Makes(o)
        /\ s \notin raced => staging[s] = op[o].key
        /\ Whole(op[o].key)
    BY <2>1, <2>2 DEF Makes, Rotates, InHand
  <2>4. CASE /\ keys' = [keys EXCEPT ![s] = staging[s]] /\ staging' = [staging EXCEPT ![s] = NoFile]
             /\ op' = [x \in Operator |->
                         IF x = o THEN [op[x] EXCEPT !.at = "remove", !.fd = "none"]
                         ELSE IF op[x].id = s /\ op[x].fd = "staging" THEN [op[x] EXCEPT !.fd = "key"]
                         ELSE op[x]]
    <3>1. /\ op'[o].at = "remove" /\ op'[o].id = s /\ op'[o].key = op[o].key
          /\ \A q \in Operator \ {o} :
               /\ op'[q].id = op[q].id /\ op'[q].at = op[q].at /\ op'[q].key = op[q].key
               /\ op[q].id # s => op'[q].fd = op[q].fd
      <4>1. op'[o] = [op[o] EXCEPT !.at = "remove", !.fd = "none"]
        BY <2>4, Zenon
      <4>2. op'[o].at = "remove" /\ op'[o].id = s /\ op'[o].key = op[o].key
        BY <2>2, <4>1 DEF OpFields
      <4>3. \A q \in Operator \ {o} : op'[q] = op[q] \/ (op[q].id = s /\ op'[q] = [op[q] EXCEPT !.fd = "key"])
        BY <2>4, Zenon
      <4>4. \A q \in Operator : DOMAIN op[q] = OpFields
        BY <1>0 DEF Ops, OpShape
      <4>. QED  BY <4>2, <4>3, <4>4 DEF OpFields
    <3>2. /\ \A t \in Server \ {s} : staging'[t] = staging[t] /\ keys'[t] = keys[t]
          /\ keys'[s] = staging[s] /\ DOMAIN keys' = Server /\ DOMAIN staging' = Server
      <4>1. keys' = [keys EXCEPT ![s] = staging[s]] /\ staging' = [staging EXCEPT ![s] = NoFile]
        BY <2>4, Zenon
      <4>. QED  BY <2>2, <4>1 DEF FileShape
    <3>3. ~ Makes(o)' /\ Rotates(o)' /\ InHand(o)'
      BY <2>1, <2>3, <3>1, <3>2 DEF InHand, Makes, Rotates, Whole, Exists, Settled
    <3>4. Touches(o, s)
      BY <2>1, <2>2, <3>1, <3>2 DEF Touches, FileShape, Known, Exists
    <3>5. Spares(o, s)
      <4>1. SUFFICES ASSUME NEW q \in Operator \ {o}, op[q].id = s
                     PROVE  InHand(q)' /\ (s \notin raced => ~ Rotates(q))
        BY <2>1, <3>3 DEF Spares
      <4>2. InHand(q) /\ (s \notin raced => ~ Rotates(q))
        BY <1>0, <2>1, <2>3, <4>1, HandsOf
      <4>3. op[q].at = "path" => ~ Exists(s)
        BY <2>3, <4>1, <4>2 DEF InHand, Makes, Settled
      <4>4. /\ s \notin raced => op[q].at \notin {"write", "rename"}
            /\ s \notin raced => ~ (op[q].at = "remove" /\ Whole(op[q].key))
        BY <4>2 DEF Rotates
      <4>5. /\ op'[q].id = s /\ op'[q].at = op[q].at /\ op'[q].key = op[q].key
            /\ Makes(q)' <=> Makes(q)
            /\ Rotates(q)' <=> Rotates(q)
        BY <3>1, <4>1 DEF Makes, Rotates, Whole
      <4>. QED  BY <2>1, <4>1, <4>2, <4>3, <4>4, <4>5 DEF InHand, Whole, Exists, Settled
    <3>6. ServerKeyed(s)'
      <4>1. Making(s)' <=> Making(s)
        BY <2>1, <3>1 DEF Making
      <4>2. Replacing(s)'
        BY <2>3, <3>1 DEF Replacing, At, Whole
      <4>. QED  BY <2>1, <2>2, <2>3, <3>2, <4>1, <4>2 DEF ServerKeyed, Exists, Whole
    <3>. QED  BY <1>0, <2>2, <3>3, <3>4, <3>5, <3>6, FilesTouched
  <2>5. CASE End(o) /\ UNCHANGED <<keys, staging>>
    <3>1. /\ op'[o].at = "idle" /\ \A q \in Operator \ {o} : op'[q] = op[q]
      BY <2>2, <2>5 DEF End, NoOp
    <3>2. ~ Makes(o)' /\ ~ Rotates(o)' /\ InHand(o)'
      BY <3>1 DEF InHand, Makes, Rotates
    <3>3. Touches(o, s)
      BY <2>1, <2>2, <2>5, <3>1 DEF Touches, FileShape, Known, Exists
    <3>4. Spares(o, s)
      BY <1>0, <2>1, <2>2, <2>5, <3>1, <3>2, OthersSpared
    <3>5. ServerKeyed(s)'
      <4>1. Making(s)' <=> Making(s)
        BY <2>1, <3>1 DEF Making
      <4>2. Replacing(s)' <=> Replacing(s)
        BY <2>1, <3>1 DEF Replacing, At, Whole
      <4>. QED  BY <2>1, <2>2, <2>5, <4>1, <4>2 DEF ServerKeyed, Exists, Whole
    <3>. QED  BY <1>0, <2>2, <3>2, <3>3, <3>4, <3>5, FilesTouched
  <2>. QED  BY <1>8, <2>4, <2>5, Zenon DEF Rename
<1>9. CASE DeleteRow(o)
  <2>1. /\ op[o].at = "row"
        /\ UNCHANGED <<issued, keys, staging, told, made, raced, abandoned>>
        /\ \/ rows' = [rows EXCEPT ![s] = None] /\ op' = [op EXCEPT ![o].at = "key"]
           \/ rows' = rows /\ op' = [op EXCEPT ![o] = NoOp]
    BY <1>9 DEF DeleteRow, At, End, Goto
  <2>2. /\ s \in Server /\ s \in issued /\ InHand(o) /\ ServerKeyed(s) /\ FileShape /\ Known
        /\ DOMAIN op = Operator /\ DOMAIN op[o] = OpFields
    BY <1>0, <2>1, HandsOf
  <2>3. /\ \/ rows'[s] = None /\ op'[o].at = "key" /\ op'[o].id = s
           \/ rows' = rows /\ op'[o].at = "idle"
        /\ \A q \in Operator \ {o} : op'[q] = op[q]
        /\ \A t \in Server \ {s} : rows'[t] = rows[t]
    BY <1>0, <2>1, <2>2 DEF NoOp, OpFields, Table, TableShape
  <2>4. ~ Makes(o) /\ ~ Rotates(o) /\ ~ Makes(o)' /\ ~ Rotates(o)' /\ InHand(o)'
    BY <2>1, <2>3 DEF Makes, Rotates, InHand, Exists
  <2>. QED  BY <1>0, <2>1, <2>2, <2>3, <2>4, RowTouched DEF Exists
<1>10. CASE DeleteKey(o)
  <2>1. /\ op[o].at = "key" /\ op' = [op EXCEPT ![o] = NoOp]
        /\ UNCHANGED <<rows, issued, staging, told, made, raced, abandoned>>
        /\ keys' = keys \/ keys' = [keys EXCEPT ![s] = NoFile]
    BY <1>10 DEF DeleteKey, At, End
  <2>2. /\ s \in Server /\ s \in issued /\ InHand(o) /\ ServerKeyed(s) /\ FileShape /\ Known
        /\ DOMAIN op = Operator /\ DOMAIN op[o] = OpFields
    BY <1>0, <2>1, HandsOf
  <2>3. /\ op'[o].at = "idle" /\ \A q \in Operator \ {o} : op'[q] = op[q]
        /\ DOMAIN keys' = Server /\ \A t \in Server \ {s} : keys'[t] = keys[t]
        /\ ~ Exists(s)
    BY <2>1, <2>2 DEF NoOp, FileShape, InHand
  <2>4. ~ Makes(o)' /\ ~ Rotates(o)' /\ InHand(o)'
    BY <2>3 DEF InHand, Makes, Rotates
  <2>5. Touches(o, s)
    BY <2>1, <2>2, <2>3 DEF Touches, FileShape, Known, Exists
  <2>6. Spares(o, s)
    <3>1. SUFFICES ASSUME NEW q \in Operator \ {o}, op[q].id = s
                   PROVE  InHand(q)'
      BY <2>4 DEF Spares
    <3>2. InHand(q) /\ op'[q] = op[q]
      BY <1>0, <2>1, <2>3, <3>1, HandsOf
    <3>. QED  BY <2>1, <2>3, <3>1, <3>2 DEF InHand, Makes, Rotates, Whole, Exists, Settled
  <2>7. ServerKeyed(s)'
    BY <2>1, <2>3 DEF ServerKeyed, Exists
  <2>. QED  BY <1>0, <2>2, <2>4, <2>5, <2>6, <2>7, FilesTouched
<1>11. CASE Probe(o)
  <2>1. /\ op[o].at = "probe" /\ op' = [op EXCEPT ![o] = NoOp]
        /\ UNCHANGED <<rows, issued, keys, staging, told, made, raced, abandoned>>
    BY <1>11 DEF Probe, At, End
  <2>2. /\ s \in Server /\ s \in issued /\ InHand(o) /\ ServerKeyed(s) /\ FileShape /\ Known
        /\ DOMAIN op = Operator /\ DOMAIN op[o] = OpFields
    BY <1>0, <2>1, HandsOf
  <2>3. /\ op'[o].at = "idle" /\ \A q \in Operator \ {o} : op'[q] = op[q]
    BY <2>1, <2>2 DEF NoOp
  <2>4. ~ Makes(o) /\ ~ Rotates(o) /\ ~ Makes(o)' /\ ~ Rotates(o)' /\ InHand(o)'
    BY <2>1, <2>3 DEF Makes, Rotates, InHand
  <2>. QED  BY <1>0, <2>1, <2>2, <2>3, <2>4, RowTouched DEF Exists
<1>12. CASE SetHostKey(o)
  <2>1. /\ op[o].at = "trust"
        /\ UNCHANGED <<issued, keys, staging, told, made, raced, abandoned>>
        /\ \/ /\ Exists(s) /\ rows' = [rows EXCEPT ![s].hostKey = op[o].hostKey]
              /\ op' = [op EXCEPT ![o].at = "remove"]
           \/ rows' = rows /\ op' = [op EXCEPT ![o] = NoOp]
    BY <1>12 DEF SetHostKey, At, End, Goto
  <2>2. /\ s \in Server /\ s \in issued /\ InHand(o) /\ ServerKeyed(s) /\ FileShape /\ Known
        /\ DOMAIN op = Operator /\ DOMAIN op[o] = OpFields
    BY <1>0, <2>1, HandsOf
  <2>3. /\ op'[o].at = "idle" \/ (op'[o].at = "remove" /\ op'[o].id = s /\ op'[o].key = op[o].key)
        /\ \A q \in Operator \ {o} : op'[q] = op[q]
    BY <2>1, <2>2 DEF NoOp, OpFields
  <2>4. /\ rows' = rows \/ (Exists(s) /\ rows'[s].path = rows[s].path)
        /\ \A t \in Server \ {s} : rows'[t] = rows[t]
    BY <1>0, <2>1, <2>2 DEF Table, TableShape, RowFields
  <2>5. ~ Whole(op[o].key)
    BY <2>1, <2>2 DEF InHand
  <2>6. ~ Makes(o) /\ ~ Rotates(o) /\ ~ Makes(o)' /\ ~ Rotates(o)' /\ InHand(o)'
    BY <2>1, <2>3, <2>5 DEF Makes, Rotates, InHand, Whole
  <2>. QED  BY <1>0, <2>1, <2>2, <2>3, <2>4, <2>6, RowTouched DEF Exists
<1>13. CASE TestTrusted(o)
  <2>1. /\ op[o].at = "test"
        /\ UNCHANGED <<rows, issued, keys, staging, told, made, raced, abandoned>>
        /\ \/ op' = [op EXCEPT ![o].at = "probe", ![o].row = rows[s]]
           \/ op' = [op EXCEPT ![o] = NoOp]
    BY <1>13 DEF TestTrusted, At, End
  <2>2. /\ s \in Server /\ s \in issued /\ InHand(o) /\ ServerKeyed(s) /\ FileShape /\ Known
        /\ DOMAIN op = Operator /\ DOMAIN op[o] = OpFields
    BY <1>0, <2>1, HandsOf
  <2>3. /\ op'[o].at = "idle" \/ (op'[o].at = "probe" /\ op'[o].id = s)
        /\ \A q \in Operator \ {o} : op'[q] = op[q]
    BY <2>1, <2>2 DEF NoOp, OpFields
  <2>4. ~ Makes(o) /\ ~ Rotates(o) /\ ~ Makes(o)' /\ ~ Rotates(o)' /\ InHand(o)'
    BY <2>1, <2>3 DEF Makes, Rotates, InHand
  <2>. QED  BY <1>0, <2>1, <2>2, <2>3, <2>4, RowTouched DEF Exists
<1>. QED
  BY <1>1, <1>2, <1>3, <1>4, <1>5, <1>6, <1>7, <1>8, <1>9, <1>10, <1>11, <1>12, <1>13 DEF Steps

LEMMA BegunAt ==
  ASSUME Ops, NEW o \in Operator, NEW p, NEW s, Begin(o, p, s)
  PROVE  /\ op[o].at = "idle" /\ op'[o].at = p /\ op'[o].id = s /\ op'[o].key = NoFile
         /\ \A q \in Operator \ {o} : op'[q] = op[q]
<1>1. op' = [op EXCEPT ![o] = [NoOp EXCEPT !.at = p, !.id = s, !.row = rows[s]]] /\ op[o].at = "idle"
  BY DEF Begin, At
<1>2. DOMAIN op = Operator
  BY DEF Ops, OpShape
<1>. QED  BY <1>1, <1>2 DEF NoOp

LEMMA BeginKeys ==
  ASSUME IInv, KeysInv, NEW o \in Operator, NEW s \in Server, Begins(o, s)
  PROVE  Files'
<1>0. Ops /\ Files /\ Table /\ FileShape /\ Known /\ ServerKeyed(s)
  BY DEF IInv, KeysInv, Files
<1>1. ASSUME NEW h \in Host, CreateRow(o, s, h)
      PROVE  Files'
  <2>1. /\ s \notin issued /\ issued' = issued \cup {s}
        /\ UNCHANGED <<keys, staging, told, made, raced, abandoned>>
        /\ rows' = [rows EXCEPT ![s] = [host |-> h, hostKey |-> None, enabled |-> TRUE, path |-> FALSE]]
    BY <1>1 DEF CreateRow
  <2>2. /\ op[o].at = "idle" /\ op'[o].at = "secret" /\ op'[o].id = s
        /\ \A q \in Operator \ {o} : op'[q] = op[q]
    BY <1>0, <1>1, BegunAt DEF CreateRow
  <2>3. ~ rows'[s].path /\ \A t \in Server \ {s} : rows'[t] = rows[t]
    BY <1>0, <2>1 DEF Table, TableShape
  <2>4. \A q \in Operator : op[q].id = s => op[q].at = "idle"
    BY <1>0, <2>1 DEF Known
  <2>5. ~ Rotates(o)' /\ InHand(o)'
    BY <2>2, <2>3 DEF Rotates, InHand, Exists
  <2>6. Touches(o, s)
    BY <1>0, <2>1, <2>2, <2>3 DEF Touches, FileShape, Known, Exists
  <2>7. Spares(o, s)
    BY <2>2, <2>4, <2>5 DEF Spares, InHand, Makes, Rotates
  <2>8. ServerKeyed(s)'
    BY <2>2, <2>3 DEF ServerKeyed, Making
  <2>. QED  BY <1>0, <2>5, <2>6, <2>7, <2>8, FilesTouched
<1>2. ASSUME NEW h \in Host, NEW e \in BOOLEAN, UpdateRow(o, s, h, e)
      PROVE  Files'
  <2>1. /\ Exists(s) /\ rows' = [rows EXCEPT ![s].host = h, ![s].enabled = e]
        /\ UNCHANGED <<issued, keys, staging, told, made, raced, abandoned>>
    BY <1>2 DEF UpdateRow
  <2>2. /\ op[o].at = "idle" /\ op'[o].at = "remove" /\ op'[o].id = s /\ op'[o].key = NoFile
        /\ \A q \in Operator \ {o} : op'[q] = op[q]
    BY <1>0, <1>2, BegunAt DEF UpdateRow
  <2>3. rows'[s].path = rows[s].path /\ \A t \in Server \ {s} : rows'[t] = rows[t]
    BY <1>0, <2>1 DEF Table, TableShape, RowFields
  <2>4. s \in issued
    BY <1>0, <2>1 DEF Known
  <2>5. ~ Makes(o) /\ ~ Rotates(o) /\ ~ Makes(o)' /\ ~ Rotates(o)' /\ InHand(o)'
    BY <2>2 DEF Makes, Rotates, InHand, Whole, NoFile
  <2>. QED  BY <1>0, <2>1, <2>2, <2>3, <2>4, <2>5, RowTouched
<1>3. CASE RotateKey(o, s)
  <2>1. /\ Exists(s) /\ rows[s].path
        /\ raced' = IF Rotating(s) THEN raced \cup {s} ELSE raced
        /\ UNCHANGED <<rows, issued, keys, staging, told, made, abandoned>>
    BY <1>3 DEF RotateKey
  <2>2. /\ op[o].at = "idle" /\ op'[o].at = "stage" /\ op'[o].id = s
        /\ \A q \in Operator \ {o} : op'[q] = op[q]
    BY <1>0, <1>3, BegunAt DEF RotateKey
  <2>3. raced \subseteq raced' /\ raced' \subseteq raced \cup {s}
    BY <2>1
  <2>4. Settled(s)' /\ Settled(s)
    BY <1>0, <2>1 DEF Settled, Known, Exists
  <2>5. ~ Makes(o)' /\ InHand(o)'
    BY <2>2, <2>4 DEF Makes, Rotates, InHand
  <2>6. Touches(o, s)
    BY <1>0, <2>1, <2>2, <2>3, <2>4 DEF Touches, FileShape, Known, Exists, Settled
  <2>7. Spares(o, s)
    <3>1. SUFFICES ASSUME NEW q \in Operator \ {o}, op[q].id = s
                   PROVE  InHand(q)' /\ (s \notin raced' => ~ Rotates(q))
      BY <2>5 DEF Spares
    <3>2. InHand(q) /\ op'[q] = op[q]
      BY <1>0, <2>2 DEF Files
    <3>3. Rotates(q) => Rotating(s)
      BY <3>1 DEF Rotates, Rotating, Replacing, At
    <3>4. s \notin raced' => ~ Rotates(q)
      BY <2>1, <3>3
    <3>5. InHand(q)'
      BY <2>1, <2>3, <3>1, <3>2 DEF InHand, Makes, Rotates, Whole, Exists, Settled
    <3>. QED  BY <3>4, <3>5
  <2>8. ServerKeyed(s)'
    <3>1. Making(s)' <=> Making(s)
      BY <2>2 DEF Making
    <3>2. Replacing(s)' <=> Replacing(s)
      BY <2>2 DEF Replacing, At, Whole
    <3>. QED  BY <1>0, <2>1, <2>3, <3>1, <3>2 DEF ServerKeyed, Exists, Whole
  <2>. QED  BY <1>0, <2>5, <2>6, <2>7, <2>8, FilesTouched
<1>4. CASE Delete(o, s) \/ TestConnection(o, s)
  <2>1. Exists(s) /\ UNCHANGED <<rows, issued, keys, staging, told, made, raced, abandoned>>
    BY <1>4 DEF Delete, TestConnection
  <2>2. /\ op[o].at = "idle" /\ op'[o].at \in {"row", "probe"} /\ op'[o].id = s
        /\ \A q \in Operator \ {o} : op'[q] = op[q]
    BY <1>0, <1>4, BegunAt DEF Delete, TestConnection
  <2>3. s \in issued
    BY <1>0, <2>1 DEF Known
  <2>4. ~ Makes(o) /\ ~ Rotates(o) /\ ~ Makes(o)' /\ ~ Rotates(o)' /\ InHand(o)'
    BY <2>2 DEF Makes, Rotates, InHand
  <2>. QED  BY <1>0, <2>1, <2>2, <2>3, <2>4, RowTouched DEF Exists
<1>5. ASSUME NEW k, TrustHostKey(o, s, k)
      PROVE  Files'
  <2>1. /\ Exists(s) /\ op[o].at = "idle"
        /\ UNCHANGED <<rows, issued, keys, staging, told, made, raced, abandoned>>
        /\ op' = [op EXCEPT ![o] = [NoOp EXCEPT !.at = "trust", !.id = s, !.hostKey = HostKeyOf(rows[s].host)]]
    BY <1>5 DEF TrustHostKey, At
  <2>2. /\ op'[o].at = "trust" /\ op'[o].id = s /\ op'[o].key = NoFile
        /\ \A q \in Operator \ {o} : op'[q] = op[q]
    BY <1>0, <2>1 DEF Ops, OpShape, NoOp
  <2>3. s \in issued
    BY <1>0, <2>1 DEF Known
  <2>4. ~ Makes(o) /\ ~ Rotates(o) /\ ~ Makes(o)' /\ ~ Rotates(o)' /\ InHand(o)'
    BY <2>1, <2>2 DEF Makes, Rotates, InHand, Whole, NoFile
  <2>. QED  BY <1>0, <2>1, <2>2, <2>3, <2>4, RowTouched DEF Exists
<1>. QED  BY <1>1, <1>2, <1>3, <1>4, <1>5 DEF Begins

(* A step that has to do neither with the table nor with the files.        *)
LEMMA FilesStay ==
  ASSUME Files, UNCHANGED <<rows, issued, keys, staging, told, made, raced, abandoned>>,
         \A q \in Operator : /\ op'[q].id = op[q].id /\ op'[q].at = op[q].at
                             /\ op'[q].key = op[q].key /\ op'[q].fd = op[q].fd
  PROVE  Files'
<1>1. ASSUME NEW q \in Operator
      PROVE  /\ Makes(q)' <=> Makes(q)
             /\ Rotates(q)' <=> Rotates(q)
             /\ InHand(q)'
  <2>1. (Makes(q)' <=> Makes(q)) /\ (Rotates(q)' <=> Rotates(q)) /\ InHand(q)
    BY DEF Makes, Rotates, Whole, Files
  <2>. QED  BY <2>1 DEF InHand, Whole, Exists, Settled
<1>2. ASSUME NEW t \in Server
      PROVE  ServerKeyed(t)'
  <2>1. Making(t)' <=> Making(t)
    BY DEF Making
  <2>2. Replacing(t)' <=> Replacing(t)
    BY DEF Replacing, At, Whole
  <2>3. ServerKeyed(t)
    BY DEF Files
  <2>. QED  BY <2>1, <2>2, <2>3 DEF ServerKeyed, Exists, Whole
<1>3. FileShape' /\ Known'
  BY DEF Files, FileShape, Known, Exists
<1>4. Alone'
  BY <1>1 DEF Files, Alone
<1>. QED  BY <1>1, <1>2, <1>3, <1>4 DEF Files

-----------------------------------------------------------------------------
(* The connections.  A server that has its key keeps the path of it as     *)
(* long as it is there, and never comes back.                              *)
LEMMA RowsGoOn ==
  ASSUME IInv, KeysInv, InventoryNext
  PROVE  /\ issued \subseteq issued' /\ raced \subseteq raced'
         /\ \A s \in Server : Settled(s) => Settled(s)' /\ (Exists(s)' => Exists(s))
<1>0. Table /\ Ops
  BY DEF IInv
<1>. DEFINE Keeps == /\ issued \subseteq issued' /\ raced \subseteq raced'
                     /\ \A t \in Server : /\ t \in issued /\ Exists(t)' => Exists(t)
                                          /\ t \in issued /\ Exists(t)' /\ rows[t].path => rows'[t].path
<1>1. ASSUME UNCHANGED <<rows, issued>>, raced \subseteq raced'
      PROVE  Keeps
  BY <1>1 DEF Exists
<1>2. ASSUME NEW s \in Server, NEW r, Exists(s), rows[s].path => r.path,
             rows' = [rows EXCEPT ![s] = r], UNCHANGED <<issued, raced>>
      PROVE  Keeps
  BY <1>0, <1>2 DEF Table, TableShape, Exists
<1>3. ASSUME NEW s, rows' = [rows EXCEPT ![s] = None], UNCHANGED <<issued, raced>>
      PROVE  Keeps
  BY <1>0, <1>3 DEF Table, TableShape, Exists
<1>4. ASSUME NEW o \in Operator, Steps(o)
      PROVE  Keeps
  <2>0. op[o].at # "idle" => op[o].id \in Server
    BY <1>0 DEF Ops, OpShape
  <2>1. CASE SetKeyPath(o)
    <3>1. CASE UNCHANGED rows
      BY <1>1, <2>1, <3>1 DEF SetKeyPath
    <3>2. CASE Exists(op[o].id) /\ rows' = [rows EXCEPT ![op[o].id].path = TRUE]
      <4>1. op[o].id \in Server
        BY <2>0, <2>1 DEF SetKeyPath, At
      <4>2. [rows[op[o].id] EXCEPT !.path = TRUE].path
        BY <1>0, <3>2, <4>1 DEF Table, TableShape, RowFields
      <4>. QED  BY <1>2, <2>1, <3>2, <4>1, <4>2 DEF SetKeyPath
    <3>. QED  BY <2>1, <3>1, <3>2 DEF SetKeyPath
  <2>2. CASE SetHostKey(o)
    <3>1. CASE UNCHANGED rows
      BY <1>1, <2>2, <3>1 DEF SetHostKey
    <3>2. CASE Exists(op[o].id) /\ rows' = [rows EXCEPT ![op[o].id].hostKey = op[o].hostKey]
      <4>1. op[o].id \in Server
        BY <2>0, <2>2 DEF SetHostKey, At
      <4>2. [rows[op[o].id] EXCEPT !.hostKey = op[o].hostKey].path = rows[op[o].id].path
        BY <1>0, <3>2, <4>1 DEF Table, TableShape, RowFields
      <4>. QED  BY <1>2, <2>2, <3>2, <4>1, <4>2 DEF SetHostKey
    <3>. QED  BY <2>2, <3>1, <3>2 DEF SetHostKey
  <2>3. CASE Discard(o) \/ DeleteRow(o)
    BY <1>1, <1>3, <2>3 DEF Discard, DeleteRow
  <2>4. CASE UNCHANGED <<rows, issued, raced>>
    BY <1>1, <2>4
  <2>. QED
    BY <1>4, <2>1, <2>2, <2>3, <2>4, Zenon
    DEF Steps, RemoveFromPool, MakeSecret, RemoveKey, OpenStaging, WriteStaging, Rename, DeleteKey,
        Probe, TestTrusted
<1>5. ASSUME NEW o \in Operator, NEW s \in Server, Begins(o, s)
      PROVE  Keeps
  <2>1. ASSUME NEW h, CreateRow(o, s, h)
        PROVE  Keeps
    <3>1. /\ s \notin issued /\ issued' = issued \cup {s} /\ raced' = raced
          /\ \A t \in Server \ {s} : rows'[t] = rows[t]
      BY <1>0, <2>1 DEF CreateRow, Table, TableShape
    <3>. QED  BY <3>1 DEF Exists
  <2>2. ASSUME NEW h, NEW e, UpdateRow(o, s, h, e)
        PROVE  Keeps
    <3>1. Exists(s) /\ rows' = [rows EXCEPT ![s].host = h, ![s].enabled = e] /\ UNCHANGED <<issued, raced>>
      BY <2>2 DEF UpdateRow
    <3>2. [rows[s] EXCEPT !.host = h, !.enabled = e].path = rows[s].path
      BY <1>0, <3>1 DEF Table, TableShape, RowFields
    <3>3. rows' = [rows EXCEPT ![s] = [rows[s] EXCEPT !.host = h, !.enabled = e]]
      BY <1>0, <3>1 DEF Table, TableShape
    <3>. QED  BY <1>2, <3>1, <3>2, <3>3
  <2>3. ASSUME UNCHANGED <<rows, issued>>, raced' = raced \/ raced' = raced \cup {s}
        PROVE  Keeps
    BY <1>1, <2>3
  <2>. QED
    BY <1>5, <2>1, <2>2, <2>3, Zenon DEF Begins, RotateKey, Delete, TestConnection, TrustHostKey
<1>6. ASSUME UNCHANGED <<rows, issued, raced>>
      PROVE  Keeps
  BY <1>1, <1>6
<1>7. Keeps
  BY <1>4, <1>5, <1>6, Zenon DEF InventoryNext, Leave, Reinstall
<1>. QED  BY <1>7 DEF Settled

(* A step that leaves the requests for the other servers what they are.    *)
LEMMA ReplacingGoesOn ==
  ASSUME NEW o \in Operator, NEW s,
         \A q \in Operator \ {o} :
           op'[q].id = op[q].id /\ op'[q].at = op[q].at /\ op'[q].key = op[q].key,
         op[o].id # s \/ op[o].at # "remove"
  PROVE  Replacing(s) => Replacing(s)'
<1>1. SUFFICES ASSUME Replacing(s) PROVE Replacing(s)'
  OBVIOUS
<1>2. PICK q \in Operator : op[q].id = s /\ Whole(op[q].key) /\ op[q].at = "remove"
  BY <1>1 DEF Replacing, At
<1>3. q # o
  BY <1>2
<1>. QED  BY <1>2, <1>3 DEF Replacing, At, Whole

(* What a step of a request leaves alone. *)
LEMMA StepSpares ==
  ASSUME IInv, NEW o \in Operator, NEW s, op[o].id = s, Steps(o)
  PROVE  /\ op[o].at # "idle" /\ s \in Server
         /\ \A q \in Operator \ {o} :
              op'[q].id = op[q].id /\ op'[q].at = op[q].at /\ op'[q].key = op[q].key
         /\ \A t \in Server \ {s} : keys'[t] = keys[t]
<1>0. Ops /\ DOMAIN op = Operator
  BY DEF IInv, Ops, OpShape
<1>. DEFINE Others == \A q \in Operator \ {o} :
                        op'[q].id = op[q].id /\ op'[q].at = op[q].at /\ op'[q].key = op[q].key
<1>1. op[o].at # "idle"
  BY Zenon
     DEF Steps, RemoveFromPool, MakeSecret, SetKeyPath, RemoveKey, Discard, OpenStaging, WriteStaging,
         Rename, DeleteRow, DeleteKey, Probe, SetHostKey, TestTrusted, At
<1>2. s \in Server
  BY <1>0, <1>1 DEF Ops, OpShape
<1>3. \A t : t # s => [keys EXCEPT ![s] = NoFile][t] = keys[t] /\ [keys EXCEPT ![s] = made + 1][t] = keys[t]
                      /\ [keys EXCEPT ![s] = staging[s]][t] = keys[t]
  OBVIOUS
<1>4. CASE Rename(o)
  <2>1. CASE End(o) /\ UNCHANGED keys
    BY <1>0, <1>1, <1>2, <2>1 DEF End
  <2>2. CASE /\ keys' = [keys EXCEPT ![s] = staging[s]]
             /\ op' = [x \in Operator |->
                        IF x = o THEN [op[x] EXCEPT !.at = "remove", !.fd = "none"]
                        ELSE IF op[x].id = s /\ op[x].fd = "staging" THEN [op[x] EXCEPT !.fd = "key"]
                        ELSE op[x]]
    <3>1. ASSUME NEW q \in Operator \ {o}
          PROVE  op'[q] = op[q] \/ op'[q] = [op[q] EXCEPT !.fd = "key"]
      BY <2>2, Zenon
    <3>2. Others
      BY <1>0, <3>1 DEF Ops, OpShape, OpFields
    <3>3. keys' = [keys EXCEPT ![s] = staging[s]]
      BY <2>2, Zenon
    <3>. QED  BY <1>1, <1>2, <1>3, <3>2, <3>3
  <2>. QED  BY <1>4, <2>1, <2>2, Zenon DEF Rename
<1>5. CASE WriteStaging(o)
  <2>1. CASE /\ keys' = IF op[o].fd = "key" THEN [keys EXCEPT ![s] = made + 1] ELSE keys
             /\ op' = [op EXCEPT ![o].at = "rename", ![o].key = made + 1]
    BY <1>0, <1>1, <1>2, <2>1
  <2>2. CASE /\ keys' = keys
             /\ op' = [x \in Operator |->
                    IF x = o THEN NoOp
                    ELSE IF op[x].id = s /\ op[x].fd = "staging" THEN [op[x] EXCEPT !.fd = "none"]
                    ELSE op[x]]
    <3>1. ASSUME NEW q \in Operator \ {o}
          PROVE  op'[q] = op[q] \/ op'[q] = [op[q] EXCEPT !.fd = "none"]
      BY <2>2, Zenon
    <3>2. Others
      BY <1>0, <3>1 DEF Ops, OpShape, OpFields
    <3>. QED  BY <1>1, <1>2, <2>2, <3>2
  <2>. QED  BY <1>5, <2>1, <2>2 DEF WriteStaging
<1>6. CASE /\ \A q \in Operator \ {o} : op'[q] = op[q]
           /\ keys' = keys \/ keys' = [keys EXCEPT ![s] = NoFile] \/ keys' = [keys EXCEPT ![s] = made + 1]
  BY <1>1, <1>2, <1>3, <1>6
<1>7. CASE RemoveFromPool(o) \/ MakeSecret(o) \/ SetKeyPath(o) \/ RemoveKey(o) \/ Discard(o)
  BY <1>0, <1>6, <1>7 DEF RemoveFromPool, MakeSecret, SetKeyPath, RemoveKey, Discard, End, Goto
<1>8. CASE OpenStaging(o) \/ DeleteRow(o) \/ DeleteKey(o) \/ Probe(o) \/ SetHostKey(o) \/ TestTrusted(o)
  BY <1>0, <1>6, <1>8 DEF OpenStaging, DeleteRow, DeleteKey, Probe, SetHostKey, TestTrusted, End, Goto
<1>. QED  BY <1>4, <1>5, <1>7, <1>8 DEF Steps

(* The key of a server that has one goes only with the connection to it,   *)
(* or while a rotation still has to close that connection.                 *)
KeyGoesOn(s) ==
  Settled(s) /\ Exists(s)' /\ s \notin raced' /\ ~ Replacing(s)' =>
    \/ pool'[s] = None
    \/ Exists(s) /\ s \notin raced /\ ~ Replacing(s) /\ keys'[s] = keys[s]

LEMMA KeysGoOn ==
  ASSUME IInv, KeysInv, InventoryNext, NEW s \in Server
  PROVE  KeyGoesOn(s)
<1>1. SUFFICES ASSUME Settled(s), Exists(s)', s \notin raced', ~ Replacing(s)'
               PROVE  pool'[s] = None \/ (~ Replacing(s) /\ keys'[s] = keys[s])
  BY RowsGoOn DEF KeyGoesOn
<1>2. Exists(s) /\ s \notin raced /\ rows[s].path
  BY <1>1, RowsGoOn DEF Settled
<1>0. Ops /\ Files /\ PoolInformed
  BY DEF IInv, KeysInv
<1>3. ASSUME NEW o \in Operator, Steps(o)
      PROVE  pool'[s] = None \/ (~ Replacing(s) /\ keys'[s] = keys[s])
  <2>1. CASE op[o].id # s
    BY <1>1, <1>3, <2>1, StepSpares, ReplacingGoesOn
  <2>2. CASE op[o].id = s /\ RemoveFromPool(o)
    BY <1>0, <2>2 DEF RemoveFromPool, Removed, PoolInformed
  <2>3. CASE op[o].id = s /\ ~ RemoveFromPool(o)
    <3>1. op[o].at # "remove" /\ op[o].at # "idle"
      BY <1>3, <2>3, Zenon
      DEF Steps, MakeSecret, SetKeyPath, RemoveKey, Discard, OpenStaging, WriteStaging,
          Rename, DeleteRow, DeleteKey, Probe, SetHostKey, TestTrusted, At
    <3>2. ~ Replacing(s)
      BY <1>1, <1>3, <2>3, <3>1, StepSpares, ReplacingGoesOn
    <3>3. InHand(o)
      BY <1>0 DEF Files
    <3>4. ~ Makes(o) /\ op[o].at # "key"
      BY <1>2, <2>3, <3>3 DEF InHand
    <3>5. CASE WriteStaging(o)
      <4>1. op[o].fd = "staging"
        BY <1>2, <2>3, <3>3, <3>5 DEF InHand, WriteStaging, At
      <4>. QED  BY <2>3, <3>2, <3>5, <4>1 DEF WriteStaging
    <3>6. CASE Rename(o)
      <4>1. CASE End(o) /\ UNCHANGED keys
        BY <3>2, <4>1
      <4>2. CASE op' = [x \in Operator |->
                        IF x = o THEN [op[x] EXCEPT !.at = "remove", !.fd = "none"]
                        ELSE IF op[x].id = s /\ op[x].fd = "staging" THEN [op[x] EXCEPT !.fd = "key"]
                        ELSE op[x]]
        <5>1. op'[o] = [op[o] EXCEPT !.at = "remove", !.fd = "none"]
          BY <4>2, Zenon
        <5>2. op'[o].id = s /\ op'[o].at = "remove" /\ op'[o].key = op[o].key
          BY <1>0, <2>3, <5>1 DEF Ops, OpShape, OpFields
        <5>3. op[o].at = "rename"
          BY <3>6, Zenon DEF Rename, At
        <5>4. Whole(op[o].key)
          BY <3>3, <5>3 DEF InHand
        <5>. QED  BY <1>1, <5>2, <5>4 DEF Replacing, At, Whole
      <4>. QED  BY <2>3, <3>6, <4>1, <4>2, Zenon DEF Rename
    <3>7. CASE keys' = keys
      BY <3>2, <3>7
    <3>. QED
      BY <1>3, <2>3, <3>4, <3>5, <3>6, <3>7, Zenon
      DEF Steps, MakeSecret, SetKeyPath, RemoveKey, Discard, OpenStaging, DeleteRow, DeleteKey,
          Probe, SetHostKey, TestTrusted, Makes, At
  <2>. QED  BY <2>1, <2>2, <2>3
<1>4. ASSUME NEW o \in Operator, NEW t \in Server, Begins(o, t)
      PROVE  ~ Replacing(s) /\ keys'[s] = keys[s]
  <2>1. keys' = keys /\ op[o].at = "idle"
    BY <1>4 DEF Begins, CreateRow, UpdateRow, RotateKey, Delete, TestConnection, TrustHostKey, Begin, At
  <2>2. ASSUME NEW p, Begin(o, p, t)
        PROVE  \A q \in Operator \ {o} : op'[q] = op[q]
    BY <1>0, <2>2, BegunAt
  <2>3. ASSUME NEW k, TrustHostKey(o, t, k)
        PROVE  \A q \in Operator \ {o} : op'[q] = op[q]
    BY <1>0, <2>3 DEF TrustHostKey, Ops, OpShape
  <2>4. \A q \in Operator \ {o} : op'[q] = op[q]
    BY <1>4, <2>2, <2>3, Zenon DEF Begins, CreateRow, UpdateRow, RotateKey, Delete, TestConnection
  <2>5. \A q \in Operator \ {o} :
          op'[q].id = op[q].id /\ op'[q].at = op[q].at /\ op'[q].key = op[q].key
    BY <2>4
  <2>. QED  BY <1>1, <2>1, <2>5, ReplacingGoesOn
<1>5. ASSUME NEW o \in Operator, Leave(o)
      PROVE  ~ Replacing(s) /\ keys'[s] = keys[s]
  <2>1. op' = [op EXCEPT ![o].gone = TRUE] /\ keys' = keys
    BY <1>5 DEF Leave
  <2>2. \A q \in Operator :
          op'[q].id = op[q].id /\ op'[q].at = op[q].at /\ op'[q].key = op[q].key
    BY <1>0, <2>1 DEF Ops, OpShape, OpFields
  <2>. QED  BY <1>1, <2>1, <2>2 DEF Replacing, At, Whole
<1>6. ASSUME NEW h \in Host, Reinstall(h)
      PROVE  ~ Replacing(s) /\ keys'[s] = keys[s]
  BY <1>1, <1>6 DEF Reinstall, Replacing, At, Whole
<1>. QED  BY <1>3, <1>4, <1>5, <1>6 DEF InventoryNext

(* A host key is displayed of a server that is there, with its key. *)
LEMMA ShownStaysSettled ==
  ASSUME IInv, KeysInv, InventoryNext
  PROVE  ShownSettled'
<1>0. Ops /\ ShownArePairs /\ ShownSettled
  BY DEF IInv, KeysInv
<1>1. ASSUME NEW x \in shown' PROVE x \in shown \/ (x[1] \in Server /\ Settled(x[1]))
  <2>1. ASSUME NEW o \in Operator, Probe(o), x \notin shown
        PROVE  x[1] \in Server /\ Settled(x[1])
    <3>1. op[o].at # "idle"
      BY <2>1, Zenon DEF Probe, At
    <3>2. op[o].id \in Server /\ op[o].id \in issued
      BY <1>0, <3>1, HandsOf DEF KeysInv
    <3>3. rows[op[o].id].path /\ x[1] = op[o].id
      BY <1>1, <2>1 DEF Probe
    <3>. QED  BY <3>2, <3>3 DEF Settled
  <2>2. ASSUME NEW o \in Operator, Probe(o)
        PROVE  x \in shown \/ (x[1] \in Server /\ Settled(x[1]))
    BY <2>1, <2>2
  <2>3. CASE shown' = shown
    BY <1>1, <2>3
  <2>4. ASSUME NEW o \in Operator, Steps(o), ~ Probe(o)
        PROVE  shown' = shown
    BY <2>4, Zenon
    DEF Steps, RemoveFromPool, MakeSecret, SetKeyPath, RemoveKey, Discard, OpenStaging,
        WriteStaging, Rename, DeleteRow, DeleteKey, SetHostKey, TestTrusted
  <2>5. ASSUME NEW o \in Operator, NEW s \in Server, Begins(o, s)
        PROVE  shown' = shown
    BY <2>5, Zenon
    DEF Begins, CreateRow, UpdateRow, RotateKey, Delete, TestConnection, TrustHostKey
  <2>. QED  BY <2>2, <2>3, <2>4, <2>5, Zenon DEF InventoryNext, Leave, Reinstall
<1>. QED  BY <1>0, <1>1, RowsGoOn DEF ShownSettled

(* A connection is closed, goes on with the key it has, or is opened with  *)
(* the key in the file.                                                    *)
Holds(s) ==
  pool'[s] # None =>
    \/ pool'[s].key = NoFile
    \/ pool[s] # None /\ pool'[s].key = pool[s].key
    \/ Whole(keys[s]) /\ keys'[s] = keys[s] /\ pool'[s].key = keys[s]

LEMMA PoolStaysKeyed ==
  ASSUME IInv, KeysInv, \A s \in Server : KeyGoesOn(s) /\ Holds(s)
  PROVE  PoolKeyed'
<1>1. SUFFICES ASSUME NEW s \in Server, pool'[s] # None
               PROVE  /\ pool'[s].key = NoFile \/ Whole(pool'[s].key)
                      /\ Exists(s)' /\ ~ Replacing(s)' /\ s \notin raced' =>
                           pool'[s].key = NoFile \/ pool'[s].key = keys'[s]
  BY DEF PoolKeyed, Whole
<1>2. Holds(s) /\ KeyGoesOn(s)
  OBVIOUS
<1>3. CASE pool'[s].key = NoFile
  BY <1>3
<1>4. CASE Whole(keys[s]) /\ keys'[s] = keys[s] /\ pool'[s].key = keys[s]
  BY <1>4
<1>5. CASE pool[s] # None /\ pool'[s].key = pool[s].key /\ pool[s].key # NoFile
  <2>1. Whole(pool[s].key)
    BY <1>5 DEF KeysInv, PoolKeyed
  <2>2. <<s, pool[s].hostKey>> \in shown
    BY <1>5, <2>1 DEF IInv, PoolInformed
  <2>3. Settled(s)
    BY <2>2 DEF KeysInv, ShownSettled
  <2>4. SUFFICES ASSUME Exists(s)', ~ Replacing(s)', s \notin raced'
                 PROVE  pool'[s].key = keys'[s]
    BY <1>5, <2>1
  <2>5. Exists(s) /\ s \notin raced /\ ~ Replacing(s) /\ keys'[s] = keys[s]
    BY <1>1, <1>2, <2>3, <2>4 DEF KeyGoesOn
  <2>. QED  BY <1>5, <2>5 DEF KeysInv, PoolKeyed
<1>. QED  BY <1>1, <1>2, <1>3, <1>4, <1>5 DEF Holds

(* Pool.Get. *)
LEMMA PoolHolds ==
  ASSUME IInv, NEW t, NEW r, keys' = keys,
         (CanReach(t, r) /\ pool' = Connected(t, r)) \/ pool' = Closed(t, r) \/ pool' = pool
  PROVE  \A s \in Server : Holds(s)
<1>0. DOMAIN pool = Server
  BY DEF IInv, PoolInformed
<1>1. CASE CanReach(t, r) /\ pool' = Connected(t, r)
  <2>1. SUFFICES ASSUME NEW s \in Server PROVE Holds(s)
    OBVIOUS
  <2>2. CASE s # t
    BY <1>0, <1>1, <2>2 DEF Connected, Holds
  <2>3. CASE s = t /\ Reuses(t, r)
    BY <1>0, <1>1, <2>3 DEF Connected, Holds, Reuses, SameEndpoint
  <2>4. CASE s = t /\ ~ Reuses(t, r)
    <3>1. Whole(keys[s])
      BY <1>1, <2>4 DEF CanReach, Dials
    <3>2. pool'[s].key = keys[s]
      BY <1>0, <1>1, <2>4 DEF Connected
    <3>. QED  BY <3>1, <3>2 DEF Holds
  <2>. QED  BY <2>2, <2>3, <2>4
<1>2. CASE pool' = [pool EXCEPT ![t] = [host |-> r.host, hostKey |-> r.hostKey, key |-> NoFile]]
  BY <1>0, <1>2 DEF Holds
<1>3. CASE pool' = pool
  BY <1>3 DEF Holds
<1>. QED  BY <1>1, <1>2, <1>3 DEF Closed

LEMMA InventoryHolds ==
  ASSUME IInv, InventoryNext, NEW s \in Server
  PROVE  Holds(s)
<1>0. DOMAIN pool = Server
  BY DEF IInv, PoolInformed
<1>1. ASSUME NEW o \in Operator, Probe(o)
      PROVE  Holds(s)
  <2>1. /\ keys' = keys
        /\ \/ CanReach(op[o].id, op[o].row) /\ pool' = Connected(op[o].id, op[o].row)
           \/ pool' = Closed(op[o].id, op[o].row)
    BY <1>1 DEF Probe
  <2>. QED  BY <2>1, PoolHolds
<1>2. ASSUME NEW t, pool' = Removed(pool, t)
      PROVE  Holds(s)
  BY <1>0, <1>2 DEF Removed, Holds
<1>3. CASE pool' = pool
  BY <1>3 DEF Holds
<1>4. ASSUME NEW o \in Operator, Steps(o), ~ Probe(o)
      PROVE  Holds(s)
  BY <1>2, <1>3, <1>4, Zenon
  DEF Steps, RemoveFromPool, MakeSecret, SetKeyPath, RemoveKey, Discard, OpenStaging,
      WriteStaging, Rename, DeleteRow, DeleteKey, SetHostKey, TestTrusted
<1>5. ASSUME NEW o \in Operator, NEW t \in Server, Begins(o, t)
      PROVE  Holds(s)
  BY <1>2, <1>3, <1>5, Zenon
  DEF Begins, CreateRow, UpdateRow, RotateKey, Delete, TestConnection, TrustHostKey
<1>. QED  BY <1>1, <1>3, <1>4, <1>5, Zenon DEF InventoryNext, Leave, Reinstall

LEMMA InventoryKeys == IInv /\ KeysInv /\ InventoryNext => KeysInv'
<1>1. SUFFICES ASSUME IInv, KeysInv, InventoryNext PROVE KeysInv'
  OBVIOUS
<1>2. Ops /\ Files
  BY <1>1 DEF IInv, KeysInv
<1>3. Files'
  <2>1. ASSUME NEW o \in Operator, Leave(o)
        PROVE  Files'
    <3>1. /\ op' = [op EXCEPT ![o].gone = TRUE]
          /\ UNCHANGED <<rows, issued, keys, staging, told, made, raced, abandoned>>
      BY <2>1 DEF Leave
    <3>2. \A q \in Operator : /\ op'[q].id = op[q].id /\ op'[q].at = op[q].at
                              /\ op'[q].key = op[q].key /\ op'[q].fd = op[q].fd
      BY <1>2, <3>1 DEF Ops, OpShape, OpFields
    <3>. QED  BY <1>2, <3>1, <3>2, FilesStay
  <2>2. ASSUME NEW h \in Host, Reinstall(h)
        PROVE  Files'
    BY <1>2, <2>2, FilesStay DEF Reinstall
  <2>. QED  BY <1>1, <2>1, <2>2, RequestKeys, BeginKeys DEF InventoryNext
<1>4. ShownSettled'
  BY <1>1, ShownStaysSettled
<1>5. PoolKeyed'
  BY <1>1, KeysGoOn, InventoryHolds, PoolStaysKeyed
<1>. QED  BY <1>3, <1>4, <1>5 DEF KeysInv

(* Refreshing and writing leave the inventory alone but for the pool. *)
LEMMA PassKeys ==
  ASSUME IInv, KeysInv, UNCHANGED InventoryRest, \A s \in Server : Holds(s)
  PROVE  KeysInv'
<1>1. UNCHANGED <<rows, issued, keys, staging, told, made, raced, abandoned, op, shown>>
  BY DEF InventoryRest
<1>2. Files'
  BY <1>1, FilesStay DEF KeysInv
<1>3. ShownSettled'
  BY <1>1 DEF KeysInv, ShownSettled, Settled, Exists
<1>4. \A s \in Server : KeyGoesOn(s)
  BY <1>1 DEF KeyGoesOn, Exists, Replacing, At, Whole
<1>5. PoolKeyed'
  BY <1>4, PoolStaysKeyed
<1>. QED  BY <1>2, <1>3, <1>5 DEF KeysInv

LEMMA KeysStep == IInv /\ KeysInv /\ [Next]_vars => KeysInv'
<1>1. SUFFICES ASSUME IInv, KeysInv, [Next]_vars PROVE KeysInv'
  OBVIOUS
<1>2. ASSUME UNCHANGED InventoryRest, pool' = pool
      PROVE  KeysInv'
  BY <1>1, <1>2, PassKeys DEF Holds
<1>3. ASSUME NEW t, NEW r, UNCHANGED InventoryRest,
             (CanReach(t, r) /\ pool' = Connected(t, r)) \/ pool' = Closed(t, r) \/ pool' = pool
      PROVE  KeysInv'
  <2>1. keys' = keys
    BY <1>3 DEF InventoryRest
  <2>. QED  BY <1>1, <1>3, <2>1, PassKeys, PoolHolds
<1>4. CASE UNCHANGED vars
  BY <1>2, <1>4 DEF vars, inventory, InventoryRest
<1>5. CASE InventoryNext
  BY <1>1, <1>5, InventoryKeys
<1>6. ASSUME NEW p \in Passes, NEW s \in Server, ReadRecords(p, s)
      PROVE  KeysInv'
  <2>1. /\ UNCHANGED InventoryRest
        /\ \/ CanReach(s, pass[p].list[s]) /\ pool' = Connected(s, pass[p].list[s])
           \/ pool' = Closed(s, pass[p].list[s])
           \/ pool' = pool
    BY <1>6 DEF ReadRecords
  <2>. QED  BY <1>3, <2>1
<1>7. CASE Write
  <2>1. /\ UNCHANGED InventoryRest
        /\ \/ CanReach(writer.id, writer.row) /\ pool' = Connected(writer.id, writer.row)
           \/ pool' = Closed(writer.id, writer.row)
    BY <1>7 DEF Write
  <2>. QED  BY <1>3, <2>1
<1>8. CASE Refill
  <2>1. /\ UNCHANGED InventoryRest
        /\ \/ CanReach(writer.id, rows[writer.id]) /\ pool' = Connected(writer.id, rows[writer.id])
           \/ pool' = Closed(writer.id, rows[writer.id])
           \/ pool' = pool
    BY <1>8 DEF Refill
  <2>. QED  BY <1>3, <2>1
<1>. QED
  BY <1>1, <1>2, <1>4, <1>5, <1>6, <1>7, <1>8, Zenon
  DEF Next, PassStep, List, Finish, EndPass, Close, TakeSlot, Lock, Store, LockWriter, Collect, All, GoAway,
      Resolve

LEMMA KeysAtFirst == Init => KeysInv
<1> SUFFICES ASSUME Init PROVE KeysInv
  OBVIOUS
<1>. USE DEF Init, InventoryInit
<1>1. \A s \in Server : Exists(s) <=> (s \in FirstServers /\ rows[s] # None)
  BY DEF Exists
<1>2. \A s \in Server : Exists(s) => rows[s].path /\ keys[s] = 1 /\ told[s] = 1
  BY DEF Exists, FirstRow
<1>3. \A o \in Operator : op[o].at = "idle"
  BY DEF NoOp
<1>4. Files
  BY <1>1, <1>2, <1>3, InventoryAssumption
     DEF Files, FileShape, Known, Alone, InHand, Makes, Rotates, ServerKeyed, Whole
<1>5. ShownSettled
  BY <1>2, InventoryAssumption DEF ShownSettled, Settled
<1>6. PoolKeyed
  BY DEF PoolKeyed
<1>. QED  BY <1>4, <1>5, <1>6 DEF KeysInv

LEMMA KeysAreKept == Spec => [](IInv /\ KeysInv)
<1>. QED  BY InitEstablishes, StepPreserves, KeysAtFirst, KeysStep, PTL DEF Spec

(* Create, RotateKey, Delete: however the steps of creations, edits,       *)
(* rotations and deletions fall between one another and wherever one of    *)
(* them fails, a server that survives has a key, and it is the one the     *)
(* operator was given last.                                                *)
THEOREM ServersKeepTheirKeys == Spec => []EveryServerHasItsKey
<1>1. IInv /\ KeysInv => EveryServerHasItsKey
  BY DEF KeysInv, Files, ServerKeyed, EveryServerHasItsKey
<1>. QED  BY <1>1, KeysAreKept, PTL

(* RotateKey, Pool.Remove: once a rotation is over, no connection that a   *)
(* refresh, a change or a test opened meanwhile is still authenticated     *)
(* with the key that just went.                                            *)
THEOREM OldKeysLeaveThePool == Spec => []NoConnectionKeepsAnOldKey
<1>1. IInv /\ KeysInv => NoConnectionKeepsAnOldKey
  BY DEF KeysInv, PoolKeyed, NoConnectionKeepsAnOldKey
<1>. QED  BY <1>1, KeysAreKept, PTL

-----------------------------------------------------------------------------
(* The answers. *)

(* Natural numbers are well ordered. *)
LEMMA LeastOf ==
  ASSUME NEW S, S \subseteq Nat, S # {}
  PROVE  \E m \in S : \A x \in S : m <= x
<1>. DEFINE R == OpToRel(<, Nat)
<1>1. \E m \in S : \A x \in S : ~ (<<x, m>> \in R)
  <2>1. IsWellFoundedOn(R, Nat)
    BY NatLessThanWellFounded, Zenon
  <2>. HIDE DEF R
  <2>. QED  BY <2>1, WFMin
<1>2. \A x, m \in Nat : x < m => <<x, m>> \in R
  BY DEF OpToRel
<1>. HIDE DEF R
<1>3. PICK m \in S : \A x \in S : ~ (<<x, m>> \in R)
  BY <1>1, Zenon
<1>4. ASSUME NEW x \in S
      PROVE  m <= x
  <2>1. m \in Nat /\ x \in Nat
    OBVIOUS
  <2>2. ~ (x < m)
    BY <1>2, <1>3, <2>1
  <2>. QED  BY <2>1, <2>2
<1>. QED  BY <1>4

LEMMA Bounds == Passes \subseteq Nat /\ MaxPasses \in Nat /\ NoPass \notin Passes
BY RefreshPassAssumption DEF Passes, NoPass

LEMMA SpendKeeps ==
  ASSUME BudgetShape, NEW w \in {"ops", "writes", "faults"}, Spend(w)
  PROVE  BudgetShape' /\ budget'.calls = budget.calls
BY DEF BudgetShape, Spend

(* A step that begins no pass and makes no call, while files only grow. *)
Ats == {"none", "list", "read", "done", "ended", "closed"}
GoesOn ==
  /\ file' \in Counts /\ Below(file, file')
  /\ \A q \in Passes : /\ pass'[q].since = pass[q].since
                       /\ pass'[q].at = "none" <=> pass[q].at = "none"
                       /\ pass'[q].at \in Ats
  /\ DOMAIN call' = Callers
  /\ \A c \in Callers : /\ DOMAIN call'[c] = {"at", "pass", "gone", "since"}
                        /\ call'[c].at # "idle" =>
                             /\ call[c].at # "idle"
                             /\ call'[c].pass = call[c].pass /\ call'[c].since = call[c].since
  /\ current' = NoPass \/ (current' = current /\ (current # NoPass => pass'[current].at \in {"list", "read", "done"}))
  /\ budget'.calls = budget.calls

LEMMA BelowIsTransitive ==
  ASSUME NEW f \in Counts, NEW g \in Counts, NEW h \in Counts, Below(f, g), Below(g, h)
  PROVE  Below(f, h)
BY DEF Below, Counts

LEMMA TimesGoOn ==
  ASSUME TimesInv, GoesOn, Named', ReaderTimes'
  PROVE  TimesInv'
<1>1. PassesLeft'
  <2>1. PICK k \in 0..MaxPasses : BegunTo(k) /\ k + budget.calls <= MaxPasses
    BY DEF TimesInv, PassesLeft
  <2>2. BegunTo(k)' /\ budget'.calls = budget.calls
    BY <2>1 DEF BegunTo, GoesOn
  <2>. QED  BY <2>1, <2>2 DEF PassesLeft
<1>2. PassTimes'
  <2>1. SUFFICES ASSUME NEW p \in Passes
                 PROVE  /\ pass'[p].at # "none" => Below(pass[p].since, file')
                        /\ \A q \in Passes : p < q /\ pass'[q].at # "none" => Below(pass[p].since, pass[q].since)
    BY DEF PassTimes, GoesOn, Ats, TimesInv, Below
  <2>2. pass[p].since \in Counts /\ file \in Counts /\ (pass[p].at # "none" => Below(pass[p].since, file))
    BY DEF TimesInv, PassTimes
  <2>3. pass'[p].at # "none" => Below(pass[p].since, file')
    BY <2>2, BelowIsTransitive DEF GoesOn
  <2>4. \A q \in Passes : p < q /\ pass'[q].at # "none" => Below(pass[p].since, pass[q].since)
    BY DEF TimesInv, PassTimes, GoesOn
  <2>. QED  BY <2>3, <2>4
<1>3. CallTimes'
  <2>1. ASSUME NEW c \in Callers
        PROVE  CallTimed(c)'
    BY DEF TimesInv, CallTimes, CallTimed, GoesOn, Below
  <2>2. current' # NoPass => current' \in Passes /\ pass'[current'].at \in {"list", "read", "done"}
    BY DEF TimesInv, CallTimes, GoesOn
  <2>. QED  BY <2>1, <2>2 DEF CallTimes, GoesOn
<1>. QED  BY <1>1, <1>2, <1>3 DEF TimesInv

LEMMA BelowItself == ASSUME NEW f \in Counts PROVE Below(f, f)
BY DEF Below, Counts

(* Where the passes and the calls stay as they are. *)
LEMMA TimesStay ==
  ASSUME TimesInv, Named', UNCHANGED <<file, current, pass, call>>, budget'.calls = budget.calls
  PROVE  TimesInv'
<1>1. GoesOn
  BY BelowItself DEF GoesOn, TimesInv, PassTimes, CallTimes, CallTimed, Ats
<1>2. ReaderTimes'
  BY DEF TimesInv, ReaderTimes, ReaderTimed
<1>. QED  BY <1>1, <1>2, TimesGoOn

(* The inventory: a row names a host of its own, whatever is done to it. *)
LEMMA RowsStayNamed ==
  ASSUME IInv, RowsNamed, InventoryNext
  PROVE  RowsNamed'
<1>0. DOMAIN rows = Server /\ (\A s \in Server : Exists(s) => DOMAIN rows[s] = RowFields) /\ Ops
  BY DEF IInv, Table, TableShape
<1>1. CASE UNCHANGED rows
  BY <1>1 DEF RowsNamed, Exists
<1>2. ASSUME NEW s, NEW r, rows' = [rows EXCEPT ![s] = r], s \in Server => r = None \/ r.host \in Host
      PROVE  RowsNamed'
  BY <1>0, <1>2 DEF RowsNamed, Exists
<1>3. ASSUME NEW o \in Operator, Steps(o)
      PROVE  RowsNamed'
  <2>1. CASE SetKeyPath(o) \/ SetHostKey(o)
    <3>1. op[o].at # "idle"
      BY <2>1 DEF SetKeyPath, SetHostKey, At
    <3>2. op[o].id \in Server
      BY <1>0, <3>1 DEF Ops, OpShape
    <3>3. CASE Exists(op[o].id) /\ rows' = [rows EXCEPT ![op[o].id].path = TRUE]
      <4>1. [rows[op[o].id] EXCEPT !.path = TRUE].host = rows[op[o].id].host
        BY <1>0, <3>2, <3>3 DEF RowFields
      <4>2. rows' = [rows EXCEPT ![op[o].id] = [rows[op[o].id] EXCEPT !.path = TRUE]]
        BY <1>0, <3>2, <3>3
      <4>3. rows[op[o].id].host \in Host
        BY <3>2, <3>3 DEF RowsNamed
      <4>. QED  BY <1>2, <4>1, <4>2, <4>3
    <3>4. CASE Exists(op[o].id) /\ rows' = [rows EXCEPT ![op[o].id].hostKey = op[o].hostKey]
      <4>1. [rows[op[o].id] EXCEPT !.hostKey = op[o].hostKey].host = rows[op[o].id].host
        BY <1>0, <3>2, <3>4 DEF RowFields
      <4>2. rows' = [rows EXCEPT ![op[o].id] = [rows[op[o].id] EXCEPT !.hostKey = op[o].hostKey]]
        BY <1>0, <3>2, <3>4
      <4>3. rows[op[o].id].host \in Host
        BY <3>2, <3>4 DEF RowsNamed
      <4>. QED  BY <1>2, <4>1, <4>2, <4>3
    <3>. QED  BY <1>1, <2>1, <3>3, <3>4 DEF SetKeyPath, SetHostKey
  <2>2. CASE Discard(o) \/ DeleteRow(o)
    BY <1>1, <1>2, <2>2, Zenon DEF Discard, DeleteRow
  <2>3. CASE UNCHANGED <<rows, issued, raced>>
    BY <1>1, <2>3
  <2>. QED
    BY <1>3, <2>1, <2>2, <2>3, Zenon
    DEF Steps, RemoveFromPool, MakeSecret, RemoveKey, OpenStaging, WriteStaging, Rename, DeleteKey,
        Probe, TestTrusted
<1>4. ASSUME NEW o \in Operator, NEW s \in Server, NEW h \in Host, CreateRow(o, s, h)
      PROVE  RowsNamed'
  BY <1>2, <1>4 DEF CreateRow
<1>5. ASSUME NEW o \in Operator, NEW s \in Server, NEW h \in Host, NEW e, UpdateRow(o, s, h, e)
      PROVE  RowsNamed'
  <2>1. rows' = [rows EXCEPT ![s] = [rows[s] EXCEPT !.host = h, !.enabled = e]]
    BY <1>0, <1>5 DEF UpdateRow
  <2>2. [rows[s] EXCEPT !.host = h, !.enabled = e].host = h
    BY <1>0, <1>5 DEF UpdateRow, RowFields
  <2>. QED  BY <1>2, <2>1, <2>2
<1>6. ASSUME NEW o \in Operator, NEW s \in Server, Begins(o, s)
      PROVE  RowsNamed'
  BY <1>1, <1>4, <1>5, <1>6, Zenon DEF Begins, RotateKey, Delete, TestConnection, TrustHostKey
<1>. QED  BY <1>1, <1>3, <1>6, Zenon DEF InventoryNext, Leave, Reinstall

LEMMA InventoryBudget ==
  ASSUME BudgetShape, InventoryNext
  PROVE  BudgetShape' /\ budget'.calls = budget.calls
<1>1. ASSUME UNCHANGED budget
      PROVE  BudgetShape' /\ budget'.calls = budget.calls
  BY <1>1 DEF BudgetShape
<1>2. ASSUME Spend("ops") \/ Spend("faults")
      PROVE  BudgetShape' /\ budget'.calls = budget.calls
  BY <1>2, SpendKeeps
<1>3. ASSUME NEW o \in Operator, Steps(o)
      PROVE  UNCHANGED budget \/ Spend("faults")
  BY <1>3, Zenon
  DEF Steps, RemoveFromPool, MakeSecret, SetKeyPath, RemoveKey, Discard, OpenStaging,
      WriteStaging, Rename, DeleteRow, DeleteKey, Probe, SetHostKey, TestTrusted
<1>4. ASSUME NEW o \in Operator, NEW s \in Server, Begins(o, s)
      PROVE  Spend("ops")
  BY <1>4, Zenon
  DEF Begins, CreateRow, UpdateRow, RotateKey, Delete, TestConnection, TrustHostKey, Begin
<1>. QED  BY <1>1, <1>2, <1>3, <1>4, Zenon DEF InventoryNext, Leave, Reinstall

LEMMA InventoryTimes ==
  ASSUME IInv, TimesInv, InventoryNext, UNCHANGED <<file, current, pass, call, writer>>
  PROVE  TimesInv'
<1>1. BudgetShape /\ RowsNamed /\ WriterNamed
  BY DEF TimesInv, Named
<1>2. BudgetShape' /\ budget'.calls = budget.calls
  BY <1>1, InventoryBudget
<1>3. RowsNamed'
  BY <1>1, RowsStayNamed
<1>4. WriterNamed'
  BY <1>1 DEF WriterNamed
<1>. QED  BY <1>2, <1>3, <1>4, TimesStay DEF Named

(* The leader. *)
LEMMA LeaderTimes ==
  ASSUME IInv, TimesInv, NEW p \in Passes, List(p) \/ Finish(p) \/ EndPass(p) \/ Close(p)
  PROVE  TimesInv'
<1>0. /\ DOMAIN pass = Passes
      /\ \A q \in Passes : DOMAIN pass[q] = PassFields /\ DOMAIN pass[q].reader = Server
      /\ DOMAIN call = Callers /\ \A c \in Callers : CallTimed(c)
      /\ file \in Counts /\ Below(file, file)
      /\ \A q \in Passes : pass[q].at \in Ats
  BY BelowItself DEF IInv, Pass, PassShape, TimesInv, PassTimes, CallTimes, Ats
<1>1. /\ UNCHANGED <<rows, budget, file, call, writer>>
      /\ current' = current \/ (current' = NoPass /\ pass[p].at = "done")
  <2>1. CASE List(p)
    BY <2>1, Zenon DEF List, InventoryRest
  <2>2. CASE Finish(p) \/ EndPass(p) \/ Close(p)
    BY <2>2 DEF Finish, EndPass, Close, Lead, InventoryRest
  <2>. QED  BY <2>1, <2>2
<1>2. Named'
  BY <1>1 DEF TimesInv, Named, BudgetShape, RowsNamed, WriterNamed, Exists
<1>3. ASSUME NEW to, pass' = [pass EXCEPT ![p].at = to], pass[p].at # "none", to \in {"done", "ended", "closed"},
             \A s \in Server : pass[p].reader[s].at \notin Reading,
             current' # NoPass /\ p = current => to = "done"
      PROVE  TimesInv'
  <2>1. /\ \A q \in Passes : q # p => pass'[q] = pass[q]
        /\ pass'[p].at = to /\ pass'[p].since = pass[p].since
        /\ pass'[p].reader = pass[p].reader /\ pass'[p].list = pass[p].list
    BY <1>0, <1>3 DEF PassFields
  <2>2. GoesOn
    <3>1. current' = NoPass \/ (current' = current /\ (current # NoPass => pass'[current].at \in {"list", "read", "done"}))
      BY <1>1, <1>3, <2>1 DEF TimesInv, CallTimes
    <3>2. \A q \in Passes : /\ pass'[q].since = pass[q].since
                            /\ pass'[q].at = "none" <=> pass[q].at = "none"
                            /\ pass'[q].at \in Ats
      BY <1>0, <1>3, <2>1 DEF Ats
    <3>. QED  BY <1>0, <1>1, <3>1, <3>2 DEF GoesOn, CallTimed
  <2>3. ASSUME NEW q \in Passes, NEW s \in Server
        PROVE  ReaderTimed(q, s)'
    BY <1>3, <2>1 DEF TimesInv, ReaderTimes, ReaderTimed, Reading
  <2>. QED  BY <1>2, <2>2, <2>3, TimesGoOn DEF ReaderTimes
<1>4. \A s \in Server : pass[p].at # "read" => pass[p].reader[s].at \notin Reading
  BY DEF TimesInv, ReaderTimes, ReaderTimed
<1>5. CASE List(p) /\ ~ Gone(p)
  <2> DEFINE l == [s \in Server |-> IF s \in Enabled THEN rows[s] ELSE None]
             r == [s \in Server |-> IF s \in Enabled THEN [NoReader EXCEPT !.at = "queued"]
                                                      ELSE NoReader]
  <2>1. pass' = [pass EXCEPT ![p].at = "read", ![p].list = l, ![p].reader = r] /\ pass[p].at = "list"
    BY <1>5, Zenon DEF List
  <2>2. ASSUME NEW s \in Server
        PROVE  /\ r[s].at \in {"queued", "unlisted"}
               /\ r[s].at = "queued" => l[s].host \in Host
    BY DEF NoReader, Enabled, TimesInv, Named, RowsNamed
  <2> HIDE DEF l, r
  <2>3. /\ \A q \in Passes : q # p => pass'[q] = pass[q]
        /\ pass'[p].at = "read" /\ pass'[p].since = pass[p].since
        /\ pass'[p].reader = r /\ pass'[p].list = l
    BY <1>0, <2>1 DEF PassFields
  <2>4. GoesOn
    <3>1. current' = current
      BY <1>5, Zenon DEF List
    <3>2. current # NoPass => pass'[current].at \in {"list", "read", "done"}
      BY <2>3 DEF TimesInv, CallTimes
    <3>3. \A q \in Passes : /\ pass'[q].since = pass[q].since
                            /\ pass'[q].at = "none" <=> pass[q].at = "none"
                            /\ pass'[q].at \in Ats
      BY <1>0, <2>1, <2>3 DEF Ats
    <3>. QED  BY <1>0, <1>1, <3>1, <3>2, <3>3 DEF GoesOn, CallTimed
  <2>5. ASSUME NEW q \in Passes, NEW s \in Server
        PROVE  ReaderTimed(q, s)'
    <3>1. CASE q = p
      BY <2>2, <2>3, <3>1 DEF ReaderTimed, Reading
    <3>2. CASE q # p
      BY <2>3, <3>2 DEF TimesInv, ReaderTimes, ReaderTimed
    <3>. QED  BY <3>1, <3>2
  <2>. QED  BY <1>2, <2>4, <2>5, TimesGoOn DEF ReaderTimes
<1>6. CASE List(p) /\ Gone(p)
  BY <1>3, <1>4, <1>6 DEF List
<1>7. CASE Finish(p)
  BY <1>3, <1>7 DEF Finish, Lead, AllRead
<1>8. CASE EndPass(p)
  BY <1>3, <1>4, <1>8 DEF EndPass, Lead
<1>9. CASE Close(p)
  <2>1. pass[p].at = "ended" /\ pass' = [pass EXCEPT ![p].at = "closed"] /\ current' = current
    BY <1>9 DEF Close, Lead
  <2>2. current # NoPass => p # current
    BY <2>1 DEF TimesInv, CallTimes
  <2>. QED  BY <1>3, <1>4, <2>1, <2>2
<1>. QED  BY <1>5, <1>6, <1>7, <1>8, <1>9

(* A reader that goes on, or has read what the file is by then. *)
LEMMA ReaderTimesMove ==
  ASSUME IInv, TimesInv, NEW p \in Passes, NEW s \in Server, NEW r,
         pass' = [pass EXCEPT ![p].reader[s] = r], UNCHANGED <<file, current, call>>,
         Named', budget'.calls = budget.calls,
         r.at \in Reading => pass[p].reader[s].at \in Reading,
         r.at \in {"read", "ok"} => r.host \in Host /\ r.no \in Nat /\ pass[p].since[r.host] <= r.no
  PROVE  TimesInv'
<1>0. /\ DOMAIN pass = Passes
      /\ \A q \in Passes : DOMAIN pass[q] = PassFields /\ DOMAIN pass[q].reader = Server
      /\ \A q \in Passes : pass[q].at \in Ats
  BY DEF IInv, Pass, PassShape, TimesInv, PassTimes, Ats
<1>1. /\ \A q \in Passes : /\ pass'[q].at = pass[q].at /\ pass'[q].since = pass[q].since
                           /\ pass'[q].list = pass[q].list
                           /\ q # p => pass'[q].reader = pass[q].reader
      /\ \A x \in Server : x # s => pass'[p].reader[x] = pass[p].reader[x]
      /\ pass'[p].reader[s] = r
  BY <1>0 DEF PassFields
<1>2. GoesOn
  BY <1>0, <1>1, BelowItself DEF GoesOn, TimesInv, PassTimes, CallTimes, CallTimed
<1>3. ASSUME NEW q \in Passes, NEW x \in Server
      PROVE  ReaderTimed(q, x)'
  <2>1. ReaderTimed(q, x)
    BY DEF TimesInv, ReaderTimes
  <2>2. CASE q = p /\ x = s
    BY <1>1, <2>1, <2>2 DEF ReaderTimed
  <2>3. CASE ~ (q = p /\ x = s)
    BY <1>1, <2>1, <2>3 DEF ReaderTimed
  <2>. QED  BY <2>2, <2>3
<1>. QED  BY <1>2, <1>3, TimesGoOn DEF ReaderTimes

LEMMA ReaderKeepsTime ==
  ASSUME IInv, TimesInv, NEW p \in Passes, NEW s \in Server,
         TakeSlot(p, s) \/ Lock(p, s) \/ ReadRecords(p, s) \/ Store(p, s)
  PROVE  TimesInv'
<1>1. /\ UNCHANGED <<rows, file, current, call, writer>>
      /\ UNCHANGED budget \/ Spend("faults")
  BY DEF TakeSlot, Lock, ReadRecords, Store, InventoryRest
<1>2. Named' /\ budget'.calls = budget.calls
  <2>1. BudgetShape' /\ budget'.calls = budget.calls
    BY <1>1, SpendKeeps DEF TimesInv, Named, BudgetShape
  <2>. QED  BY <1>1, <2>1 DEF TimesInv, Named, RowsNamed, WriterNamed, Exists
<1>0. /\ DOMAIN pass = Passes /\ DOMAIN pass[p] = PassFields /\ DOMAIN pass[p].reader = Server
      /\ DOMAIN pass[p].reader[s] = ReaderFields /\ ReaderTimed(p, s)
  BY DEF IInv, Pass, PassShape, TimesInv, ReaderTimes
<1>3. ASSUME NEW to, Moves(p, s, to), pass[p].reader[s].at \in Reading,
             to = "ok" => pass[p].reader[s].at = "read", to # "read"
      PROVE  TimesInv'
  <2> DEFINE r == [pass[p].reader[s] EXCEPT !.at = to]
  <2>1. r.at = to /\ r.host = pass[p].reader[s].host /\ r.no = pass[p].reader[s].no
    BY <1>0 DEF ReaderFields
  <2>2. pass' = [pass EXCEPT ![p].reader[s] = r]
    BY <1>0, <1>3 DEF Moves, PassFields
  <2> HIDE DEF r
  <2>3. r.at \in {"read", "ok"} => r.host \in Host /\ r.no \in Nat /\ pass[p].since[r.host] <= r.no
    BY <1>0, <1>3, <2>1 DEF ReaderTimed
  <2>. QED  BY <1>1, <1>2, <1>3, <2>1, <2>2, <2>3, ReaderTimesMove
<1>4. CASE TakeSlot(p, s) \/ Lock(p, s)
  BY <1>3, <1>4 DEF TakeSlot, Lock, Reading
<1>5. CASE Store(p, s)
  BY <1>3, <1>5 DEF Store, Reading
<1>6. CASE ReadRecords(p, s)
  <2>1. pass[p].reader[s].at = "held"
    BY <1>6 DEF ReadRecords
  <2>2. CASE WithReader(p, s, [at |-> "read", host |-> pass[p].list[s].host, no |-> file[pass[p].list[s].host]])
    <3> DEFINE h == pass[p].list[s].host
               r == [at |-> "read", host |-> h, no |-> file[h]]
    <3>1. h \in Host
      BY <1>0, <2>1 DEF ReaderTimed, Reading
    <3>2. file[h] \in Nat /\ pass[p].since[h] <= file[h]
      <4>1. pass[p].at # "none"
        BY <1>0, <2>1 DEF ReaderTimed, Reading
      <4>. QED  BY <3>1, <4>1 DEF TimesInv, PassTimes, Counts, Below
    <3>3. pass' = [pass EXCEPT ![p].reader[s] = r] /\ r.at = "read" /\ r.host = h /\ r.no = file[h]
      BY <2>2 DEF WithReader
    <3>4. pass[p].reader[s].at \in Reading
      BY <2>1 DEF Reading
    <3> HIDE DEF r
    <3>. QED  BY <1>1, <1>2, <3>1, <3>2, <3>3, <3>4, ReaderTimesMove
  <2>3. CASE Moves(p, s, "failed")
    BY <1>3, <2>1, <2>3 DEF Reading
  <2>. QED  BY <1>6, <2>2, <2>3 DEF ReadRecords
<1>. QED  BY <1>4, <1>5, <1>6

LEMMA WriterTimes ==
  ASSUME IInv, TimesInv, (\E s \in Server : Resolve(s)) \/ LockWriter \/ Write \/ Refill
  PROVE  TimesInv'
<1>0. /\ BudgetShape /\ RowsNamed /\ WriterNamed /\ file \in Counts
      /\ DOMAIN writer = {"at", "id", "row"}
  BY DEF TimesInv, Named, PassTimes, IInv, Writing, WriterShape
<1>1. /\ UNCHANGED <<rows, current, pass, call>>
      /\ UNCHANGED budget \/ Spend("writes")
  BY DEF Resolve, LockWriter, Write, Refill, InventoryRest
<1>2. BudgetShape' /\ budget'.calls = budget.calls
  BY <1>0, <1>1, SpendKeeps DEF BudgetShape
<1>3. RowsNamed'
  BY <1>0, <1>1 DEF RowsNamed, Exists
<1>4. ASSUME NEW s \in Server, Resolve(s)
      PROVE  WriterNamed' /\ UNCHANGED file
  BY <1>0, <1>4 DEF Resolve, Enabled, WriterNamed, RowsNamed
<1>5. CASE Refill
  <2>1. WriterNamed' /\ UNCHANGED file
    BY <1>5 DEF Refill, WriterNamed, NoWriter
  <2>. QED  BY <1>1, <1>2, <1>3, <2>1, TimesStay DEF Named
<1>6. CASE LockWriter \/ \E s \in Server : Resolve(s)
  <2>1. WriterNamed' /\ UNCHANGED file
    BY <1>0, <1>4, <1>6 DEF LockWriter, WriterNamed
  <2>. QED  BY <1>1, <1>2, <1>3, <2>1, TimesStay DEF Named
<1>7. CASE Write
  <2>1. WriterNamed'
    BY <1>0, <1>7 DEF Write, WriterNamed, NoWriter
  <2>2. writer.row.host \in Host
    BY <1>0, <1>7 DEF Write, WriterNamed
  <2>3. UNCHANGED file \/ file' = [file EXCEPT ![writer.row.host] = @ + 1]
    BY <1>7 DEF Write
  <2>4. file' \in Counts /\ Below(file, file')
    BY <1>0, <2>2, <2>3 DEF Counts, Below
  <2>5. GoesOn
    BY <1>1, <1>2, <2>4 DEF GoesOn, TimesInv, PassTimes, CallTimes, CallTimed, Ats
  <2>6. ReaderTimes'
    BY <1>1 DEF TimesInv, ReaderTimes, ReaderTimed
  <2>. QED  BY <1>2, <1>3, <2>1, <2>5, <2>6, TimesGoOn DEF Named
<1>. QED  BY <1>5, <1>6, <1>7

(* The callers. *)
LEMMA SinceIsEarly ==
  ASSUME TimesInv
  PROVE  /\ Since \in Counts /\ Below(Since, file)
         /\ \A q \in UnderWay : Below(Since, pass[q].since)
<1>0. /\ file \in Counts /\ UnderWay \subseteq Passes
      /\ \A q \in UnderWay : pass[q].at # "none"
      /\ \A q \in Passes : pass[q].since \in Counts
  BY DEF TimesInv, PassTimes, UnderWay
<1>1. CASE UnderWay = {}
  BY <1>0, <1>1, BelowItself DEF Since
<1>2. CASE UnderWay # {}
  <2> DEFINE m == CHOOSE p \in UnderWay : \A q \in UnderWay : p <= q
  <2>1. UnderWay \subseteq Nat
    BY <1>0, Bounds
  <2>2. m \in UnderWay /\ \A q \in UnderWay : m <= q
    BY <1>2, <2>1, LeastOf
  <2>3. Since = pass[m].since
    BY <1>2 DEF Since
  <2> HIDE DEF m
  <2>4. Below(pass[m].since, file)
    BY <1>0, <2>2 DEF TimesInv, PassTimes
  <2>5. ASSUME NEW q \in UnderWay
        PROVE  Below(pass[m].since, pass[q].since)
    <3>1. CASE q = m
      BY <1>0, <2>2, <3>1, BelowItself
    <3>2. CASE q # m
      <4>1. m < q
        BY <2>1, <2>2, <3>2
      <4>. QED  BY <1>0, <2>2, <4>1 DEF TimesInv, PassTimes
    <3>. QED  BY <3>1, <3>2
  <2>. QED  BY <1>0, <2>2, <2>3, <2>4, <2>5
<1>. QED  BY <1>1, <1>2

LEMMA CallBegins ==
  ASSUME IInv, TimesInv, NEW c \in Callers, All(c)
  PROVE  TimesInv'
<1>0. /\ DOMAIN pass = Passes /\ DOMAIN call = Callers
      /\ BudgetShape /\ file \in Counts /\ Passes \subseteq Nat /\ MaxPasses \in Nat
  BY Bounds DEF IInv, Pass, PassShape, TimesInv, Named, PassTimes, CallTimes
<1>1. UNCHANGED <<rows, file, writer>> /\ Spend("calls") /\ call[c].at = "idle"
  BY DEF All, InventoryRest
<1>2. BudgetShape' /\ budget.calls > 0 /\ budget.calls \in Nat /\ budget'.calls = budget.calls - 1
  BY <1>0, <1>1 DEF BudgetShape, Spend
<1>3. Named'
  BY <1>1, <1>2 DEF TimesInv, Named, RowsNamed, WriterNamed, Exists
<1>4. PICK k \in 0..MaxPasses : BegunTo(k) /\ k + budget.calls <= MaxPasses
  BY DEF TimesInv, PassesLeft
<1>5. ASSUME NEW x, NEW p \in Passes, call' = [call EXCEPT ![c] = x], x.pass = p, x.since = Since,
             DOMAIN x = {"at", "pass", "gone", "since"},
             \A q \in Passes : pass[q].at # "none" => pass'[q].at # "none" /\ pass'[q].since = pass[q].since,
             pass'[p].at # "none", Below(Since, pass'[p].since),
             current' \in Passes, pass'[current'].at \in {"list", "read", "done"}
      PROVE  CallTimes'
  <2>1. DOMAIN call' = Callers /\ call'[c] = x /\ \A d \in Callers : d # c => call'[d] = call[d]
    BY <1>0, <1>5
  <2>2. CallTimed(c)'
    BY <1>5, <2>1, SinceIsEarly DEF CallTimed, Below
  <2>3. ASSUME NEW d \in Callers, d # c
        PROVE  CallTimed(d)'
    BY <1>5, <2>1, <2>3 DEF TimesInv, CallTimes, CallTimed, Below
  <2>. QED  BY <1>5, <2>1, <2>2, <2>3 DEF CallTimes
<1>6. CASE Joins
  <2> DEFINE x == [NoCall EXCEPT !.at = "join", !.pass = current, !.since = Since]
  <2>1. x.pass = current /\ x.since = Since /\ DOMAIN x = {"at", "pass", "gone", "since"}
    BY DEF NoCall
  <2>2. call' = [call EXCEPT ![c] = x] /\ UNCHANGED <<current, pass>>
    BY <1>6 DEF All
  <2> HIDE DEF x
  <2>3. current \in Passes /\ pass[current].at \in {"list", "read", "done"}
    BY <1>6 DEF Joins, TimesInv, CallTimes
  <2>4. Below(Since, pass[current].since)
    BY <2>3, SinceIsEarly DEF UnderWay
  <2>5. CallTimes'
    BY <1>5, <2>1, <2>2, <2>3, <2>4
  <2>6. PassesLeft'
    <3>1. k + budget'.calls <= MaxPasses
      BY <1>0, <1>2, <1>4
    <3>. QED  BY <1>4, <2>2, <3>1 DEF PassesLeft, BegunTo
  <2>7. PassTimes' /\ ReaderTimes'
    BY <1>1, <2>2 DEF TimesInv, PassTimes, ReaderTimes, ReaderTimed, Below
  <2>. QED  BY <1>3, <2>5, <2>6, <2>7 DEF TimesInv
<1>7. CASE ~ Joins
  <2> DEFINE n == k + 1
             x == [NoCall EXCEPT !.at = "lead", !.pass = n, !.since = Since]
  <2>1. n \in Passes /\ n \in Nat /\ pass[n].at = "none" /\ \A q \in Passes : q < n <=> pass[q].at # "none"
    BY <1>0, <1>2, <1>4 DEF BegunTo, Passes
  <2>2. NextPass = n
    <3>1. \A p \in Passes : pass[p].at = "none" /\ (\A q \in Passes : q < p => pass[q].at # "none") => p = n
      BY <1>0, <2>1
    <3>2. \A q \in Passes : q < n => pass[q].at # "none"
      BY <2>1
    <3> HIDE DEF n
    <3>. QED  BY <2>1, <3>1, <3>2 DEF NextPass
  <2>3. current' = n /\ pass' = [pass EXCEPT ![n] = NewPass(c)] /\ call' = [call EXCEPT ![c] = x]
    BY <1>7, <2>2 DEF All
  <2>4. x.pass = n /\ x.since = Since /\ DOMAIN x = {"at", "pass", "gone", "since"}
    BY DEF NoCall
  <2>5. k + 1 \in 0..MaxPasses /\ n + budget'.calls <= MaxPasses /\ n = k + 1
    BY <1>0, <1>2, <1>4
  <2>6. /\ NewPass(c).at = "list" /\ NewPass(c).since = file
        /\ \A s \in Server : NewPass(c).reader[s].at = "unlisted"
    BY DEF NewPass, NoReader
  <2> HIDE DEF n, x
  <2>7. /\ pass'[n].at = "list" /\ pass'[n].since = file
        /\ \A s \in Server : pass'[n].reader[s].at = "unlisted"
        /\ \A q \in Passes : q # n => pass'[q] = pass[q]
    BY <1>0, <2>1, <2>3, <2>6
  <2>8. Since \in Counts /\ Below(Since, file)
    BY SinceIsEarly
  <2>9. CallTimes'
    BY <1>5, <2>1, <2>3, <2>4, <2>7, <2>8
  <2>10. PassesLeft'
    <3>1. BegunTo(n)'
      BY <1>0, <2>1, <2>7 DEF BegunTo
    <3>. QED  BY <2>5, <3>1 DEF PassesLeft
  <2>11. PassTimes'
    <3>1. SUFFICES ASSUME NEW p \in Passes
                   PROVE  /\ pass'[p].at \in Ats /\ pass'[p].since \in Counts
                          /\ pass'[p].at # "none" => Below(pass'[p].since, file)
                          /\ \A q \in Passes : p < q /\ pass'[q].at # "none" => Below(pass'[p].since, pass'[q].since)
      BY <1>0, <1>1 DEF PassTimes, Ats, Below
    <3>2. pass[p].at \in Ats /\ pass[p].since \in Counts /\ (pass[p].at # "none" => Below(pass[p].since, file))
      BY DEF TimesInv, PassTimes, Ats
    <3>3. CASE p = n
      <4>1. \A q \in Passes : n < q => pass'[q].at = "none"
        BY <1>0, <2>1, <2>7
      <4>. QED  BY <1>0, <2>7, <3>3, <4>1, BelowItself DEF Ats
    <3>4. CASE p # n
      <4>1. pass'[p] = pass[p]
        BY <2>7, <3>4
      <4>2. ASSUME NEW q \in Passes, p < q, pass'[q].at # "none"
            PROVE  Below(pass[p].since, pass'[q].since)
        <5>1. CASE q = n
          BY <2>1, <2>7, <3>2, <4>2, <5>1
        <5>2. CASE q # n
          BY <2>7, <4>2, <5>2 DEF TimesInv, PassTimes
        <5>. QED  BY <5>1, <5>2
      <4>. QED  BY <3>2, <4>1, <4>2
    <3>. QED  BY <3>3, <3>4
  <2>12. ASSUME NEW p \in Passes, NEW s \in Server
         PROVE  ReaderTimed(p, s)'
    <3>1. CASE p = n
      BY <2>7, <3>1 DEF ReaderTimed, Reading
    <3>2. CASE p # n
      BY <2>7, <3>2 DEF TimesInv, ReaderTimes, ReaderTimed
    <3>. QED  BY <3>1, <3>2
  <2>. QED  BY <1>3, <2>9, <2>10, <2>11, <2>12 DEF TimesInv, ReaderTimes
<1>. QED  BY <1>6, <1>7

LEMMA CallEnds ==
  ASSUME IInv, TimesInv, NEW c \in Callers, Collect(c) \/ GoAway(c)
  PROVE  TimesInv'
<1>0. /\ DOMAIN call = Callers /\ \A d \in Callers : CallTimed(d)
      /\ BudgetShape /\ file \in Counts
  BY DEF TimesInv, CallTimes, Named, PassTimes
<1>1. UNCHANGED <<rows, file, current, pass, writer>> /\ (UNCHANGED budget \/ Spend("faults"))
  BY DEF Collect, GoAway, InventoryRest
<1>2. BudgetShape' /\ budget'.calls = budget.calls
  BY <1>0, <1>1, SpendKeeps DEF BudgetShape
<1>3. Named'
  BY <1>1, <1>2 DEF TimesInv, Named, RowsNamed, WriterNamed, Exists
<1>4. \/ call' = [call EXCEPT ![c] = NoCall]
      \/ call' = [call EXCEPT ![c] = [call[c] EXCEPT !.gone = TRUE]]
  BY <1>0 DEF Collect, GoAway
<1>5. DOMAIN NoCall = {"at", "pass", "gone", "since"} /\ NoCall.at = "idle"
  BY DEF NoCall
<1>6. /\ DOMAIN [call[c] EXCEPT !.gone = TRUE] = {"at", "pass", "gone", "since"}
      /\ [call[c] EXCEPT !.gone = TRUE].at = call[c].at
      /\ [call[c] EXCEPT !.gone = TRUE].pass = call[c].pass
      /\ [call[c] EXCEPT !.gone = TRUE].since = call[c].since
  BY <1>0 DEF CallTimed
<1>7. DOMAIN call' = Callers /\ \A d \in Callers : d # c => call'[d] = call[d]
  BY <1>0, <1>4
<1>8. call'[c] = NoCall \/ call'[c] = [call[c] EXCEPT !.gone = TRUE]
  BY <1>0, <1>4
<1>9. \A d \in Callers :
        /\ DOMAIN call'[d] = {"at", "pass", "gone", "since"}
        /\ call'[d].at # "idle" =>
             /\ call[d].at # "idle"
             /\ call'[d].pass = call[d].pass /\ call'[d].since = call[d].since
  BY <1>0, <1>5, <1>6, <1>7, <1>8 DEF CallTimed
<1>10. GoesOn
  <2>1. file' \in Counts /\ Below(file, file')
    BY <1>0, <1>1, BelowItself
  <2>2. \A q \in Passes : pass[q].at \in Ats
    BY DEF TimesInv, PassTimes, Ats
  <2>3. current # NoPass => pass[current].at \in {"list", "read", "done"}
    BY DEF TimesInv, CallTimes
  <2>4. current' = current /\ pass' = pass /\ budget'.calls = budget.calls
    BY <1>1, <1>2
  <2>5. \A q \in Passes : /\ pass'[q].since = pass[q].since
                          /\ pass'[q].at = "none" <=> pass[q].at = "none"
                          /\ pass'[q].at \in Ats
    BY <2>2, <2>4
  <2>6. DOMAIN call' = Callers
    BY <1>7
  <2>7. current' = NoPass \/ (current' = current /\ (current # NoPass => pass'[current].at \in {"list", "read", "done"}))
    BY <2>3, <2>4
  <2>8. budget'.calls = budget.calls
    BY <2>4
  <2>. QED  BY <1>9, <2>1, <2>5, <2>6, <2>7, <2>8 DEF GoesOn
<1>11. ReaderTimes'
  BY <1>1 DEF TimesInv, ReaderTimes, ReaderTimed
<1>. QED  BY <1>3, <1>10, <1>11, TimesGoOn

LEMMA TimesStep == IInv /\ TimesInv /\ [Next]_vars => TimesInv'
<1> SUFFICES ASSUME IInv, TimesInv, [Next]_vars PROVE TimesInv'
  OBVIOUS
<1>1. CASE UNCHANGED vars
  <2>1. UNCHANGED <<rows, budget, writer, file, current, pass, call>>
    BY <1>1 DEF vars, inventory
  <2>2. Named'
    BY <2>1 DEF TimesInv, Named, BudgetShape, RowsNamed, WriterNamed, Exists
  <2>. QED  BY <2>1, <2>2, TimesStay
<1>2. CASE InventoryNext /\ UNCHANGED <<file, current, pass, call, writer>>
  BY <1>2, InventoryTimes
<1>3. CASE PassStep
  BY <1>3, LeaderTimes, ReaderKeepsTime, WriterTimes, CallEnds DEF PassStep
<1>4. ASSUME NEW c \in Callers, All(c) \/ GoAway(c)
      PROVE  TimesInv'
  BY <1>4, CallBegins, CallEnds
<1>5. CASE \E s \in Server : Resolve(s)
  BY <1>5, WriterTimes
<1>. QED  BY <1>1, <1>2, <1>3, <1>4, <1>5 DEF Next

LEMMA TimesAtFirst == Init => TimesInv
<1> SUFFICES ASSUME Init PROVE TimesInv
  OBVIOUS
<1>. USE DEF Init, InventoryInit
<1>1. BudgetShape
  BY InventoryAssumption DEF BudgetShape
<1>2. RowsNamed
  BY InventoryAssumption DEF RowsNamed, Exists, FirstRow
<1>3. WriterNamed
  BY DEF WriterNamed, NoWriter
<1>4. PassesLeft
  <2>1. BegunTo(0)
    BY DEF BegunTo, NotStarted, Passes
  <2>2. 0 \in 0..MaxPasses /\ 0 + budget.calls <= MaxPasses
    BY <1>1, RefreshPassAssumption DEF BudgetShape
  <2>. QED  BY <2>1, <2>2 DEF PassesLeft
<1>5. PassTimes
  BY DEF PassTimes, NotStarted, Counts
<1>6. ReaderTimes
  BY DEF ReaderTimes, ReaderTimed, NotStarted, NoReader, Reading
<1>7. CallTimes
  BY DEF CallTimes, CallTimed, NoCall, NoPass
<1>. QED  BY <1>1, <1>2, <1>3, <1>4, <1>5, <1>6, <1>7 DEF TimesInv, Named

(* All, startPass, endPass: whoever joins or leads which pass, an answer   *)
(* names an outcome for every server its pass listed, and says nothing     *)
(* that is older than the pass under way when the call was made.           *)
THEOREM AnswersAreRecent == Spec => AnswersAreWholeAndRecent
<1>1. ASSUME TimesInv, NEW c \in Callers, Answered(c), NEW s \in Server
      PROVE  LET r == pass[call[c].pass].reader[s] IN
             /\ r.at \notin Reading
             /\ r.at = "ok" => r.no >= call[c].since[r.host]
  <2> DEFINE p == call[c].pass
             r == pass[p].reader[s]
  <2>1. /\ call[c].at # "idle" /\ pass[p].at = "closed"
        /\ p \in Passes /\ call[c].since \in Counts /\ Below(call[c].since, pass[p].since)
    BY <1>1 DEF Answered, TimesInv, CallTimes, CallTimed
  <2>2. ReaderTimed(p, s) /\ pass[p].since \in Counts
    BY <1>1, <2>1 DEF TimesInv, ReaderTimes, PassTimes
  <2>3. r.at \notin Reading
    BY <2>1, <2>2 DEF ReaderTimed
  <2>4. ASSUME r.at = "ok"
        PROVE  r.no >= call[c].since[r.host]
    <3>1. r.host \in Host /\ r.no \in Nat /\ pass[p].since[r.host] <= r.no
      BY <2>2, <2>4 DEF ReaderTimed
    <3> HIDE DEF p, r
    <3>. QED  BY <2>1, <2>2, <3>1 DEF Counts, Below
  <2>. QED  BY <2>3, <2>4
<1>2. TimesInv => [\A c \in Callers : Answered(c) =>
         \A s \in Server :
           LET r == pass[call[c].pass].reader[s] IN
           /\ r.at \notin Reading
           /\ r.at = "ok" => r.no >= call[c].since[r.host]]_vars
  BY <1>1, Zenon
<1>3. Spec => [](IInv /\ TimesInv)
  BY InitEstablishes, StepPreserves, TimesAtFirst, TimesStep, PTL DEF Spec
<1>. QED  BY <1>2, <1>3, PTL DEF AnswersAreWholeAndRecent

=============================================================================
