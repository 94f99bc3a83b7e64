------------------------------ MODULE Inventory ------------------------------
(***************************************************************************)
(* The servers the panel manages and what it keeps beside each row: the    *)
(* key file named after it, the pooled connection, the approved host key   *)
(* (server/service.go, server/keys.go, store/server.go, transport/pool.go, *)
(* transport/hostkey.go).  Operators create, edit, test, trust, re-key and *)
(* delete servers, each in the steps of its handler; nothing but the one   *)
(* database connection and the mutex of the pool orders these steps.       *)
(*                                                                         *)
(* A key is a number, a host key the host and how often it was installed.  *)
(* Tokens of agents are kept, shown and removed as keys are.               *)
(***************************************************************************)
EXTENDS Integers, FiniteSets

CONSTANTS
  Server,        \* the identifiers the database may issue
  FirstServers,  \* the servers that are managed at first
  FirstHost,     \* and their hosts
  Host,          \* the machines a row may name
  Operator,      \* the requests under way at one time
  None,
  Budgets        \* bounds: operations, calls, writes and faults of one history

ASSUME InventoryAssumption ==
  /\ FirstServers \subseteq Server
  /\ FirstHost \in [FirstServers -> Host]
  /\ Budgets \subseteq [ops : Nat, calls : Nat, writes : Nat, faults : Nat]
  /\ None \notin Host

VARIABLES
  rows,      \* servers
  issued,    \* the identifiers AUTOINCREMENT has used up
  keys,      \* the key file of each server
  staging,   \* the file beside it a rotation writes
  made,      \* keys made so far
  pool,      \* the pooled connection of each server
  installed, \* how often the host key of each host was made anew
  cache,     \* record_cache and server_state
  op,        \* the requests under way
  budget,    \* what may still happen
  shown,     \* history: the host keys the panel has displayed, by server
  told,      \* history: the key each server was last said to have
  raced,     \* history: servers with two rotations at one time
  abandoned  \* history: rows a refused creation could not take back

inventory == <<rows, issued, keys, staging, made, pool, installed, cache, op,
               budget, shown, told, raced, abandoned>>

(* What a key file holds: nothing, the beginning of a key, or a key. *)
NoFile == 0
Part == -1
Whole(k) == k > 0

HostKey == [host : Host, no : Nat]
HostKeyOf(h) == [host |-> h, no |-> installed[h]]

Row == [host : Host, hostKey : HostKey \cup {None}, enabled : BOOLEAN, path : BOOLEAN]
Trusted(r) == r.hostKey # None

(* A pool entry: what sameEndpoint compares, and the key its connection    *)
(* was authenticated with, none while it is closed.                        *)
Entry == [host : Host, hostKey : HostKey \cup {None}, key : Int]

(* A request: where it is, on which server, the row it read, the key it    *)
(* made or the host key it approved, where the file it opened is now, and  *)
(* whether its client has gone.                                            *)
NoOp == [at |-> "idle", id |-> None, row |-> None, key |-> NoFile, hostKey |-> None,
         fd |-> "none", gone |-> FALSE]

FirstRow(s) == [host |-> FirstHost[s], hostKey |-> [host |-> FirstHost[s], no |-> 0],
                enabled |-> TRUE, path |-> TRUE]

InventoryInit ==
  /\ rows = [s \in Server |-> IF s \in FirstServers THEN FirstRow(s) ELSE None]
  /\ issued = FirstServers
  /\ made = 1
  /\ keys = [s \in Server |-> IF s \in FirstServers THEN 1 ELSE NoFile]
  /\ staging = [s \in Server |-> NoFile]
  /\ pool = [s \in Server |-> None]
  /\ installed = [h \in Host |-> 0]
  /\ cache = [s \in Server |-> None]
  /\ op = [o \in Operator |-> NoOp]
  /\ budget \in Budgets
  /\ shown = {<<s, FirstRow(s).hostKey>> : s \in FirstServers}
  /\ told = keys
  /\ raced = {} /\ abandoned = {}

-----------------------------------------------------------------------------
(* Requests. *)

Exists(s) == rows[s] # None
At(o, p) == op[o].at = p
Goto(o, p) == op' = [op EXCEPT ![o].at = p]
End(o) == op' = [op EXCEPT ![o] = NoOp]
Spend(what) == budget[what] > 0 /\ budget' = [budget EXCEPT ![what] = @ - 1]

Begin(o, p, s) ==
  /\ At(o, "idle")
  /\ Spend("ops")
  /\ op' = [op EXCEPT ![o] = [NoOp EXCEPT !.at = p, !.id = s, !.row = rows[s]]]

(* The client goes away, or the deadline passes: every statement the       *)
(* request still has to make fails.                                        *)
Leave(o) ==
  /\ ~At(o, "idle") /\ ~op[o].gone
  /\ Spend("faults")
  /\ op' = [op EXCEPT ![o].gone = TRUE]
  /\ UNCHANGED <<rows, issued, keys, staging, made, pool, installed, cache, shown,
                 told, raced, abandoned>>

Removed(p, s) == [p EXCEPT ![s] = None]

(* Mutant: the connection is left in the pool, where sameEndpoint would    *)
(* find out that the row has changed.                                      *)
EndWithPool(o) ==
  LET s == op[o].id IN
  /\ At(o, "remove")
  /\ told' = IF Whole(op[o].key) THEN [told EXCEPT ![s] = op[o].key] ELSE told
  /\ IF op[o].hostKey = None THEN End(o) ELSE Goto(o, "test")
  /\ UNCHANGED <<rows, issued, keys, staging, made, pool, installed, cache, budget, shown,
                 raced, abandoned>>

(* Pool.Remove, the last step of an update and a rotation; an approval     *)
(* goes on with a connection test.                                         *)
RemoveFromPool(o) ==
  LET s == op[o].id IN
  /\ At(o, "remove")
  /\ pool' = Removed(pool, s)
  /\ told' = IF Whole(op[o].key) THEN [told EXCEPT ![s] = op[o].key] ELSE told
  /\ IF op[o].hostKey = None THEN End(o) ELSE Goto(o, "test")
  /\ UNCHANGED <<rows, issued, keys, staging, made, installed, cache, budget, shown,
                 raced, abandoned>>

-----------------------------------------------------------------------------
(* Creating: the row, the key file that is named after it, the path of the *)
(* key in the row; and taking back what was made when one of them fails.   *)

CreateRow(o, s, h) ==
  /\ s \notin issued
  /\ Begin(o, "secret", s)
  /\ rows' = [rows EXCEPT ![s] = [host |-> h, hostKey |-> None, enabled |-> TRUE, path |-> FALSE]]
  /\ issued' = issued \cup {s}
  /\ UNCHANGED <<keys, staging, made, pool, installed, cache, shown, told, raced, abandoned>>

MakeSecret(o) ==
  /\ At(o, "secret")
  /\ \/ /\ made' = made + 1
        /\ keys' = [keys EXCEPT ![op[o].id] = made + 1]
        /\ op' = [op EXCEPT ![o].at = "path", ![o].key = made + 1]
        /\ UNCHANGED budget
     \/ (* the disk refuses the file, which is removed again *)
        /\ Spend("faults")
        /\ Goto(o, "discard")
        /\ UNCHANGED <<keys, made>>
  /\ UNCHANGED <<rows, issued, staging, pool, installed, cache, shown, told, raced, abandoned>>

SetKeyPath(o) ==
  LET s == op[o].id IN
  /\ At(o, "path")
  /\ IF Exists(s) /\ ~op[o].gone
       THEN /\ rows' = [rows EXCEPT ![s].path = TRUE]
            /\ told' = [told EXCEPT ![s] = op[o].key]
            /\ End(o)
       ELSE /\ Goto(o, "undo")
            /\ UNCHANGED <<rows, told>>
  /\ UNCHANGED <<issued, keys, staging, made, pool, installed, cache, budget, shown,
                 raced, abandoned>>

RemoveKey(o) ==
  /\ At(o, "undo")
  /\ keys' = [keys EXCEPT ![op[o].id] = NoFile]
  /\ Goto(o, "discard")
  /\ UNCHANGED <<rows, issued, staging, made, pool, installed, cache, budget, shown, told,
                 raced, abandoned>>

Discard(o) ==
  LET s == op[o].id IN
  /\ At(o, "discard")
  /\ IF op[o].gone
       THEN /\ abandoned' = IF Exists(s) THEN abandoned \cup {s} ELSE abandoned
            /\ UNCHANGED <<rows, cache>>
       ELSE /\ rows' = [rows EXCEPT ![s] = None]
            /\ cache' = [cache EXCEPT ![s] = None]
            /\ UNCHANGED abandoned
  /\ End(o)
  /\ UNCHANGED <<issued, keys, staging, made, pool, installed, budget, shown, told, raced>>

-----------------------------------------------------------------------------
(* Editing: the statement leaves the key path and the host key alone, so   *)
(* the row that was read before it decides nothing but whether the server  *)
(* exists and is complete.                                                 *)

UpdateRow(o, s, h, e) ==
  /\ Exists(s) /\ rows[s].path
  /\ Begin(o, "remove", s)
  /\ rows' = [rows EXCEPT ![s].host = h, ![s].enabled = e]
  /\ UNCHANGED <<issued, keys, staging, made, pool, installed, cache, shown, told, raced, abandoned>>

-----------------------------------------------------------------------------
(* Rotating: a new key in the file beside the old one, moved into place.   *)

Replacing(s) == \E o \in Operator : op[o].id = s /\ Whole(op[o].key) /\ At(o, "remove")
Rotating(s) ==
  Replacing(s) \/ \E o \in Operator : op[o].id = s /\ op[o].at \in {"stage", "write", "rename"}

RotateKey(o, s) ==
  /\ Exists(s) /\ rows[s].path
  /\ Begin(o, "stage", s)
  /\ raced' = IF Rotating(s) THEN raced \cup {s} ELSE raced
  /\ UNCHANGED <<rows, issued, keys, staging, made, pool, installed, cache, shown, told, abandoned>>

(* Mutant: the new key is written over the old one. *)
OpenKeyFile(o) ==
  /\ At(o, "stage")
  /\ keys' = [keys EXCEPT ![op[o].id] = Part]
  /\ op' = [op EXCEPT ![o].at = "write", ![o].fd = "key"]
  /\ UNCHANGED <<rows, issued, staging, made, pool, installed, cache, budget, shown, told,
                 raced, abandoned>>

OpenStaging(o) ==
  /\ At(o, "stage")
  /\ staging' = [staging EXCEPT ![op[o].id] = Part]
  /\ op' = [op EXCEPT ![o].at = "write", ![o].fd = "staging"]
  /\ UNCHANGED <<rows, issued, keys, made, pool, installed, cache, budget, shown, told,
                 raced, abandoned>>

(* The bytes go where the opened file is by now: another rotation may have *)
(* moved it into place, or a failed one removed it.                        *)
WriteStaging(o) ==
  LET s == op[o].id IN
  /\ At(o, "write")
  /\ \/ /\ made' = made + 1
        /\ staging' = IF op[o].fd = "staging" THEN [staging EXCEPT ![s] = made + 1] ELSE staging
        /\ keys' = IF op[o].fd = "key" THEN [keys EXCEPT ![s] = made + 1] ELSE keys
        /\ op' = [op EXCEPT ![o].at = "rename", ![o].key = made + 1]
        /\ UNCHANGED budget
     \/ /\ Spend("faults")
        /\ staging' = [staging EXCEPT ![s] = NoFile]
        /\ op' = [x \in Operator |->
                    IF x = o THEN NoOp
                    ELSE IF op[x].id = s /\ op[x].fd = "staging" THEN [op[x] EXCEPT !.fd = "none"]
                    ELSE op[x]]
        /\ UNCHANGED <<keys, made>>
  /\ UNCHANGED <<rows, issued, pool, installed, cache, shown, told, raced, abandoned>>

Rename(o) ==
  LET s == op[o].id IN
  /\ At(o, "rename")
  /\ IF staging[s] # NoFile
       THEN /\ keys' = [keys EXCEPT ![s] = staging[s]]
            /\ staging' = [staging EXCEPT ![s] = NoFile]
            /\ op' = [x \in Operator |->
                        IF x = o THEN [op[x] EXCEPT !.at = "remove", !.fd = "none"]
                        ELSE IF op[x].id = s /\ op[x].fd = "staging" THEN [op[x] EXCEPT !.fd = "key"]
                        ELSE op[x]]
       ELSE /\ End(o)
            /\ UNCHANGED <<keys, staging>>
  /\ UNCHANGED <<rows, issued, made, pool, installed, cache, budget, shown, told, raced, abandoned>>

-----------------------------------------------------------------------------
(* Deleting: the connection, the row with its cached records, the key.     *)

Delete(o, s) ==
  /\ Exists(s)
  /\ Begin(o, "row", s)
  /\ pool' = Removed(pool, s)
  /\ UNCHANGED <<rows, issued, keys, staging, made, installed, cache, shown, told, raced, abandoned>>

DeleteRow(o) ==
  LET s == op[o].id IN
  /\ At(o, "row")
  /\ IF Exists(s) /\ ~op[o].gone
       THEN /\ rows' = [rows EXCEPT ![s] = None]
            /\ cache' = [cache EXCEPT ![s] = None]
            /\ Goto(o, "key")
       ELSE /\ End(o)
            /\ UNCHANGED <<rows, cache>>
  /\ UNCHANGED <<issued, keys, staging, made, pool, installed, budget, shown, told, raced, abandoned>>

DeleteKey(o) ==
  /\ At(o, "key")
  /\ keys' = IF op[o].row.path THEN [keys EXCEPT ![op[o].id] = NoFile] ELSE keys
  /\ End(o)
  /\ UNCHANGED <<rows, issued, staging, made, pool, installed, cache, budget, shown, told,
                 raced, abandoned>>

-----------------------------------------------------------------------------
(* Connecting. *)

(* Pool.Get and dial with the row a caller holds: an open connection to    *)
(* the same endpoint is used again; otherwise the key file is read and the *)
(* host has to present the approved key.                                   *)
SameEndpoint(e, r) == e # None /\ e.host = r.host /\ e.hostKey = r.hostKey
Reuses(s, r) == SameEndpoint(pool[s], r) /\ Whole(pool[s].key)
Dials(s, r) == r.path /\ Whole(keys[s]) /\ r.hostKey = HostKeyOf(r.host)
CanReach(s, r) == Trusted(r) /\ (Reuses(s, r) \/ Dials(s, r))
Connected(s, r) ==
  [pool EXCEPT ![s] = [host |-> r.host, hostKey |-> r.hostKey,
                       key |-> IF Reuses(s, r) THEN pool[s].key ELSE keys[s]]]
Closed(s, r) ==
  IF r.path THEN [pool EXCEPT ![s] = [host |-> r.host, hostKey |-> r.hostKey, key |-> NoFile]]
            ELSE pool

TestConnection(o, s) ==
  /\ Exists(s)
  /\ Begin(o, "probe", s)
  /\ UNCHANGED <<rows, issued, keys, staging, made, pool, installed, cache, shown, told,
                 raced, abandoned>>

(* The test after an approval reads the row itself. *)
TestTrusted(o) ==
  LET s == op[o].id IN
  /\ At(o, "test")
  /\ IF Exists(s) /\ ~op[o].gone
       THEN op' = [op EXCEPT ![o].at = "probe", ![o].row = rows[s]]
       ELSE End(o)
  /\ UNCHANGED <<rows, issued, keys, staging, made, pool, installed, cache, budget, shown,
                 told, raced, abandoned>>

(* A host key that is not approved, or another one, is scanned from the    *)
(* row as it is now and shown to the operator.                             *)
Probe(o) ==
  LET s == op[o].id
      r == op[o].row IN
  /\ At(o, "probe")
  /\ IF CanReach(s, r)
       THEN pool' = Connected(s, r) /\ UNCHANGED shown
       ELSE /\ pool' = Closed(s, r)
            /\ shown' = IF Exists(s) /\ ~op[o].gone /\ Whole(keys[s]) /\ r.path /\ rows[s].path
                          THEN shown \cup {<<s, HostKeyOf(rows[s].host)>>}
                          ELSE shown
  /\ End(o)
  /\ UNCHANGED <<rows, issued, keys, staging, made, installed, cache, budget, told, raced, abandoned>>

(* Mutant: any key the host presents is taken for the one that was shown. *)
Presents(s, k) == rows[s].host \in Host

(* Approving: what was shown is compared with what the host presents now.  *)
Offered(s, k) == HostKeyOf(rows[s].host) = k

TrustHostKey(o, s, k) ==
  /\ Exists(s) /\ rows[s].path /\ Whole(keys[s])
  /\ Offered(s, k)
  /\ At(o, "idle")
  /\ Spend("ops")
  /\ op' = [op EXCEPT ![o] = [NoOp EXCEPT !.at = "trust", !.id = s,
                                           !.hostKey = HostKeyOf(rows[s].host)]]
  /\ UNCHANGED <<rows, issued, keys, staging, made, pool, installed, cache, shown, told,
                 raced, abandoned>>

SetHostKey(o) ==
  LET s == op[o].id IN
  /\ At(o, "trust")
  /\ IF Exists(s) /\ ~op[o].gone
       THEN /\ rows' = [rows EXCEPT ![s].hostKey = op[o].hostKey]
            /\ Goto(o, "remove")
       ELSE /\ End(o)
            /\ UNCHANGED rows
  /\ UNCHANGED <<issued, keys, staging, made, pool, installed, cache, budget, shown, told,
                 raced, abandoned>>

(* A machine is installed anew, or another one answers at its address.     *)
Reinstall(h) ==
  /\ Spend("faults")
  /\ installed' = [installed EXCEPT ![h] = @ + 1]
  /\ UNCHANGED <<rows, issued, keys, staging, made, pool, cache, op, shown, told, raced, abandoned>>

-----------------------------------------------------------------------------
Steps(o) ==
  \/ RemoveFromPool(o)
  \/ MakeSecret(o) \/ SetKeyPath(o) \/ RemoveKey(o) \/ Discard(o)
  \/ OpenStaging(o) \/ WriteStaging(o) \/ Rename(o)
  \/ DeleteRow(o) \/ DeleteKey(o)
  \/ Probe(o) \/ SetHostKey(o) \/ TestTrusted(o)

Begins(o, s) ==
  \/ \E h \in Host : CreateRow(o, s, h)
  \/ \E h \in Host, e \in BOOLEAN : UpdateRow(o, s, h, e)
  \/ RotateKey(o, s) \/ Delete(o, s) \/ TestConnection(o, s)
  \/ \E k \in {x[2] : x \in {y \in shown : y[1] = s}} : TrustHostKey(o, s, k)

InventoryNext ==
  \/ \E o \in Operator : Steps(o) \/ Leave(o) \/ \E s \in Server : Begins(o, s)
  \/ \E h \in Host : Reinstall(h)

-----------------------------------------------------------------------------
(* Create, RotateKey, Delete: "a server never survives without the key it  *)
(* needs to reach anything", and the key it has is the one the operator    *)
(* was given last.  Two rotations at one time (they share the file beside  *)
(* the key) and a creation whose request ended (its row is taken back on   *)
(* the same request) are the exceptions.                                   *)
Making(s) ==
  \E o \in Operator : op[o].id = s /\ op[o].at \in {"secret", "path", "undo", "discard"}

EveryServerHasItsKey ==
  \A s \in Server :
    Exists(s) /\ ~Making(s) /\ ~Replacing(s) /\ s \notin raced \cup abandoned =>
      rows[s].path /\ Whole(keys[s]) /\ keys[s] = told[s]

(* RotateKey: "The pooled connection was authenticated with the key that   *)
(* just went": once a rotation is over no connection of a managed server   *)
(* carries an earlier key, whoever opened it meanwhile.                    *)
NoConnectionKeepsAnOldKey ==
  \A s \in Server :
    Exists(s) /\ pool[s] # None /\ ~Replacing(s) /\ s \notin raced =>
      pool[s].key \in {NoFile, keys[s]}

(* hostKeyCallback, TrustHostKey: "There is no first use exception".  What *)
(* a row trusts, and what a connection was opened to, is a host key the    *)
(* panel has displayed for that server.                                    *)
TrustIsInformed ==
  \A s \in Server :
    /\ Exists(s) /\ Trusted(rows[s]) => <<s, rows[s].hostKey>> \in shown
    /\ pool[s] # None /\ Whole(pool[s].key) => <<s, pool[s].hostKey>> \in shown
=============================================================================
