-------------------------------- MODULE Fleet --------------------------------
(***************************************************************************)
(* What one request does to several servers: a change, a repair of one     *)
(* record, a repair of every difference and a mirror of a group's          *)
(* reference (Writer.Apply, Repair, RepairAll and Mirror), while other     *)
(* requests do the same, operators move servers between groups and name    *)
(* references (server.Service), and files are edited by hand.              *)
(*                                                                         *)
(* The read, the write, the check and the rollback on one server happen    *)
(* under its mutex, and ServerFile is about them: here they are one step,  *)
(* which changes the file, or fails with or without having changed it.     *)
(* A server of this module is one whose host key is trusted.               *)
(***************************************************************************)
EXTENDS RecordOps, Integers

CONSTANTS
  Server, Group,
  None,            \* no server, no group
  Requests,        \* the requests that change records
  Operators,       \* the requests that change servers and groups
  Asks,            \* what the requests ask for
  FirstFiles,      \* the files the servers may hold at first
  FirstGroup,      \* the group each server is in at first
  FirstSource,     \* the reference each group names at first
  Placements,      \* what an operator submits for a server
  Edited,          \* the lines somebody edits by hand
  MaxEvents        \* bound: requests, changes to the inventory, failed calls
                   \* and edits by hand

Target == Server \cup Group

Task ==
  [kind : {"apply"}, target : Target, op : Operation] \cup
  [kind : {"repair"}, target : Target, record : Record] \cup
  [kind : {"repair_all", "mirror"}, target : Target]

NoTask == [kind |-> "none", target |-> None]

Placement == [server : Server, group : Group \cup {None}, enabled : BOOLEAN]

ASSUME FleetAssumption ==
  /\ Server \cap Group = {}
  /\ None \notin Target
  /\ Asks \subseteq Task
  /\ FirstFiles \subseteq [Server -> Content]
  /\ FirstGroup \in [Server -> Group \cup {None}]
  /\ FirstSource \in [Group -> Server \cup {None}]
  /\ Placements \subseteq Placement
  /\ Edited \subseteq Line
  /\ MaxEvents \in Nat

VARIABLES
  file,       \* the records file of each server
  inGroup,    \* servers.group_id
  enabled,    \* servers.enabled
  source,     \* server_groups.source_server_id
  pc,         \* where each request is
  task,       \* what it asks for
  of,         \* the group whose reference a mirror copies
  from,       \* that reference
  want,       \* the records a mirror or a repair of everything brings
  unread,     \* the servers whose records it has still to collect
  live,       \* the enabled servers its target stood for when it asked
  result,     \* what it reports of each server
  desk,       \* what each operator's request is doing
  events,     \* requests, changes to the inventory and disturbances so far
  calm,       \* history: nothing but this request changed a file meanwhile
  meant,      \* history: the groups its target stood for meanwhile
  members     \* history: the enabled servers of those groups meanwhile

inventory == <<inGroup, enabled, source, desk>>
request   == <<pc, task, of, from, want, unread, live, result>>
history   == <<calm, meant, members>>
vars      == <<file, inventory, request, events, history>>

-----------------------------------------------------------------------------
(* What one server needs. *)

Listed(c) == c \cap Record

(* The lines of another file, reproduced one after the other. *)
CopyAll(c, rs) == DeclareZones(c \cup rs, rs)

AllowsCopies(c, rs) ==
  rs = {} \/ ( /\ Consistent(CopyAll(c, rs))
               /\ \A r \in rs : ~ Holds((c \cup rs) \ {r}, r) )

(* A repair sets a taken name and adds to a free one. *)
RepairOperation(c, r) ==
  [kind |-> IF TakenBy(c, r) THEN "set" ELSE "add", record |-> r]

(* Mutant: only another value of a name the source has is removed. *)
RemovedByName(c, rs) == {r \in Listed(c) \ rs : \E w \in rs : SameName(w, r)}

(* mirrorOperations: what the file lacks, and what it should not list. *)
Added(c, rs)   == rs \ c
Removed(c, rs) == Listed(c) \ rs

(* Mutant: a name that answers with another value is given a second one. *)
EveryMissing(c, rs) == {Added(c, rs)}

(* Of the records that are missing a repair of everything writes those     *)
(* whose name is free when their turn comes; the order of the collected    *)
(* records decides between two values of one name.                         *)
Free(c, ws) == \A r \in ws : ~ TakenBy(c \cup ws, r)
Writable(c, rs) ==
  {ws \in SUBSET Added(c, rs) :
     Free(c, ws) /\ \A r \in Added(c, rs) \ ws : TakenBy(c \cup ws, r)}

(* Nothing to do on a server that holds this content. *)
Skips(i, c) ==
  LET t == task[i] IN
  CASE t.kind = "apply"      -> AlreadyInPlace(t.op, c)
    [] t.kind = "repair"     -> t.record \in c
    [] t.kind = "repair_all" -> {} \in Writable(c, want[i])
    [] t.kind = "mirror"     -> Added(c, want[i]) \cup Removed(c, want[i]) = {}

(* The contents the request may leave there; none when it is refused. *)
Updates(i, c) ==
  LET t == task[i]
      Done(o) == {n \in {After(o, c)} : Allowed(o, c)}
      kept == c \ Removed(c, want[i])
  IN
  CASE t.kind = "apply"      -> Done(t.op)
    [] t.kind = "repair"     -> Done(RepairOperation(c, t.record))
    [] t.kind = "repair_all" ->
         {CopyAll(c, ws) : ws \in {w \in Writable(c, want[i]) : AllowsCopies(c, w)}}
    [] t.kind = "mirror"     ->
         {n \in {CopyAll(kept, Added(c, want[i]))} :
            AllowsCopies(kept, Added(c, want[i]))}

(* BuildDiff: the records of some server that another one does not hold. *)
Rows(ss) == UNION {Listed(file[s]) : s \in ss}
Mismatches(ss) == {r \in Rows(ss) : \E s \in ss : r \notin file[s]}

-----------------------------------------------------------------------------
(* The requests that change records. *)

Point == {"idle", "group", "source", "member", "read", "resolve", "collect",
          "write", "done", "refused"}
Outcome == {"none", "success", "failed", "skipped"}

Working == {s \in Server : enabled[s]}
MembersOf(gs) == {s \in Server : inGroup[s] \in gs /\ enabled[s]}

Init ==
  /\ file \in FirstFiles
  /\ inGroup = FirstGroup
  /\ enabled = [s \in Server |-> TRUE]
  /\ source = FirstSource
  /\ pc = [i \in Requests |-> "idle"]
  /\ task = [i \in Requests |-> NoTask]
  /\ of = [i \in Requests |-> None]
  /\ from = [i \in Requests |-> None]
  /\ want = [i \in Requests |-> {}]
  /\ unread = [i \in Requests |-> {}]
  /\ live = [i \in Requests |-> {}]
  /\ result = [i \in Requests |-> [s \in Server |-> "none"]]
  /\ desk = [m \in Operators |-> [at |-> "idle", server |-> None, groups |-> {}]]
  /\ events = 0
  /\ calm = [i \in Requests |-> TRUE]
  /\ meant = [i \in Requests |-> {}]
  /\ members = [i \in Requests |-> {}]

At(i, p) == pc[i] = p
Active(i) == pc[i] \notin {"idle", "done", "refused"}
Goto(i, p) == pc' = [pc EXCEPT ![i] = p]
Happens == events < MaxEvents /\ events' = events + 1

(* The groups a target stands for: itself, or the group of the server. *)
Stands(t, place) == IF t \in Group THEN {t} ELSE {place[t]} \ {None}

Start(i, a) ==
  LET t == a.target IN
  /\ At(i, "idle")
  /\ Happens
  /\ task' = [task EXCEPT ![i] = a]
  /\ Goto(i, IF a.kind # "mirror" THEN "resolve" ELSE IF t \in Group THEN "source" ELSE "group")
  /\ of' = [of EXCEPT ![i] = IF t \in Group THEN t ELSE None]
  /\ meant' = [meant EXCEPT ![i] = Stands(t, inGroup)]
  /\ members' = [members EXCEPT ![i] =
                   MembersOf(Stands(t, inGroup)) \cup ({t} \cap Working)]
  /\ calm' = [calm EXCEPT ![i] = TRUE]
  /\ UNCHANGED <<file, inventory, from, want, unread, live, result>>

(* sourceFor: a single server takes the reference of the group it is in. *)
ReadGroup(i) ==
  LET g == inGroup[task[i].target] IN
  /\ At(i, "group")
  /\ of' = [of EXCEPT ![i] = g]
  /\ Goto(i, IF g = None THEN "refused" ELSE "source")
  /\ UNCHANGED <<file, inventory, task, from, want, unread, live, result, events, history>>

(* SourceServer: the row of the group, then the row of the server. *)
ReadReference(i) ==
  LET s == source[of[i]] IN
  /\ At(i, "source")
  /\ from' = [from EXCEPT ![i] = s]
  /\ Goto(i, IF s = None THEN "refused" ELSE "member")
  /\ UNCHANGED <<file, inventory, task, of, want, unread, live, result, events, history>>

(* Mutant: the membership of the reference is not asked for again. *)
ReferenceIsEnabled(i) == enabled[from[i]]

ReferenceIsMember(i) ==
  LET s == from[i] IN inGroup[s] = of[i] /\ enabled[s]

ReadMember(i) ==
  /\ At(i, "member")
  /\ IF ReferenceIsMember(i) THEN Goto(i, "read") /\ UNCHANGED from
     ELSE Goto(i, "refused") /\ from' = [from EXCEPT ![i] = None]
  /\ UNCHANGED <<file, inventory, task, of, want, unread, live, result, events, history>>

(* readSource; a source without records is refused. *)
ReadSource(i) ==
  LET rs == Listed(file[from[i]]) IN
  /\ At(i, "read")
  /\ want' = [want EXCEPT ![i] = rs]
  /\ Goto(i, IF rs = {} THEN "refused" ELSE "resolve")
  /\ UNCHANGED <<file, inventory, task, of, from, unread, live, result, events, history>>

SourceFails(i) ==
  /\ At(i, "read")
  /\ Happens
  /\ Goto(i, "refused")
  /\ UNCHANGED <<file, inventory, task, of, from, want, unread, live, result, history>>

(* Targets: an empty group is refused, a disabled server is reported as    *)
(* skipped.                                                                *)
Resolve(i) ==
  LET t == task[i].target
      ss == (IF t \in Group THEN {s \in Server : inGroup[s] = t} ELSE {t})
      others == ss \ {from[i]}
  IN
  /\ At(i, "resolve")
  /\ IF ss = {} THEN Goto(i, "refused") /\ UNCHANGED <<unread, live, result>>
     ELSE /\ Goto(i, IF task[i].kind = "repair_all" THEN "collect" ELSE "write")
          /\ live' = [live EXCEPT ![i] = others \cap Working]
          /\ unread' = [unread EXCEPT ![i] = others \cap Working]
          /\ result' = [result EXCEPT ![i] =
               [s \in Server |-> IF s \in others \ Working THEN "skipped" ELSE "none"]]
  /\ UNCHANGED <<file, inventory, task, of, from, want, events, history>>

(* Mutant: every server read replaces what the others have contributed. *)
CollectLast(i, s) ==
  /\ At(i, "collect")
  /\ s \in unread[i]
  /\ unread' = [unread EXCEPT ![i] = @ \ {s}]
  /\ \/ want' = [want EXCEPT ![i] = Listed(file[s])] /\ UNCHANGED <<events, calm>>
     \/ /\ Happens
        /\ calm' = [calm EXCEPT ![i] = FALSE]
        /\ UNCHANGED want
  /\ UNCHANGED <<file, inventory, pc, task, of, from, live, result, meant, members>>

(* union: a server that cannot be read contributes nothing. *)
Collect(i, s) ==
  /\ At(i, "collect")
  /\ s \in unread[i]
  /\ unread' = [unread EXCEPT ![i] = @ \ {s}]
  /\ \/ want' = [want EXCEPT ![i] = @ \cup Listed(file[s])] /\ UNCHANGED <<events, calm>>
     \/ /\ Happens
        /\ calm' = [calm EXCEPT ![i] = FALSE]
        /\ UNCHANGED want
  /\ UNCHANGED <<file, inventory, pc, task, of, from, live, result, meant, members>>

Collected(i) ==
  /\ At(i, "collect")
  /\ unread[i] = {}
  /\ Goto(i, "write")
  /\ UNCHANGED <<file, inventory, task, of, from, want, unread, live, result, events, history>>

(* fanOut: the servers are written in any order. *)
Report(i, s, outcome) ==
  /\ At(i, "write")
  /\ s \in live[i]
  /\ result[i][s] = "none"
  /\ result' = [result EXCEPT ![i][s] = outcome]
  /\ UNCHANGED <<inventory, pc, task, of, from, want, unread, live, meant, members>>

(* Another request can no longer count on what it has read. *)
Disturbs(js) == calm' = [j \in Requests |-> calm[j] /\ j \notin js]

Skip(i, s) ==
  /\ Report(i, s, "skipped")
  /\ Skips(i, file[s])
  /\ UNCHANGED <<file, events, calm>>

Write(i, s) ==
  /\ Report(i, s, "success")
  /\ ~ Skips(i, file[s])
  /\ \E c \in Updates(i, file[s]) : file' = [file EXCEPT ![s] = c]
  /\ Disturbs(Requests \ {i})
  /\ UNCHANGED events

Refuse(i, s) ==
  /\ Report(i, s, "failed")
  /\ ~ Skips(i, file[s])
  /\ Updates(i, file[s]) = {}
  /\ UNCHANGED <<file, events, calm>>

(* A call fails; the file may have been written all the same. *)
Fail(i, s) ==
  /\ Report(i, s, "failed")
  /\ Happens
  /\ \E c \in {file[s]} \cup Updates(i, file[s]) : file' = [file EXCEPT ![s] = c]
  /\ Disturbs(Requests)

Finish(i) ==
  /\ At(i, "write")
  /\ \A s \in live[i] : result[i][s] # "none"
  /\ Goto(i, "done")
  /\ UNCHANGED <<file, inventory, task, of, from, want, unread, live, result, events, history>>

-----------------------------------------------------------------------------
(* The requests that change servers and groups. *)

(* What the requests under way may have meant: the groups and the members  *)
(* their targets have stood for since they began.                          *)
Remember ==
  /\ meant' = [i \in Requests |->
       IF Active(i) THEN meant[i] \cup Stands(task[i].target, inGroup') ELSE meant[i]]
  /\ members' = [i \in Requests |->
       IF Active(i)
       THEN members[i] \cup {s \in Server : /\ enabled'[s]
                                           /\ (inGroup'[s] \in meant'[i] \/ s = task[i].target)}
       ELSE members[i]]
  /\ UNCHANGED calm

(* Service.Update: the row of the server first. *)
UpdateServer(m, p) ==
  /\ desk[m].at = "idle"
  /\ Happens
  /\ inGroup' = [inGroup EXCEPT ![p.server] = p.group]
  /\ enabled' = [enabled EXCEPT ![p.server] = p.enabled]
  /\ desk' = [desk EXCEPT ![m] =
       [at |-> "list", server |-> p.server, groups |-> IF p.enabled THEN {p.group} ELSE {}]]
  /\ Remember
  /\ UNCHANGED <<file, source, request>>

(* releaseSourceOf: a listing of the groups, then one update after the     *)
(* other, the first failure ending it.                                     *)
ListReferences(m) ==
  LET gs == {g \in Group : source[g] = desk[m].server} \ desk[m].groups IN
  /\ desk[m].at = "list"
  /\ desk' = [desk EXCEPT ![m].at = IF gs = {} THEN "idle" ELSE "clear", ![m].groups = gs]
  /\ UNCHANGED <<file, inGroup, enabled, source, request, events, history>>

ClearReference(m, g) ==
  LET gs == desk[m].groups \ {g} IN
  /\ desk[m].at = "clear"
  /\ g \in desk[m].groups
  /\ \/ source' = [source EXCEPT ![g] = None] /\ UNCHANGED events
        /\ desk' = [desk EXCEPT ![m].at = IF gs = {} THEN "idle" ELSE "clear", ![m].groups = gs]
     \/ /\ Happens
        /\ desk' = [desk EXCEPT ![m].at = "idle"]
        /\ UNCHANGED source
  /\ UNCHANGED <<file, inGroup, enabled, request, history>>

(* UpdateGroup: requireSourceIsMember, then the row of the group. *)
CheckReference(m, g, s) ==
  /\ desk[m].at = "idle"
  /\ s # None => inGroup[s] = g /\ enabled[s]
  /\ Happens
  /\ desk' = [desk EXCEPT ![m] = [at |-> "store", server |-> s, groups |-> {g}]]
  /\ UNCHANGED <<file, inGroup, enabled, source, request, history>>

StoreReference(m) ==
  /\ desk[m].at = "store"
  /\ source' = [g \in Group |-> IF g \in desk[m].groups THEN desk[m].server ELSE source[g]]
  /\ desk' = [desk EXCEPT ![m].at = "idle"]
  /\ UNCHANGED <<file, inGroup, enabled, request, events, history>>

(* The file of a server is changed from outside while a request is under   *)
(* way; an earlier edit is another first file.                             *)
HandEdit(s, l) ==
  /\ \E i \in Requests : Active(i)
  /\ Happens
  /\ file' = [file EXCEPT ![s] = IF l \in @ THEN @ \ {l} ELSE @ \cup {l}]
  /\ Disturbs(Requests)
  /\ UNCHANGED <<inventory, request, meant, members>>

Request(i) ==
  \/ \E a \in Asks : Start(i, a)
  \/ ReadGroup(i) \/ ReadReference(i) \/ ReadMember(i)
  \/ ReadSource(i) \/ SourceFails(i) \/ Resolve(i) \/ Collected(i) \/ Finish(i)
  \/ \E s \in Server :
       Collect(i, s) \/ Skip(i, s) \/ Write(i, s) \/ Refuse(i, s) \/ Fail(i, s)

Operate(m) ==
  \/ \E p \in Placements : UpdateServer(m, p)
  \/ ListReferences(m) \/ StoreReference(m)
  \/ \E g \in Group : ClearReference(m, g) \/ \E s \in Server \cup {None} : CheckReference(m, g, s)

Next ==
  \/ \E i \in Requests : Request(i)
  \/ \E m \in Operators : Operate(m)
  \/ \E s \in Server, l \in Edited : HandEdit(s, l)

Spec == Init /\ [][Next]_vars

-----------------------------------------------------------------------------
(* Properties. *)

(* The types of the variables. *)
TypeOK ==
  /\ file \in [Server -> Content]
  /\ inGroup \in [Server -> Group \cup {None}]
  /\ enabled \in [Server -> BOOLEAN]
  /\ source \in [Group -> Server \cup {None}]
  /\ pc \in [Requests -> Point]
  /\ task \in [Requests -> Asks \cup {NoTask}]
  /\ of \in [Requests -> Group \cup {None}]
  /\ from \in [Requests -> Server \cup {None}]
  /\ want \in [Requests -> SUBSET Record]
  /\ unread \in [Requests -> SUBSET Server]
  /\ live \in [Requests -> SUBSET Server]
  /\ result \in [Requests -> [Server -> Outcome]]
  /\ desk \in [Operators -> [at : {"idle", "list", "clear", "store"},
                             server : Server \cup {None}, groups : SUBSET (Group \cup {None})]]
  /\ events \in 0..MaxEvents
  /\ calm \in [Requests -> BOOLEAN]
  /\ meant \in [Requests -> SUBSET Group]
  /\ members \in [Requests -> SUBSET Server]

(* RepairAll takes nothing away and decides nothing: a server it writes    *)
(* keeps every line it had, gains only lines some server of the target     *)
(* held and the zones they need, and no name of it gains a second value    *)
(* (fleet/diff.go:397 and 488).                                            *)
RepairAllAddsWhatIsFree ==
  [][\A i \in Requests, s \in Server :
       /\ task[i].kind = "repair_all"
       /\ result[i][s] = "none" /\ result'[i][s] = "success"
       => /\ file[s] \subseteq file'[s]
          /\ Listed(file'[s]) \subseteq file[s] \cup want[i]
          /\ \A r \in file'[s] \ file[s] : ~ TakenBy(file'[s], r)]_vars

(* A mirror leaves the records of its source on the server it writes,      *)
(* whatever was there by the time it came to it (diff.go:589).             *)
MirrorIsExact ==
  [][\A i \in Requests, s \in Server :
       /\ task[i].kind = "mirror"
       /\ result[i][s] = "none" /\ result'[i][s] \in {"success", "skipped"} /\ s \in live[i]
       => Listed(file'[s]) = want[i]]_vars

(* Once a request that nothing disturbed is done without a failure, the    *)
(* comparison of its servers shows what it promised to close: nothing      *)
(* after a mirror, two values of one name after a repair of everything.    *)
ClosesTheDifferences ==
  \A i \in Requests :
    /\ pc[i] = "done" /\ calm[i]
    /\ \A s \in live[i] : result[i][s] \in {"success", "skipped"}
    => /\ task[i].kind = "mirror" => Mismatches(live[i] \cup {from[i]}) = {}
       /\ task[i].kind = "repair_all" =>
            \A r \in Mismatches(live[i]), s \in live[i] :
              r \in file[s] \/ TakenBy(file[s], r)

(* Records never travel between groups: a mirror copies from an enabled    *)
(* server that was in the mirrored group since the request began, and a    *)
(* request writes only such servers, though groups and references change   *)
(* under it (diff.go:594, groupservice.go:111).                            *)
OnlyMembersTakePart ==
  \A i \in Requests :
    /\ pc[i] \in {"read", "resolve", "write", "done"} /\ from[i] # None => from[i] \in members[i]
    /\ \A s \in live[i] : result[i][s] # "none" => s \in members[i]
=============================================================================
