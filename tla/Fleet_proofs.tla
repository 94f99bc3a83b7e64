---------------------------- MODULE Fleet_proofs ----------------------------
(***************************************************************************)
(* Theorems about Fleet for every set of servers, groups, records and      *)
(* requests, and every value of the bound.                                 *)
(***************************************************************************)
EXTENDS Fleet, TLAPS

-----------------------------------------------------------------------------
(* The inductive invariant, in the parts the theorems need. *)

Before  == {"idle", "group", "source", "member", "read", "resolve"}
Writing == {"write", "done"}

(* A request under way remembers every group its target has stood for, and *)
(* every enabled server of them.                                           *)
Remembers(i) ==
  Active(i) =>
    /\ task[i] \in Asks
    /\ Stands(task[i].target, inGroup) \subseteq meant[i]
    /\ \A s \in Server :
         enabled[s] /\ (inGroup[s] \in meant[i] \/ s = task[i].target) => s \in members[i]

(* How a mirror has come by its source. *)
SourceKnown(i) ==
  /\ pc[i] \in {"group", "source", "member", "read"} => task[i].kind = "mirror"
  /\ At(i, "collect") => task[i].kind = "repair_all"
  /\ At(i, "group") => task[i].target \in Server
  /\ pc[i] \in {"source", "member"} => of[i] \in meant[i]
  /\ pc[i] \in {"idle", "group", "source"} => from[i] = None
  /\ pc[i] \in {"member", "read"} => from[i] # None
  /\ pc[i] \in {"resolve"} \cup Writing /\ task[i].kind = "mirror" => from[i] # None
  /\ from[i] # None /\ ~ At(i, "member") => from[i] \in members[i]

(* The servers a request writes were members, and the source is not one.   *)
LiveKnown(i) ==
  /\ pc[i] \in Before => live[i] = {}
  /\ live[i] \subseteq members[i]
  /\ from[i] \notin live[i]
  /\ unread[i] \subseteq live[i]

Reported(i, s) == result[i][s] \in {"success", "skipped"}

(* What an undisturbed mirror and repair of everything have established.   *)
MirrorHolds(i) ==
  calm[i] /\ task[i].kind = "mirror" =>
    /\ pc[i] \in {"resolve"} \cup Writing => want[i] = Listed(file[from[i]])
    /\ pc[i] \in Writing => \A s \in live[i] : Reported(i, s) => Listed(file[s]) = want[i]

RepairHolds(i) ==
  calm[i] /\ task[i].kind = "repair_all" =>
    /\ At(i, "collect") => \A s \in live[i] :
         ~ Reported(i, s) /\ (s \notin unread[i] => Listed(file[s]) \subseteq want[i])
    /\ pc[i] \in Writing => \A s \in live[i] :
         /\ Listed(file[s]) \subseteq want[i]
         /\ Reported(i, s) => \A r \in want[i] : r \in file[s] \/ TakenBy(file[s], r)

RequestInv(i) ==
  Remembers(i) /\ SourceKnown(i) /\ LiveKnown(i) /\ MirrorHolds(i) /\ RepairHolds(i)

IInv == TypeOK /\ \A i \in Requests : RequestInv(i)

-----------------------------------------------------------------------------
(* Lemmas about the contents of a records file. *)

(* A copy of lines into a file keeps what is there, brings those lines,    *)
(* and adds nothing else that the panel lists.                             *)
LEMMA CopyBringsTheLines ==
  ASSUME NEW c \in Content, NEW rs \in SUBSET Record
  PROVE  /\ CopyAll(c, rs) \in Content
         /\ c \subseteq CopyAll(c, rs) /\ rs \subseteq CopyAll(c, rs)
         /\ CopyAll(c, rs) \subseteq c \cup rs \cup Zone
         /\ Listed(CopyAll(c, rs)) = Listed(c) \cup rs
<1>1. UNION {ParentOf[r] : r \in rs \ Policy} \subseteq Zone
  BY RecordAssumption DEF RecordShape
<1>2. CopyAll(c, rs) \subseteq c \cup rs \cup Zone
  BY <1>1 DEF CopyAll, DeclareZones
<1>3. c \subseteq CopyAll(c, rs) /\ rs \subseteq CopyAll(c, rs)
  BY DEF CopyAll, DeclareZones
<1>. QED  BY <1>2, <1>3, RecordAssumption DEF RecordShape, Content, Line, Listed

(* A name that is taken stays taken when lines are added. *)
LEMMA TakenStays ==
  ASSUME NEW c, NEW d, c \subseteq d, NEW r, TakenBy(c, r)
  PROVE  TakenBy(d, r)
BY DEF TakenBy

(* The zone lines a copy brings take no name from anybody. *)
LEMMA ZonesTakeNothing ==
  ASSUME NEW c \in Content, NEW rs \in SUBSET Record, NEW r \in CopyAll(c, rs),
         TakenBy(CopyAll(c, rs), r)
  PROVE  r \in Record /\ TakenBy(c \cup rs, r)
<1>0. r \in OneValue
  BY DEF TakenBy
<1>1. PICK o \in CopyAll(c, rs) \ {r} : SameName(o, r)
  BY DEF TakenBy
<1>2. o \notin Zone
  BY <1>0, <1>1, RecordAssumption DEF RecordShape, SameName
<1>3. o \in c \cup rs
  BY <1>1, <1>2, CopyBringsTheLines
<1>. QED  BY <1>0, <1>1, <1>3, RecordAssumption DEF RecordShape, TakenBy

(* An operation of the record pages turns a file into a file. *)
LEMMA AfterIsContent ==
  ASSUME NEW o \in Operation, NEW c \in Content
  PROVE  After(o, c) \in Content
<1>1. ASSUME NEW d \in Content, NEW rs \in SUBSET Record
      PROVE  DeclareZones(d, rs) \in Content
  BY <1>1, RecordAssumption DEF RecordShape, DeclareZones, Content, Line
<1>2. CASE o \in OneRecord
  BY <1>1, <1>2 DEF OneRecord, After, Content, Line
<1>3. CASE o \in SetOne
  BY <1>1, <1>3, RecordAssumption DEF RecordShape, SetOne, After, Content, Line
<1>4. CASE o \in Edit
  BY <1>1, <1>4 DEF Edit, After, Content, Line
<1>5. CASE o \in Batch
  BY <1>1, <1>5 DEF Batch, After, Content, Line
<1>. QED  BY <1>2, <1>3, <1>4, <1>5 DEF Operation

(* What a mirror leaves on a server lists exactly what its source lists.   *)
LEMMA MirrorCopies ==
  ASSUME NEW i, task[i].kind = "mirror", want[i] \in SUBSET Record,
         NEW c \in Content, NEW n \in Updates(i, c)
  PROVE  n \in Content /\ Listed(n) = want[i]
<1>1. n = CopyAll(c \ Removed(c, want[i]), Added(c, want[i]))
  BY DEF Updates
<1>2. c \ Removed(c, want[i]) \in Content /\ Added(c, want[i]) \in SUBSET Record
  BY DEF Content, Added
<1>3. n \in Content
      /\ Listed(n) = Listed(c \ Removed(c, want[i])) \cup Added(c, want[i])
  BY <1>1, <1>2, CopyBringsTheLines
<1>. QED  BY <1>3 DEF Listed, Removed, Added

(* What a repair of everything leaves on a server. *)
LEMMA RepairAdds ==
  ASSUME NEW i, task[i].kind = "repair_all", want[i] \in SUBSET Record,
         NEW c \in Content, NEW n \in Updates(i, c)
  PROVE  /\ n \in Content /\ c \subseteq n
         /\ Listed(n) \subseteq c \cup want[i]
         /\ \A r \in n \ c : ~ TakenBy(n, r)
         /\ \A r \in want[i] : r \in n \/ TakenBy(n, r)
<1>1. PICK ws \in Writable(c, want[i]) : n = CopyAll(c, ws)
  BY DEF Updates
<1>2. /\ ws \subseteq Added(c, want[i]) /\ Free(c, ws)
      /\ \A r \in Added(c, want[i]) \ ws : TakenBy(c \cup ws, r)
  BY DEF Writable
<1>3. ws \in SUBSET Record /\ ws \subseteq want[i]
  BY <1>2 DEF Added
<1>4. /\ n \in Content /\ c \subseteq n /\ ws \subseteq n
      /\ n \subseteq c \cup ws \cup Zone
      /\ Listed(n) = Listed(c) \cup ws
  BY <1>1, <1>3, CopyBringsTheLines
<1>5. ASSUME NEW r \in n \ c, TakenBy(n, r)
      PROVE  FALSE
  <2>1. r \in Record /\ TakenBy(c \cup ws, r)
    BY <1>1, <1>3, <1>5, ZonesTakeNothing
  <2>2. r \in ws
    BY <1>4, <1>5, <2>1, RecordAssumption DEF RecordShape
  <2>. QED  BY <1>2, <2>1, <2>2 DEF Free
<1>6. ASSUME NEW r \in want[i], r \notin n
      PROVE  TakenBy(n, r)
  <2>1. r \in Added(c, want[i]) \ ws
    BY <1>4, <1>6 DEF Added
  <2>2. c \cup ws \subseteq n
    BY <1>4
  <2>. QED  BY <1>2, <2>1, <2>2, TakenStays
<1>. QED  BY <1>3, <1>4, <1>5, <1>6 DEF Listed

(* Whatever a request does on a server leaves a records file. *)
LEMMA UpdatesAreContents ==
  ASSUME NEW i, task[i] \in Task, want[i] \in SUBSET Record,
         NEW c \in Content, NEW n \in Updates(i, c)
  PROVE  n \in Content
<1>1. CASE task[i].kind = "apply"
  <2>1. n = After(task[i].op, c)
    BY <1>1 DEF Updates
  <2>2. task[i].op \in Operation
    BY <1>1 DEF Task
  <2>. QED  BY <2>1, <2>2, AfterIsContent
<1>2. CASE task[i].kind = "repair"
  <2>1. n = After(RepairOperation(c, task[i].record), c)
    BY <1>2 DEF Updates
  <2>2. task[i].record \in Record
    BY <1>2 DEF Task
  <2>3. RepairOperation(c, task[i].record) \in Operation
    BY <2>2 DEF RepairOperation, Operation, OneRecord, SetOne, TakenBy
  <2>. QED  BY <2>1, <2>3, AfterIsContent
<1>3. CASE task[i].kind = "repair_all"
  BY <1>3, RepairAdds
<1>4. CASE task[i].kind = "mirror"
  BY <1>4, MirrorCopies
<1>. QED  BY <1>1, <1>2, <1>3, <1>4 DEF Task

-----------------------------------------------------------------------------
LEMMA InitType == Init => TypeOK
<1>. SUFFICES ASSUME Init PROVE TypeOK  OBVIOUS
<1>1. file \in [Server -> Content] /\ inGroup \in [Server -> Group \cup {None}]
      /\ source \in [Group -> Server \cup {None}]
  BY FleetAssumption DEF Init
<1>2. enabled \in [Server -> BOOLEAN] /\ calm \in [Requests -> BOOLEAN]
  BY Zenon DEF Init
<1>3. /\ pc \in [Requests -> Point]
      /\ task \in [Requests -> Asks \cup {NoTask}]
      /\ of \in [Requests -> Group \cup {None}]
      /\ from \in [Requests -> Server \cup {None}]
      /\ want \in [Requests -> SUBSET Record]
      /\ unread \in [Requests -> SUBSET Server]
      /\ live \in [Requests -> SUBSET Server]
      /\ result \in [Requests -> [Server -> Outcome]]
      /\ meant \in [Requests -> SUBSET Group]
      /\ members \in [Requests -> SUBSET Server]
  BY DEF Init, Point, Outcome
<1>4. desk \in [Operators -> [at : {"idle", "list", "clear", "store"},
                             server : Server \cup {None}, groups : SUBSET (Group \cup {None})]]
  BY DEF Init
<1>5. events \in 0..MaxEvents
  BY FleetAssumption DEF Init
<1>. QED  BY <1>1, <1>2, <1>3, <1>4, <1>5 DEF TypeOK

(* Only a booking moves the count, and it stays in its bound. *)
LEMMA EventsStayBounded ==
  ASSUME TypeOK, Happens \/ UNCHANGED events
  PROVE  events' \in 0..MaxEvents
BY FleetAssumption DEF TypeOK, Happens

LEMMA DisturbsKeepsType ==
  ASSUME TypeOK, NEW js, Disturbs(js)
  PROVE  /\ calm' \in [Requests -> BOOLEAN]
         /\ \A j \in Requests : calm'[j] <=> calm[j] /\ j \notin js
<1>1. calm' = [j \in Requests |-> calm[j] /\ j \notin js]
  BY DEF Disturbs
<1>. QED  BY <1>1, Zenon

LEMMA TypeStep ==
  ASSUME IInv, Next
  PROVE  TypeOK'
<1>. USE DEF Goto, request, inventory, history
<1>0. /\ TypeOK
      /\ \A i \in Requests : SourceKnown(i) /\ Remembers(i)
  BY DEF IInv, RequestInv
<1>. USE <1>0
<1>1. ASSUME NEW i \in Requests, NEW a \in Asks, Start(i, a)
      PROVE  TypeOK'
  <2>1. events' \in 0..MaxEvents
    BY <1>1, EventsStayBounded DEF Start, Task, Target, Stands, MembersOf, Working
  <2>. QED  BY <1>1, <2>1, FleetAssumption DEF TypeOK, Point, Start, Task, Target, Stands, MembersOf, Working
<1>2. ASSUME NEW i \in Requests, ReadGroup(i)
      PROVE  TypeOK'
  <2>1. events' \in 0..MaxEvents
    BY <1>2, EventsStayBounded DEF ReadGroup
  <2>2. task[i].target \in Server
    BY <1>2 DEF SourceKnown, ReadGroup, At
  <2>. QED  BY <1>2, <2>1, <2>2 DEF TypeOK, Point, ReadGroup
<1>3. ASSUME NEW i \in Requests, ReadReference(i)
      PROVE  TypeOK'
  <2>1. events' \in 0..MaxEvents
    BY <1>3, EventsStayBounded DEF ReadReference
  <2>2. of[i] \in Group
    BY <1>3 DEF SourceKnown, ReadReference, At, TypeOK
  <2>. QED  BY <1>3, <2>1, <2>2 DEF TypeOK, Point, ReadReference
<1>4. ASSUME NEW i \in Requests, ReadMember(i)
      PROVE  TypeOK'
  <2>1. events' \in 0..MaxEvents
    BY <1>4, EventsStayBounded DEF ReadMember
  <2>. QED  BY <1>4, <2>1 DEF TypeOK, Point, ReadMember
<1>5. ASSUME NEW i \in Requests, ReadSource(i)
      PROVE  TypeOK'
  <2>1. events' \in 0..MaxEvents
    BY <1>5, EventsStayBounded DEF ReadSource, Listed
  <2>. QED  BY <1>5, <2>1 DEF TypeOK, Point, ReadSource, Listed
<1>6. ASSUME NEW i \in Requests, SourceFails(i)
      PROVE  TypeOK'
  <2>1. events' \in 0..MaxEvents
    BY <1>6, EventsStayBounded DEF SourceFails
  <2>. QED  BY <1>6, <2>1 DEF TypeOK, Point, SourceFails
<1>7. ASSUME NEW i \in Requests, Resolve(i)
      PROVE  TypeOK'
  <2>1. events' \in 0..MaxEvents
    BY <1>7, EventsStayBounded DEF Resolve, Working, Outcome
  <2>2. pc' \in [Requests -> Point]
    BY <1>7 DEF Resolve, TypeOK, Point
  <2>3. /\ live' \in [Requests -> SUBSET Server]
        /\ unread' \in [Requests -> SUBSET Server]
    <3>1. \/ UNCHANGED <<live, unread>>
          \/ \E ss \in SUBSET Server : live' = [live EXCEPT ![i] = ss] /\ unread' = [unread EXCEPT ![i] = ss]
      BY <1>7 DEF Resolve, Working
    <3>2. live \in [Requests -> SUBSET Server] /\ unread \in [Requests -> SUBSET Server]
      BY DEF TypeOK
    <3>. QED  BY <3>1, <3>2
  <2>4. result' \in [Requests -> [Server -> Outcome]]
    <3>. DEFINE t == task[i].target
                others == (IF t \in Group THEN {s \in Server : inGroup[s] = t} ELSE {t}) \ {from[i]}
    <3>1. \/ UNCHANGED result
          \/ result' = [result EXCEPT ![i] =
                          [s \in Server |-> IF s \in others \ Working THEN "skipped" ELSE "none"]]
      BY <1>7, Zenon DEF Resolve
    <3>2. result \in [Requests -> [Server -> Outcome]]
      BY DEF TypeOK
    <3>. QED  BY <3>1, <3>2 DEF Outcome
  <2>. QED  BY <1>7, <2>1, <2>2, <2>3, <2>4 DEF TypeOK, Resolve
<1>8. ASSUME NEW i \in Requests, Collected(i)
      PROVE  TypeOK'
  <2>1. events' \in 0..MaxEvents
    BY <1>8, EventsStayBounded DEF Collected
  <2>. QED  BY <1>8, <2>1 DEF TypeOK, Point, Collected
<1>9. ASSUME NEW i \in Requests, Finish(i)
      PROVE  TypeOK'
  <2>1. events' \in 0..MaxEvents
    BY <1>9, EventsStayBounded DEF Finish
  <2>. QED  BY <1>9, <2>1 DEF TypeOK, Point, Finish
<1>10. ASSUME NEW i \in Requests, NEW s \in Server, Collect(i, s)
      PROVE  TypeOK'
  <2>1. events' \in 0..MaxEvents
    BY <1>10, EventsStayBounded DEF Collect, Listed
  <2>2. want' \in [Requests -> SUBSET Record]
    <3>1. want' \in {want, [want EXCEPT ![i] = want[i] \cup Listed(file[s])]}
      BY <1>10 DEF Collect
    <3>2. want[i] \cup Listed(file[s]) \in SUBSET Record
      BY DEF TypeOK, Listed
    <3>. QED  BY <3>1, <3>2 DEF TypeOK
  <2>3. calm' \in [Requests -> BOOLEAN]
    BY <1>10, Zenon DEF Collect, TypeOK
  <2>4. unread' \in [Requests -> SUBSET Server]
    BY <1>10 DEF Collect, TypeOK
  <2>. QED  BY <1>10, <2>1, <2>2, <2>3, <2>4 DEF TypeOK, Collect
<1>11. ASSUME NEW i \in Requests, NEW s \in Server, Skip(i, s)
      PROVE  TypeOK'
  <2>1. events' \in 0..MaxEvents
    BY <1>11, EventsStayBounded DEF Skip, Report, Outcome
  <2>. QED  BY <1>11, <2>1 DEF TypeOK, Point, Skip, Report, Outcome
<1>12. ASSUME NEW i \in Requests, NEW s \in Server, Write(i, s)
      PROVE  TypeOK'
  <2>1. events' \in 0..MaxEvents
    BY <1>12, EventsStayBounded DEF Write, Report, Outcome
  <2>2. task[i] \in Task /\ want[i] \in SUBSET Record /\ file[s] \in Content
    BY <1>12, FleetAssumption DEF Write, Report, TypeOK, At, Active, Remembers
  <2>3. file' \in [Server -> Content]
    <3>1. PICK c \in Updates(i, file[s]) : file' = [file EXCEPT ![s] = c]
      BY <1>12 DEF Write
    <3>2. c \in Content
      BY <2>2, UpdatesAreContents
    <3>. QED  BY <3>1, <3>2 DEF TypeOK
  <2>4. calm' \in [Requests -> BOOLEAN]
    BY <1>12, DisturbsKeepsType DEF Write
  <2>5. result' \in [Requests -> [Server -> Outcome]]
    BY <1>12 DEF Write, Report, TypeOK, Outcome
  <2>. QED  BY <1>12, <2>1, <2>3, <2>4, <2>5 DEF TypeOK, Write, Report
<1>13. ASSUME NEW i \in Requests, NEW s \in Server, Refuse(i, s)
      PROVE  TypeOK'
  <2>1. events' \in 0..MaxEvents
    BY <1>13, EventsStayBounded DEF Refuse, Report, Outcome
  <2>. QED  BY <1>13, <2>1 DEF TypeOK, Point, Refuse, Report, Outcome
<1>14. ASSUME NEW i \in Requests, NEW s \in Server, Fail(i, s)
      PROVE  TypeOK'
  <2>1. events' \in 0..MaxEvents
    BY <1>14, EventsStayBounded DEF Fail, Report, Outcome
  <2>2. task[i] \in Task /\ want[i] \in SUBSET Record /\ file[s] \in Content
    BY <1>14, FleetAssumption DEF Fail, Report, TypeOK, At, Active, Remembers
  <2>3. file' \in [Server -> Content]
    <3>1. PICK c \in {file[s]} \cup Updates(i, file[s]) : file' = [file EXCEPT ![s] = c]
      BY <1>14 DEF Fail
    <3>2. c \in Content
      BY <2>2, UpdatesAreContents
    <3>. QED  BY <3>1, <3>2 DEF TypeOK
  <2>4. calm' \in [Requests -> BOOLEAN]
    BY <1>14, DisturbsKeepsType DEF Fail
  <2>5. result' \in [Requests -> [Server -> Outcome]]
    BY <1>14 DEF Fail, Report, TypeOK, Outcome
  <2>. QED  BY <1>14, <2>1, <2>3, <2>4, <2>5 DEF TypeOK, Fail, Report
<1>15. ASSUME NEW m \in Operators, NEW p \in Placements, UpdateServer(m, p)
      PROVE  TypeOK'
  <2>1. events' \in 0..MaxEvents
    BY <1>15, EventsStayBounded DEF UpdateServer, Remember
  <2>2. p \in Placement
    BY FleetAssumption
  <2>3. /\ inGroup' \in [Server -> Group \cup {None}]
        /\ desk' \in [Operators -> [at : {"idle", "list", "clear", "store"},
                             server : Server \cup {None}, groups : SUBSET (Group \cup {None})]]
    BY <1>15, <2>2 DEF UpdateServer, Placement, TypeOK
  <2>4. enabled' \in [Server -> BOOLEAN]
    BY <1>15, <2>2, Zenon DEF UpdateServer, Placement, TypeOK
  <2>5. ASSUME NEW j \in Requests, Active(j)
        PROVE  Stands(task[j].target, inGroup') \subseteq Group
    <3>1. task[j].target \in Target
      BY <2>5, FleetAssumption DEF Remembers, Task
    <3>. QED  BY <2>3, <3>1 DEF Stands, Target
  <2>6. /\ meant' \in [Requests -> SUBSET Group]
        /\ members' \in [Requests -> SUBSET Server]
    BY <1>15, <2>5 DEF UpdateServer, Remember, TypeOK
  <2>. QED  BY <1>15, <2>1, <2>3, <2>4, <2>6 DEF TypeOK, UpdateServer, Remember
<1>16. ASSUME NEW m \in Operators, ListReferences(m)
      PROVE  TypeOK'
  <2>1. events' \in 0..MaxEvents
    BY <1>16, EventsStayBounded DEF ListReferences
  <2>2. desk' \in [Operators -> [at : {"idle", "list", "clear", "store"},
                             server : Server \cup {None}, groups : SUBSET (Group \cup {None})]]
    <3>1. PICK a \in {"idle", "clear"}, gs \in SUBSET (Group \cup {None}) :
            desk' = [desk EXCEPT ![m].at = a, ![m].groups = gs]
      BY <1>16 DEF ListReferences
    <3>2. desk \in [Operators -> [at : {"idle", "list", "clear", "store"},
                             server : Server \cup {None}, groups : SUBSET (Group \cup {None})]]
      BY DEF TypeOK
    <3>. QED  BY <3>1, <3>2
  <2>3. UNCHANGED <<file, inGroup, enabled, source, request, events, history>>
    BY <1>16 DEF ListReferences
  <2>. QED  BY <2>1, <2>2, <2>3 DEF TypeOK
<1>17. ASSUME NEW m \in Operators, StoreReference(m)
      PROVE  TypeOK'
  <2>1. events' \in 0..MaxEvents
    BY <1>17, EventsStayBounded DEF StoreReference
  <2>2. desk' \in [Operators -> [at : {"idle", "list", "clear", "store"},
                             server : Server \cup {None}, groups : SUBSET (Group \cup {None})]]
    <3>1. desk' = [desk EXCEPT ![m].at = "idle"]
      BY <1>17 DEF StoreReference
    <3>2. desk \in [Operators -> [at : {"idle", "list", "clear", "store"},
                             server : Server \cup {None}, groups : SUBSET (Group \cup {None})]]
      BY DEF TypeOK
    <3>. QED  BY <3>1, <3>2
  <2>3. source' \in [Group -> Server \cup {None}]
    BY <1>17 DEF StoreReference, TypeOK
  <2>. QED  BY <1>17, <2>1, <2>2, <2>3 DEF TypeOK, StoreReference
<1>18. ASSUME NEW m \in Operators, NEW g \in Group, ClearReference(m, g)
      PROVE  TypeOK'
  <2>1. events' \in 0..MaxEvents
    BY <1>18, EventsStayBounded DEF ClearReference
  <2>2. desk' \in [Operators -> [at : {"idle", "list", "clear", "store"},
                             server : Server \cup {None}, groups : SUBSET (Group \cup {None})]]
    <3>1. \/ desk' = [desk EXCEPT ![m].at = "idle"]
          \/ \E a \in {"idle", "clear"} :
               desk' = [desk EXCEPT ![m].at = a, ![m].groups = desk[m].groups \ {g}]
      BY <1>18 DEF ClearReference
    <3>2. desk \in [Operators -> [at : {"idle", "list", "clear", "store"},
                             server : Server \cup {None}, groups : SUBSET (Group \cup {None})]]
      BY DEF TypeOK
    <3>. QED  BY <3>1, <3>2
  <2>3. source' \in [Group -> Server \cup {None}]
    BY <1>18 DEF ClearReference, TypeOK
  <2>. QED  BY <1>18, <2>1, <2>2, <2>3 DEF TypeOK, ClearReference
<1>19. ASSUME NEW m \in Operators, NEW g \in Group, NEW s \in Server \cup {None}, CheckReference(m, g, s)
      PROVE  TypeOK'
  <2>1. events' \in 0..MaxEvents
    BY <1>19, EventsStayBounded DEF CheckReference
  <2>. QED  BY <1>19, <2>1 DEF TypeOK, Point, CheckReference
<1>20. ASSUME NEW s \in Server, NEW l \in Edited, HandEdit(s, l)
      PROVE  TypeOK'
  <2>1. events' \in 0..MaxEvents
    BY <1>20, EventsStayBounded DEF HandEdit
  <2>2. file' \in [Server -> Content]
    BY <1>20, FleetAssumption DEF HandEdit, TypeOK, Content
  <2>3. calm' \in [Requests -> BOOLEAN]
    BY <1>20, DisturbsKeepsType DEF HandEdit
  <2>. QED  BY <1>20, <2>1, <2>2, <2>3 DEF TypeOK, HandEdit
<1>. QED
  BY <1>1, <1>2, <1>3, <1>4, <1>5, <1>6, <1>7, <1>8, <1>9, <1>10, <1>11, <1>12, <1>13, <1>14, <1>15, <1>16, <1>17, <1>18, <1>19, <1>20 DEF Next, Request, Operate

-----------------------------------------------------------------------------
(* What is known of a request depends on its own variables, on the groups  *)
(* and, while it is undisturbed, on the files.                             *)
Same(j) ==
  /\ pc'[j] = pc[j] /\ task'[j] = task[j] /\ of'[j] = of[j] /\ from'[j] = from[j]
  /\ want'[j] = want[j] /\ unread'[j] = unread[j] /\ live'[j] = live[j]
  /\ result'[j] = result[j] /\ meant'[j] = meant[j] /\ members'[j] = members[j]
  /\ calm'[j] => calm[j] /\ file' = file

LEMMA SameKeeps ==
  ASSUME NEW j \in Requests, RequestInv(j), Same(j), UNCHANGED <<inGroup, enabled>>
  PROVE  RequestInv(j)'
<1>1. Remembers(j)'
  BY DEF RequestInv, Same, Remembers, Active, Stands
<1>2. SourceKnown(j)' /\ LiveKnown(j)'
  BY DEF RequestInv, Same, SourceKnown, LiveKnown, At
<1>3. MirrorHolds(j)' /\ RepairHolds(j)'
  BY DEF RequestInv, Same, MirrorHolds, RepairHolds, Reported, At
<1>. QED  BY <1>1, <1>2, <1>3 DEF RequestInv

(* A request leaves the others alone, and whoever it writes under knows.   *)
LEMMA RequestFrame ==
  ASSUME TypeOK, NEW i \in Requests, Request(i)
  PROVE  /\ UNCHANGED <<inGroup, enabled, source, desk>>
         /\ \A j \in Requests \ {i} : Same(j)
<1>. SUFFICES ASSUME NEW j \in Requests \ {i}
              PROVE  UNCHANGED <<inGroup, enabled, source, desk>> /\ Same(j)
  <2>1. CASE Requests = {i}
    BY <2>1
    DEF Request, Start, ReadGroup, ReadReference, ReadMember, ReadSource, SourceFails,
        Resolve, Collected, Finish, Collect, Skip, Write, Refuse, Fail, Report, inventory
  <2>2. CASE Requests # {i}
    BY <2>2
  <2>. QED  BY <2>1, <2>2
<1>. USE DEF Goto, Same, inventory, history, TypeOK
<1>1. ASSUME NEW a \in Asks, Start(i, a)
      PROVE  UNCHANGED <<inGroup, enabled, source, desk>> /\ Same(j)
  BY <1>1 DEF Start
<1>2. ASSUME ReadGroup(i)
      PROVE  UNCHANGED <<inGroup, enabled, source, desk>> /\ Same(j)
  BY <1>2 DEF ReadGroup
<1>3. ASSUME ReadReference(i)
      PROVE  UNCHANGED <<inGroup, enabled, source, desk>> /\ Same(j)
  BY <1>3 DEF ReadReference
<1>4. ASSUME ReadMember(i)
      PROVE  UNCHANGED <<inGroup, enabled, source, desk>> /\ Same(j)
  BY <1>4 DEF ReadMember
<1>5. ASSUME ReadSource(i)
      PROVE  UNCHANGED <<inGroup, enabled, source, desk>> /\ Same(j)
  BY <1>5 DEF ReadSource
<1>6. ASSUME SourceFails(i)
      PROVE  UNCHANGED <<inGroup, enabled, source, desk>> /\ Same(j)
  BY <1>6 DEF SourceFails
<1>7. ASSUME Resolve(i)
      PROVE  UNCHANGED <<inGroup, enabled, source, desk>> /\ Same(j)
  BY <1>7 DEF Resolve
<1>8. ASSUME Collected(i)
      PROVE  UNCHANGED <<inGroup, enabled, source, desk>> /\ Same(j)
  BY <1>8 DEF Collected
<1>9. ASSUME Finish(i)
      PROVE  UNCHANGED <<inGroup, enabled, source, desk>> /\ Same(j)
  BY <1>9 DEF Finish
<1>10. ASSUME NEW s \in Server, Collect(i, s)
      PROVE  UNCHANGED <<inGroup, enabled, source, desk>> /\ Same(j)
  BY <1>10 DEF Collect
<1>11. ASSUME NEW s \in Server, Skip(i, s)
      PROVE  UNCHANGED <<inGroup, enabled, source, desk>> /\ Same(j)
  BY <1>11 DEF Skip, Report
<1>12. ASSUME NEW s \in Server, Write(i, s)
      PROVE  UNCHANGED <<inGroup, enabled, source, desk>> /\ Same(j)
  <2>1. ~ calm'[j]
    BY <1>12, DisturbsKeepsType DEF Write
  <2>. QED  BY <1>12, <2>1 DEF Write, Report
<1>13. ASSUME NEW s \in Server, Refuse(i, s)
      PROVE  UNCHANGED <<inGroup, enabled, source, desk>> /\ Same(j)
  BY <1>13 DEF Refuse, Report
<1>14. ASSUME NEW s \in Server, Fail(i, s)
      PROVE  UNCHANGED <<inGroup, enabled, source, desk>> /\ Same(j)
  <2>1. ~ calm'[j]
    BY <1>14, DisturbsKeepsType DEF Fail
  <2>. QED  BY <1>14, <2>1 DEF Fail, Report
<1>. QED
  BY <1>1, <1>2, <1>3, <1>4, <1>5, <1>6, <1>7, <1>8, <1>9, <1>10, <1>11, <1>12, <1>13, <1>14 DEF Request

(* Every step of a request keeps what is known of it. *)
LEMMA OwnStep ==
  ASSUME IInv, NEW i \in Requests, Request(i)
  PROVE  RequestInv(i)'
<1>0. /\ TypeOK /\ RequestInv(i)
      /\ pc \in [Requests -> Point] /\ task \in [Requests -> Asks \cup {NoTask}]
      /\ of \in [Requests -> Group \cup {None}]
      /\ from \in [Requests -> Server \cup {None}]
      /\ want \in [Requests -> SUBSET Record]
      /\ unread \in [Requests -> SUBSET Server] /\ live \in [Requests -> SUBSET Server]
      /\ result \in [Requests -> [Server -> Outcome]]
      /\ calm \in [Requests -> BOOLEAN]
      /\ meant \in [Requests -> SUBSET Group] /\ members \in [Requests -> SUBSET Server]
      /\ file \in [Server -> Content] /\ None \notin Target
  BY FleetAssumption DEF IInv, TypeOK
<1>. USE <1>0
<1>. USE DEF RequestInv, Remembers, SourceKnown, LiveKnown, Before, Writing, Active, At, Goto,
             inventory, history
<1>1. ASSUME NEW a \in Asks, Start(i, a)
      PROVE  RequestInv(i)'
  <2>1. a \in Task /\ a.target \in Target
    BY FleetAssumption DEF Task
  <2>2. /\ task'[i] = a /\ UNCHANGED <<inGroup, enabled, file, from, live, unread>>
        /\ meant'[i] = Stands(a.target, inGroup)
        /\ members'[i] = MembersOf(Stands(a.target, inGroup)) \cup ({a.target} \cap Working)
        /\ pc[i] = "idle"
    BY <1>1 DEF Start
  <2>3. \/ pc'[i] = "resolve" /\ a.kind # "mirror"
        \/ pc'[i] = "source" /\ a.target \in Group /\ of'[i] = a.target /\ a.kind = "mirror"
        \/ pc'[i] = "group" /\ a.target \notin Group /\ a.kind = "mirror"
    <3>1. CASE a.kind # "mirror"
      BY <1>1, <3>1 DEF Start
    <3>2. CASE a.kind = "mirror" /\ a.target \in Group
      BY <1>1, <3>2 DEF Start
    <3>3. CASE a.kind = "mirror" /\ a.target \notin Group
      BY <1>1, <3>3 DEF Start
    <3>. QED  BY <3>1, <3>2, <3>3
  <2>4. Remembers(i)'
    BY <2>1, <2>2, <2>3 DEF MembersOf, Working
  <2>5. SourceKnown(i)'
    BY <2>1, <2>2, <2>3 DEF Stands, Target
  <2>6. LiveKnown(i)'
    BY <2>2, <2>3
  <2>7. MirrorHolds(i)' /\ RepairHolds(i)'
    BY <2>2, <2>3 DEF MirrorHolds, RepairHolds
  <2>. QED  BY <2>4, <2>5, <2>6, <2>7
<1>2. ASSUME ReadGroup(i)
      PROVE  RequestInv(i)'
  BY <1>2, FleetAssumption DEF ReadGroup, Stands, Target, MirrorHolds, RepairHolds
<1>3. ASSUME ReadReference(i)
      PROVE  RequestInv(i)'
  BY <1>3 DEF ReadReference, MirrorHolds, RepairHolds, Stands
<1>4. ASSUME ReadMember(i)
      PROVE  RequestInv(i)'
  BY <1>4 DEF ReadMember, ReferenceIsMember, MirrorHolds, RepairHolds, Stands
<1>5. ASSUME ReadSource(i)
      PROVE  RequestInv(i)'
  BY <1>5 DEF ReadSource, MirrorHolds, RepairHolds, Stands
<1>6. ASSUME SourceFails(i)
      PROVE  RequestInv(i)'
  BY <1>6 DEF SourceFails, MirrorHolds, RepairHolds, Stands
<1>7. ASSUME Resolve(i)
      PROVE  RequestInv(i)'
  <2>. DEFINE t == task[i].target
              ss == IF t \in Group THEN {s \in Server : inGroup[s] = t} ELSE {t}
              others == ss \ {from[i]}
  <2>1. /\ pc[i] = "resolve" /\ UNCHANGED <<inGroup, enabled, file, task, of, from, want, calm, meant, members>>
    BY <1>7 DEF Resolve
  <2>2. CASE ss = {}
    <3>1. pc'[i] = "refused" /\ UNCHANGED <<unread, live, result>>
      BY <1>7, <2>2, Zenon DEF Resolve, Point
    <3>. QED  BY <2>1, <3>1 DEF MirrorHolds, RepairHolds, Stands
  <2>3. CASE ss # {}
    <3>1. /\ pc'[i] = IF task[i].kind = "repair_all" THEN "collect" ELSE "write"
          /\ live'[i] = others \cap Working /\ unread'[i] = others \cap Working
          /\ result'[i] = [s \in Server |-> IF s \in others \ Working THEN "skipped" ELSE "none"]
      <4>1. /\ pc' = [pc EXCEPT ![i] = IF task[i].kind = "repair_all" THEN "collect" ELSE "write"]
            /\ live' = [live EXCEPT ![i] = others \cap Working]
            /\ unread' = [unread EXCEPT ![i] = others \cap Working]
            /\ result' = [result EXCEPT ![i] =
                            [s \in Server |-> IF s \in others \ Working THEN "skipped" ELSE "none"]]
        BY <1>7, <2>3, Zenon DEF Resolve
      <4>. QED  BY <4>1
    <3>2. live'[i] \subseteq members[i]
      <4>1. \A s \in others \cap Working : s \in Server /\ enabled[s] /\ (inGroup[s] \in Stands(t, inGroup) \/ s = t)
        BY DEF Working, Stands
      <4>. QED  BY <2>1, <3>1, <4>1
    <3>3. \A s \in live'[i] : result'[i][s] = "none"
      BY <3>1 DEF Working
    <3>4. Remembers(i)' /\ SourceKnown(i)' /\ LiveKnown(i)'
      BY <2>1, <3>1, <3>2 DEF Stands
    <3>5. MirrorHolds(i)'
      BY <2>1, <3>1, <3>3 DEF MirrorHolds, Reported
    <3>6. RepairHolds(i)'
      BY <2>1, <3>1, <3>3 DEF RepairHolds, Reported
    <3>. QED  BY <3>4, <3>5, <3>6
  <2>. QED  BY <2>2, <2>3
<1>8. ASSUME Collected(i)
      PROVE  RequestInv(i)'
  BY <1>8 DEF Collected, MirrorHolds, RepairHolds, Reported, Stands
<1>9. ASSUME Finish(i)
      PROVE  RequestInv(i)'
  BY <1>9 DEF Finish, MirrorHolds, RepairHolds, Reported, Stands
<1>10. ASSUME NEW s \in Server, Collect(i, s)
      PROVE  RequestInv(i)'
  <2>1. /\ pc[i] = "collect" /\ UNCHANGED <<inGroup, enabled, file, pc, task, of, from, live, result, meant, members>>
        /\ unread'[i] = unread[i] \ {s}
    BY <1>10 DEF Collect
  <2>2. Remembers(i)' /\ SourceKnown(i)' /\ LiveKnown(i)'
    BY <2>1 DEF Stands
  <2>3. calm'[i] => calm[i] /\ want'[i] = want[i] \cup Listed(file[s])
    BY <1>10 DEF Collect
  <2>4. MirrorHolds(i)' /\ RepairHolds(i)'
    BY <2>1, <2>3 DEF MirrorHolds, RepairHolds, Reported
  <2>. QED  BY <2>2, <2>4
<1>11. ASSUME NEW s \in Server, Skip(i, s)
      PROVE  RequestInv(i)'
  <2>1. /\ pc[i] = "write" /\ UNCHANGED <<inGroup, enabled, file, pc, task, of, from, want, unread, live, meant, members, calm>>
        /\ s \in live[i] /\ Skips(i, file[s])
        /\ \A u \in Server \ {s} : result'[i][u] = result[i][u]
    BY <1>11 DEF Skip, Report
  <2>2. Remembers(i)' /\ SourceKnown(i)' /\ LiveKnown(i)'
    BY <2>1 DEF Stands
  <2>3. task[i].kind = "mirror" => Listed(file[s]) = want[i]
    BY <2>1 DEF Skips, Added, Removed, Listed
  <2>4. ASSUME task[i].kind = "repair_all", NEW r \in want[i]
        PROVE  r \in file[s] \/ TakenBy(file[s], r)
    BY <2>1, <2>4 DEF Skips, Writable, Added, TakenBy
  <2>5. MirrorHolds(i)'
    BY <2>1, <2>3 DEF MirrorHolds, Reported
  <2>6. RepairHolds(i)'
    BY <2>1, <2>4 DEF RepairHolds, Reported
  <2>. QED  BY <2>2, <2>5, <2>6
<1>12. ASSUME NEW s \in Server, Write(i, s)
      PROVE  RequestInv(i)'
  <2>1. /\ pc[i] = "write" /\ UNCHANGED <<inGroup, enabled, pc, task, of, from, want, unread, live, meant, members>>
        /\ s \in live[i]
        /\ \A u \in Server \ {s} : result'[i][u] = result[i][u]
    BY <1>12 DEF Write, Report
  <2>2. PICK c \in Updates(i, file[s]) : file' = [file EXCEPT ![s] = c]
    BY <1>12 DEF Write
  <2>3. file'[s] = c /\ \A u \in Server \ {s} : file'[u] = file[u]
    BY <2>2
  <2>4. calm'[i] => calm[i]
    BY <1>12, DisturbsKeepsType DEF Write
  <2>5. Remembers(i)' /\ SourceKnown(i)' /\ LiveKnown(i)'
    BY <2>1 DEF Stands
  <2>6. MirrorHolds(i)'
    <3>1. task[i].kind = "mirror" => Listed(c) = want[i]
      BY <2>2, MirrorCopies
    <3>2. task[i].kind = "mirror" => from[i] \in Server \ {s}
      BY <2>1
    <3>. QED  BY <2>1, <2>3, <2>4, <3>1, <3>2 DEF MirrorHolds, Reported
  <2>7. RepairHolds(i)'
    <3>1. ASSUME task[i].kind = "repair_all"
          PROVE  /\ Listed(c) \subseteq file[s] \cup want[i]
                 /\ \A r \in want[i] : r \in c \/ TakenBy(c, r)
      BY <2>2, <3>1, RepairAdds
    <3>2. ASSUME task[i].kind = "repair_all", Listed(file[s]) \subseteq want[i]
          PROVE  Listed(c) \subseteq want[i]
      BY <3>1, <3>2 DEF Listed
    <3>. QED  BY <2>1, <2>3, <2>4, <3>1, <3>2 DEF RepairHolds, Reported
  <2>. QED  BY <2>5, <2>6, <2>7
<1>13. ASSUME NEW s \in Server, Refuse(i, s)
      PROVE  RequestInv(i)'
  <2>1. /\ pc[i] = "write" /\ UNCHANGED <<inGroup, enabled, file, pc, task, of, from, want, unread, live, meant, members, calm>>
        /\ result'[i][s] = "failed"
        /\ \A u \in Server \ {s} : result'[i][u] = result[i][u]
    BY <1>13 DEF Refuse, Report
  <2>. QED  BY <2>1 DEF MirrorHolds, RepairHolds, Reported, Stands
<1>14. ASSUME NEW s \in Server, Fail(i, s)
      PROVE  RequestInv(i)'
  <2>1. /\ pc[i] = "write" /\ UNCHANGED <<inGroup, enabled, pc, task, of, from, want, unread, live, meant, members>>
    BY <1>14 DEF Fail, Report
  <2>2. ~ calm'[i]
    BY <1>14, DisturbsKeepsType DEF Fail
  <2>. QED  BY <2>1, <2>2 DEF MirrorHolds, RepairHolds, Stands
<1>. QED
  BY <1>1, <1>2, <1>3, <1>4, <1>5, <1>6, <1>7, <1>8, <1>9, <1>10, <1>11, <1>12, <1>13, <1>14 DEF Request

(* An operator's step widens what the requests remember, and nothing else. *)
LEMMA OperateStep ==
  ASSUME IInv, NEW m \in Operators, Operate(m), NEW j \in Requests
  PROVE  RequestInv(j)'
<1>0. TypeOK /\ RequestInv(j)
  BY DEF IInv
<1>. USE <1>0
<1>1. ASSUME NEW p \in Placements, UpdateServer(m, p)
      PROVE  RequestInv(j)'
  <2>1. UNCHANGED <<pc, task, of, from, want, unread, live, result, file, calm>>
    BY <1>1 DEF UpdateServer, Remember, request
  <2>2. CASE Active(j)
    <3>1. /\ meant'[j] = meant[j] \cup Stands(task[j].target, inGroup')
          /\ members'[j] = members[j] \cup
               {s \in Server : enabled'[s] /\ (inGroup'[s] \in meant'[j] \/ s = task[j].target)}
      BY <1>1, <2>2 DEF UpdateServer, Remember
    <3>2. Remembers(j)'
      BY <2>1, <2>2, <3>1 DEF RequestInv, Remembers, Active
    <3>3. SourceKnown(j)' /\ LiveKnown(j)'
      BY <2>1, <3>1 DEF RequestInv, SourceKnown, LiveKnown, At
    <3>4. MirrorHolds(j)' /\ RepairHolds(j)'
      BY <2>1 DEF RequestInv, MirrorHolds, RepairHolds, Reported, At
    <3>. QED  BY <3>2, <3>3, <3>4 DEF RequestInv
  <2>3. CASE ~ Active(j)
    <3>1. meant'[j] = meant[j] /\ members'[j] = members[j]
      BY <1>1, <2>3 DEF UpdateServer, Remember
    <3>2. Remembers(j)'
      BY <2>1, <2>3 DEF Remembers, Active
    <3>3. SourceKnown(j)' /\ LiveKnown(j)'
      BY <2>1, <3>1 DEF RequestInv, SourceKnown, LiveKnown, At
    <3>4. MirrorHolds(j)' /\ RepairHolds(j)'
      BY <2>1 DEF RequestInv, MirrorHolds, RepairHolds, Reported, At
    <3>. QED  BY <3>2, <3>3, <3>4 DEF RequestInv
  <2>. QED  BY <2>2, <2>3
<1>2. CASE ~ \E p \in Placements : UpdateServer(m, p)
  <2>1. UNCHANGED <<file, inGroup, enabled, request, history>>
    BY <1>2 DEF Operate, ListReferences, StoreReference, ClearReference, CheckReference
  <2>2. Same(j) /\ UNCHANGED <<inGroup, enabled>>
    BY <2>1 DEF Same, request, history
  <2>. QED  BY <2>2, SameKeeps
<1>. QED  BY <1>1, <1>2

LEMMA HandEditStep ==
  ASSUME IInv, NEW s \in Server, NEW l \in Edited, HandEdit(s, l), NEW j \in Requests
  PROVE  RequestInv(j)'
<1>1. TypeOK /\ RequestInv(j)
  BY DEF IInv
<1>2. ~ calm'[j]
  BY <1>1, DisturbsKeepsType DEF HandEdit
<1>3. Same(j) /\ UNCHANGED <<inGroup, enabled>>
  BY <1>2 DEF HandEdit, Same, request, inventory
<1>. QED  BY <1>1, <1>3, SameKeeps

LEMMA NextInv == IInv /\ [Next]_vars => IInv'
<1>. SUFFICES ASSUME IInv, [Next]_vars PROVE IInv'  OBVIOUS
<1>1. CASE Next
  <2>1. TypeOK'
    BY <1>1, TypeStep
  <2>2. ASSUME NEW j \in Requests
        PROVE  RequestInv(j)'
    <3>1. CASE \E i \in Requests : Request(i)
      <4>1. PICK i \in Requests : Request(i)
        BY <3>1
      <4>2. CASE i = j
        BY <4>1, <4>2, OwnStep
      <4>3. CASE i # j
        BY <4>1, <4>3, RequestFrame, SameKeeps DEF IInv
      <4>. QED  BY <4>2, <4>3
    <3>2. CASE \E m \in Operators : Operate(m)
      BY <3>2, OperateStep
    <3>3. CASE \E s \in Server, l \in Edited : HandEdit(s, l)
      BY <3>3, HandEditStep
    <3>. QED  BY <1>1, <3>1, <3>2, <3>3 DEF Next
  <2>. QED  BY <2>1, <2>2 DEF IInv
<1>2. CASE UNCHANGED vars
  <2>1. TypeOK'
    BY <1>2 DEF IInv, TypeOK, vars, inventory, request, history
  <2>2. ASSUME NEW j \in Requests
        PROVE  RequestInv(j)'
    <3>1. Same(j) /\ UNCHANGED <<inGroup, enabled>>
      BY <1>2 DEF Same, vars, inventory, request, history
    <3>. QED  BY <3>1, SameKeeps DEF IInv
  <2>. QED  BY <2>1, <2>2 DEF IInv
<1>. QED  BY <1>1, <1>2

LEMMA InitInv == Init => IInv
<1>. SUFFICES ASSUME Init, NEW i \in Requests PROVE RequestInv(i)
  BY InitType DEF IInv
<1>1. /\ pc[i] = "idle" /\ from[i] = None /\ live[i] = {} /\ unread[i] = {}
  BY DEF Init
<1>. QED  BY <1>1
          DEF RequestInv, Remembers, SourceKnown, LiveKnown, MirrorHolds,
              RepairHolds, Active, At, Writing

(* Every reachable state satisfies the inductive invariant. *)
THEOREM Invariance == Spec => []IInv
BY InitInv, NextInv, PTL DEF Spec

-----------------------------------------------------------------------------
(* Targets, sourceFor: however servers and references move while a request *)
(* is under way, it copies from and writes to servers that were members.   *)
THEOREM GroupsAreKept == Spec => []OnlyMembersTakePart
<1>1. IInv => OnlyMembersTakePart
  BY DEF IInv, RequestInv, SourceKnown, LiveKnown, OnlyMembersTakePart, At
<1>. QED  BY <1>1, Invariance, PTL

(* Mirror, RepairAll: a request that nothing disturbed and that failed     *)
(* nowhere has closed the differences it promised to close.                *)
THEOREM DifferencesClose == Spec => []ClosesTheDifferences
<1>1. IInv => ClosesTheDifferences
  <2>. SUFFICES ASSUME IInv, NEW i \in Requests, pc[i] = "done", calm[i],
                       \A s \in live[i] : result[i][s] \in {"success", "skipped"}
                PROVE  /\ task[i].kind = "mirror" => Mismatches(live[i] \cup {from[i]}) = {}
                       /\ task[i].kind = "repair_all" =>
                            \A r \in Mismatches(live[i]), s \in live[i] :
                              r \in file[s] \/ TakenBy(file[s], r)
    BY DEF ClosesTheDifferences
  <2>0. MirrorHolds(i) /\ RepairHolds(i) /\ \A s \in live[i] : Reported(i, s)
    BY DEF IInv, RequestInv, Reported
  <2>1. ASSUME task[i].kind = "mirror"
        PROVE  Mismatches(live[i] \cup {from[i]}) = {}
    <3>1. \A s \in live[i] \cup {from[i]} : Listed(file[s]) = want[i]
      BY <2>0, <2>1 DEF MirrorHolds, Writing
    <3>. QED  BY <3>1 DEF Mismatches, Rows, Listed
  <2>2. ASSUME task[i].kind = "repair_all",
               NEW r \in Mismatches(live[i]), NEW s \in live[i]
        PROVE  r \in file[s] \/ TakenBy(file[s], r)
    <3>1. r \in want[i]
      BY <2>0, <2>2 DEF Mismatches, Rows, RepairHolds, Writing
    <3>. QED  BY <2>0, <2>2, <3>1 DEF RepairHolds, Writing
  <2>. QED  BY <2>1, <2>2
<1>. QED  BY <1>1, Invariance, PTL

(* A report of a server comes from a step of the request on that server,   *)
(* or from the resolution of its target.                                   *)
LEMMA WhoReports ==
  ASSUME IInv, Next, NEW i \in Requests, NEW s \in Server,
         result[i][s] = "none", result'[i][s] \in {"success", "skipped"}
  PROVE  \/ Skip(i, s) /\ result'[i][s] = "skipped"
         \/ Write(i, s)
         \/ live[i] = {} /\ result'[i][s] = "skipped"
<1>0. /\ TypeOK /\ RequestInv(i)
      /\ result \in [Requests -> [Server -> Outcome]]
  BY DEF IInv, TypeOK
<1>1. result'[i] # result[i]
  OBVIOUS
<1>2. Request(i)
  <2>1. CASE \E j \in Requests : Request(j)
    BY <1>0, <1>1, <2>1, RequestFrame DEF Same
  <2>2. CASE \E m \in Operators : Operate(m)
    BY <1>1, <2>2
    DEF Operate, UpdateServer, ListReferences, StoreReference, ClearReference,
        CheckReference, request
  <2>3. CASE \E u \in Server, l \in Edited : HandEdit(u, l)
    BY <1>1, <2>3 DEF HandEdit, request
  <2>. QED  BY <2>1, <2>2, <2>3 DEF Next
<1>3. CASE Resolve(i)
  <2>1. live[i] = {}
    BY <1>0, <1>3 DEF Resolve, RequestInv, LiveKnown, Before, At
  <2>2. result'[i][s] # "success"
    <3>. DEFINE t == task[i].target
                others == (IF t \in Group THEN {u \in Server : inGroup[u] = t} ELSE {t}) \ {from[i]}
    <3>1. \/ UNCHANGED result
          \/ result' = [result EXCEPT ![i] =
                          [u \in Server |-> IF u \in others \ Working THEN "skipped" ELSE "none"]]
      BY <1>3, Zenon DEF Resolve
    <3>. QED  BY <1>0, <3>1
  <2>. QED  BY <2>1, <2>2
<1>4. CASE ~ Resolve(i)
  <2>1. PICK u \in Server : Skip(i, u) \/ Write(i, u) \/ Refuse(i, u) \/ Fail(i, u)
    BY <1>1, <1>2, <1>4
    DEF Request, Start, ReadGroup, ReadReference, ReadMember, ReadSource, SourceFails,
        Collected, Finish, Collect
  <2>2. \E o \in Outcome : result' = [result EXCEPT ![i][u] = o]
    BY <2>1 DEF Skip, Write, Refuse, Fail, Report, Outcome
  <2>3. u = s
    BY <1>0, <2>2
  <2>. QED  BY <1>0, <2>1, <2>3 DEF Skip, Refuse, Fail, Report
<1>. QED  BY <1>3, <1>4

(* Mirror: what the request reports as done on a server is a copy of the   *)
(* source's records, whatever anybody did to the server before.            *)
THEOREM MirrorsAreExact == Spec => MirrorIsExact
<1>1. IInv /\ [Next]_vars
        => [\A i \in Requests, s \in Server :
              /\ task[i].kind = "mirror"
              /\ result[i][s] = "none" /\ result'[i][s] \in {"success", "skipped"} /\ s \in live[i]
              => Listed(file'[s]) = want[i]]_vars
  <2>. SUFFICES ASSUME IInv, Next, NEW i \in Requests, NEW s \in Server,
                       task[i].kind = "mirror", s \in live[i],
                       result[i][s] = "none", result'[i][s] \in {"success", "skipped"}
                PROVE  Listed(file'[s]) = want[i]
    OBVIOUS
  <2>1. want[i] \in SUBSET Record /\ file \in [Server -> Content]
    BY DEF IInv, TypeOK
  <2>2. CASE Skip(i, s)
    BY <2>1, <2>2 DEF Skip, Skips, Added, Removed, Listed
  <2>3. CASE Write(i, s)
    BY <2>1, <2>3, MirrorCopies DEF Write
  <2>. QED  BY <2>2, <2>3, WhoReports
<1>. QED  BY <1>1, Invariance, PTL DEF Spec, MirrorIsExact

(* RepairAll, union: it removes nothing, brings nothing but what a server  *)
(* of the target held and its zone, and gives no name a second value.      *)
THEOREM RepairsOnlyAdd == Spec => RepairAllAddsWhatIsFree
<1>1. IInv /\ [Next]_vars
        => [\A i \in Requests, s \in Server :
              /\ task[i].kind = "repair_all"
              /\ result[i][s] = "none" /\ result'[i][s] = "success"
              => /\ file[s] \subseteq file'[s]
                 /\ Listed(file'[s]) \subseteq file[s] \cup want[i]
                 /\ \A r \in file'[s] \ file[s] : ~ TakenBy(file'[s], r)]_vars
  <2>. SUFFICES ASSUME IInv, Next, NEW i \in Requests, NEW s \in Server,
                       task[i].kind = "repair_all",
                       result[i][s] = "none", result'[i][s] = "success"
                PROVE  /\ file[s] \subseteq file'[s]
                       /\ Listed(file'[s]) \subseteq file[s] \cup want[i]
                       /\ \A r \in file'[s] \ file[s] : ~ TakenBy(file'[s], r)
    OBVIOUS
  <2>1. want[i] \in SUBSET Record /\ file \in [Server -> Content]
    BY DEF IInv, TypeOK
  <2>2. Write(i, s)
    BY WhoReports
  <2>. QED  BY <2>1, <2>2, RepairAdds DEF Write
<1>. QED  BY <1>1, Invariance, PTL DEF Spec, RepairAllAddsWhatIsFree

=============================================================================
