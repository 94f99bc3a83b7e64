------------------------------- MODULE DnsFile -------------------------------
(***************************************************************************)
(* The records file as a sequence of lines, and the algorithms that change *)
(* it: src/internal/dnsfile (writer.go, policy.go, zone.go, parser.go) and *)
(* Operation.apply.  RecordOps says what they mean for the set of lines a  *)
(* resolver reads; this module shows that the line editing agrees with it, *)
(* that it leaves the operator's own lines alone, and what a long sequence *)
(* of accepted operations can and cannot lead to.                          *)
(*                                                                         *)
(* A name is kept as it is spelled: the panel compares most names letter   *)
(* by letter, and only blocks compare them the way a resolver does.        *)
(***************************************************************************)
EXTENDS Integers, Sequences, SequencesExt

CONSTANTS
  Name,        \* the spellings of names in use
  NoName,      \* the parent of a name with one label
  Folded,      \* a spelling with the case dropped (normaliseName)
  ParentZone,  \* the name without its first label, as it is spelled
  Within,      \* for a folded zone, the folded names at or under it
  OneType,     \* data types that carry one value for a name: A, AAAA, CNAME
  ManyType,    \* data types that carry several: MX, TXT
  Value,       \* data values; an MX value carries its preference
  NoValue,     \* the value of a block
  FirstFiles,  \* files somebody wrote by hand before the panel came
  MaxLines,    \* bound: lines of a file
  MaxRows      \* bound: rows of a batch

PolicyType == {"NXDOMAIN", "REFUSED"}
DataType == OneType \cup ManyType
ZoneType == {"transparent", "static", "always_nxdomain", "always_refuse"}

(* What the parser reads, a record's line or a zone line, and what it      *)
(* passes over: the clause header, a comment, a reverse record.            *)
DataLine == [clause : {"local-data"}, name : Name, type : DataType, value : Value]
ZoneLines == [clause : {"local-zone"}, name : Name, type : ZoneType]
PassedOver == [clause : {"server", "comment", "local-data-ptr"}]
Line == DataLine \cup ZoneLines \cup PassedOver

ASSUME DnsFileAssumption ==
  /\ NoName \notin Name /\ NoValue \notin Value
  /\ Folded \in [Name -> Name]
  /\ \A n \in Name : Folded[Folded[n]] = Folded[n]
  /\ ParentZone \in [Name -> Name \cup {NoName}]
  /\ Within \in [{Folded[n] : n \in Name} -> SUBSET Name]
  /\ \A n \in Name : ParentZone[n] # NoName => Folded[n] \in Within[Folded[ParentZone[n]]]
  /\ OneType \cap ManyType = {} /\ DataType \cap (PolicyType \cup {"zone"}) = {}
  /\ FirstFiles \subseteq Seq(Line)
  /\ MaxLines \in Nat /\ MaxRows \in Nat

Data   == [name : Name, type : DataType, value : Value]
Block  == [name : Name, type : PolicyType, value : {NoValue}]
Record == Data \cup Block

VARIABLE lines

IsPolicy(r) == r.type \in PolicyType

ZoneTypeFor == [NXDOMAIN |-> "always_nxdomain", REFUSED |-> "always_refuse"]

PolicyFor(z) == {t \in PolicyType : ZoneTypeFor[t] = z}

ZoneLine(n, z) == [clause |-> "local-zone", name |-> n, type |-> z]

BuildLine(r) ==
  IF IsPolicy(r)
    THEN ZoneLine(r.name, ZoneTypeFor[r.type])
    ELSE [clause |-> "local-data", name |-> r.name, type |-> r.type,
          value |-> r.value]

(* The record a line holds; a zone of any other type is not a record.      *)
Parsed(l) ==
  CASE l.clause = "local-data" ->
         {[name |-> l.name, type |-> l.type, value |-> l.value]}
    [] l.clause = "local-zone" ->
         {[name |-> l.name, type |-> t, value |-> NoValue] : t \in PolicyFor(l.type)}
    [] l.clause \notin {"local-data", "local-zone"} -> {}

Parse(ls) == UNION {Parsed(l) : l \in Range(ls)}

Matches(r, l) == r \in Parsed(l)

HasRecord(ls, r) == \E l \in Range(ls) : Matches(r, l)

SameName(a, b) == a.type = b.type /\ a.name = b.name

TakenBy(ls, r) ==
  /\ r.type \in OneType
  /\ \E o \in Parse(ls) : SameName(o, r) /\ o.value # r.value

ZoneNames(ls) == {l.name : l \in {k \in Range(ls) : k.clause = "local-zone"}}

(* Two questions that look alike: the first folds the case, the second     *)
(* does not.                                                               *)
DeclaresName(ls, n) == \E z \in ZoneNames(ls) : Folded[z] = Folded[n]
DeclaresZone(ls, n) == n \in ZoneNames(ls)

CoversName(z, n) == Folded[n] \in Within[Folded[z]]

(* CheckConsistency: no record sits under a name the file blocks.          *)
CheckConsistency(ls) ==
  \A b, r \in Parse(ls) : IsPolicy(b) /\ ~ IsPolicy(r) => ~ CoversName(b.name, r.name)

-----------------------------------------------------------------------------
(* What a change answers: the lines it leaves, or why it is refused.       *)

Ok(ls) == [why |-> "ok", lines |-> ls]
Refused(why) == [why |-> why, lines |-> <<>>]
Then(res, F(_)) == IF res.why = "ok" THEN F(res.lines) ELSE res

(* Mutant: a second zone line for a name is not looked for.                *)
AddBesideZone(ls, r) ==
  IF HasRecord(ls, r) THEN Refused("duplicate") ELSE Ok(Append(ls, BuildLine(r)))

Add(ls, r) ==
  IF HasRecord(ls, r) \/ (IsPolicy(r) /\ DeclaresName(ls, r.name))
    THEN Refused("duplicate")
    ELSE Ok(Append(ls, BuildLine(r)))

AddRecord(ls, r) == IF TakenBy(ls, r) THEN Refused("taken") ELSE Add(ls, r)

(* The lines of a set, in their order. *)
Kept(ls, keep) ==
  FoldLeft(LAMBDA done, l : IF l \in keep THEN Append(done, l) ELSE done, <<>>, ls)

(* The first line of the name takes the value, the others go.              *)
Set(ls, r) ==
  LET hits == {i \in DOMAIN ls : \E o \in Parsed(ls[i]) : SameName(o, r)}
      first == Min(hits)
      others == {l \in Range(ls) : \A o \in Parsed(l) : ~ SameName(o, r)}
  IN IF hits = {}
       THEN Ok(Append(ls, BuildLine(r)))
       ELSE Ok(SubSeq(ls, 1, first - 1) \o <<BuildLine(r)>>
                 \o Kept(SubSeq(ls, first + 1, Len(ls)), others))

Edit(ls, old, new) ==
  IF ~ HasRecord(ls, old)
    THEN Refused("notfound")
    ELSE Ok([i \in DOMAIN ls |-> IF Matches(old, ls[i]) THEN BuildLine(new) ELSE ls[i]])

Delete(ls, r) ==
  IF ~ HasRecord(ls, r)
    THEN Refused("notfound")
    ELSE Ok(Kept(ls, {l \in Range(ls) : ~ Matches(r, l)}))

EnsureZone(ls, n) ==
  IF ParentZone[n] = NoName \/ DeclaresZone(ls, ParentZone[n])
    THEN ls
    ELSE Append(ls, ZoneLine(ParentZone[n], "transparent"))

DeclareZone(ls, r) == IF IsPolicy(r) THEN ls ELSE EnsureZone(ls, r.name)

Header == [clause |-> "server"]

(* Mutant: the header goes to the end of a file that lacks it.             *)
HeaderLast(ls) == IF Header \in Range(ls) THEN ls ELSE Append(ls, Header)

EnsureHeader(ls) == IF Header \in Range(ls) THEN ls ELSE <<Header>> \o ls

Checked(ls) == IF CheckConsistency(ls) THEN Ok(ls) ELSE Refused("invalid")

Finish(res, r) == Then(res, LAMBDA ls : Checked(DeclareZone(ls, r)))

(* The rows of a batch in turn, each with the rows before it in place.     *)
AddRow(res, r) ==
  Then(res, LAMBDA done :
    Then(AddRecord(done, r), LAMBDA next : Ok(DeclareZone(next, r))))

AddRows(ls, rows) == FoldLeft(AddRow, Ok(ls), rows)

(* Mutants: the value an edit gives is not looked for at its new name, and *)
(* what it leaves is not checked for consistency.                          *)
EditOver(ls, old, r) == Finish(Edit(ls, old, r), r)
EditUnchecked(ls, old, r) ==
  Then(Edit(ls, old, r), LAMBDA done :
    IF TakenBy(done, r) THEN Refused("taken") ELSE Ok(DeclareZone(done, r)))

EditRecord(ls, old, r) ==
  Then(Edit(ls, old, r), LAMBDA done :
    IF TakenBy(done, r) THEN Refused("taken") ELSE Checked(DeclareZone(done, r)))

(* Operation.apply *)
Result(o, ls) ==
  CASE o.kind = "add"      -> Finish(AddRecord(ls, o.record), o.record)
    [] o.kind = "copy"     -> Finish(Add(ls, o.record), o.record)
    [] o.kind = "set"      -> Finish(Set(ls, o.record), o.record)
    [] o.kind = "add_many" -> Then(AddRows(ls, o.records), Checked)
    [] o.kind = "edit"     -> EditRecord(ls, o.old, o.record)
    [] o.kind = "delete"   -> Delete(ls, o.record)

(* Operation.Validate and validateBatch.                                   *)
Batches ==
  {rows \in UNION {[1..n -> Record] : n \in 1..MaxRows} :
     \A i, j \in DOMAIN rows : i < j =>
       /\ rows[i] # rows[j]
       /\ ~ (rows[i].type \in OneType /\ SameName(rows[i], rows[j]))}

Operation ==
  [kind : {"add", "copy", "delete"}, record : Record]
    \cup [kind : {"set"}, record : {r \in Record : r.type \in OneType}]
    \cup [kind : {"edit"}, old : Record, record : Record]
    \cup [kind : {"add_many"}, records : Batches]

-----------------------------------------------------------------------------
(* The question the record pages ask before an addition, of what the cache *)
(* says the servers of the target hold (fleet/conflict.go).                *)

(* Mutant: any type is taken for one that carries one value.               *)
RunsIntoAnyType(ls, r) ==
  IF r \in Parse(ls) THEN "exists"
  ELSE IF \E o \in Parse(ls) : SameName(o, r) THEN "taken" ELSE "nothing"

RunsInto(ls, r) ==
  IF r \in Parse(ls) THEN "exists"
  ELSE IF r.type \in OneType /\ \E o \in Parse(ls) : SameName(o, r) THEN "taken"
  ELSE "nothing"

(* A name taken on one server outranks the record being there on another.  *)
Conflict(held, r) ==
  LET kinds == {RunsInto(ls, r) : ls \in held} IN
  CASE "taken" \in kinds -> "taken"
    [] kinds = {"exists"} -> "everywhere"
    [] OTHER -> "nothing"

NameTaken(held, rows) == \E r \in Range(rows) : Conflict(held, r) = "taken"
AlreadyEverywhere(held, rows) == \A r \in Range(rows) : Conflict(held, r) = "everywhere"

(* checkConflicts: a choice, a complete duplicate, or the write runs.      *)
Question(held, rows) ==
  CASE NameTaken(held, rows) -> "choice"
    [] ~ NameTaken(held, rows) /\ AlreadyEverywhere(held, rows) -> "complete"
    [] OTHER -> "write"

-----------------------------------------------------------------------------
FileInit == lines \in FirstFiles

(* One write; a refused operation leaves the file as it is.                *)
Write(o) ==
  LET res == Result(o, lines) IN
    /\ res.why = "ok"
    /\ Len(res.lines) < MaxLines
    /\ lines' = EnsureHeader(res.lines)

AddOne(r)    == Write([kind |-> "add", record |-> r])
CopyOne(r)   == Write([kind |-> "copy", record |-> r])
DeleteOne(r) == Write([kind |-> "delete", record |-> r])
SetOne(r)    == r.type \in OneType /\ Write([kind |-> "set", record |-> r])
EditOne(s, r)  == Write([kind |-> "edit", old |-> s, record |-> r])
AddSome(rs)  == Write([kind |-> "add_many", records |-> rs])

FileNext ==
  \/ \E r \in Record : AddOne(r) \/ CopyOne(r) \/ DeleteOne(r) \/ SetOne(r)
  \/ \E s, r \in Record : EditOne(s, r)
  \/ \E rs \in Batches : AddSome(rs)

FileSpec == FileInit /\ [][FileNext]_lines

-----------------------------------------------------------------------------
(* What the lines mean, for RecordOps.                                     *)

PlainZone == {l \in ZoneLines : PolicyFor(l.type) = {}}

Meaning(ls) == Parse(ls) \cup (Range(ls) \cap PlainZone)

LineKey(l) ==
  IF l \in Data THEN <<l.name, l.type>> ELSE <<Folded[l.name], "zone">>

Sets == INSTANCE RecordOps WITH
  Record   <- Record,
  Zone     <- PlainZone,
  Key      <- {LineKey(l) : l \in Record \cup PlainZone},
  KeyOf    <- [l \in Record \cup PlainZone |-> LineKey(l)],
  Spelling <- [l \in Block \cup PlainZone |-> l.name],
  OneValue <- {r \in Record : r.type \in OneType},
  Policy   <- Block,
  Covers   <- [b \in Block |-> {r \in Data : CoversName(b.name, r.name)}],
  ParentOf <- [r \in Data |-> IF ParentZone[r.name] = NoName THEN {}
                ELSE {ZoneLine(ParentZone[r.name], "transparent")}]

Meant(o) ==
  IF o.kind = "add_many" THEN [kind |-> "add_many", records |-> Range(o.records)]
                         ELSE o

(* Operation.apply and the dnsfile functions: on every file a sequence of  *)
(* operations can leave, each operation is accepted, refused or reported   *)
(* as a duplicate exactly when RecordOps says so, and what it leaves means *)
(* what RecordOps says it means.                                           *)
AgreesWithRecordOps ==
  \A o \in Operation :
    LET res == Result(o, lines)
        set == Meaning(lines)
    IN /\ res.why = "ok" <=> Sets!Allowed(Meant(o), set)
       /\ res.why = "ok" => Meaning(res.lines) = Sets!After(Meant(o), set)
       /\ o.kind = "add" =>
            (res.why = "duplicate" <=> Sets!AlreadyInPlace(o, set))

(* CheckConsistency, over every path that builds a file: no sequence of    *)
(* operations puts a record under a name the file blocks, however either   *)
(* is spelled, unless the file held one there before.                      *)
NoBlockedNameIsAnswered ==
  (\A ls \in FirstFiles : CheckConsistency(ls)) => CheckConsistency(lines)

(* Edit, Set and the batch are as strict as an addition: a name, as it is  *)
(* spelled, is never given a second value.  Only a copy may do that, and   *)
(* only in a step of its own.                                              *)
SecondValueNeedsACopy ==
  [][(\E r \in Parse(lines') \ Parse(lines) : TakenBy(lines', r))
       => \E r \in Record : CopyOne(r)]_lines

(* Conflicts, "the write path ... refuses the record there": what is asked *)
(* of a true cache foresees what the writers do.  A choice is offered only *)
(* where some server would refuse, nothing is called complete that a       *)
(* server would still take, what is let through meets a second value only  *)
(* where a row is in place beside it, and the answer to a choice leaves    *)
(* one value for the name.                                                 *)
Submitted(rows) == IF Len(rows) = 1 THEN [kind |-> "add", record |-> rows[1]]
                                    ELSE [kind |-> "add_many", records |-> rows]

QuestionForeseesTheWrite ==
  /\ \A other \in FirstFiles, rows \in Batches :
       LET held == {lines, other}
           asked == Question(held, rows)
           why == [ls \in held |-> Result(Submitted(rows), ls).why]
       IN /\ asked = "choice" => \E ls \in held : why[ls] # "ok"
          /\ asked = "complete" => \A ls \in held : why[ls] # "ok"
          /\ asked = "write" =>
               \A ls \in held : why[ls] = "taken" => Range(rows) \cap Parse(ls) # {}
  /\ \A r \in {x \in Record : x.type \in OneType} :
       LET set == Result([kind |-> "set", record |-> r], lines) IN
       set.why = "ok" => {o \in Parse(set.lines) : SameName(o, r)} = {r}

(* Delete, Set, Edit: "Anything else in the file is left alone".  Comments,*)
(* reverse records and the zones an operator declared by hand stay, in     *)
(* their order; only a parent zone may join them, at the end.  And unless  *)
(* somebody has put the clause header below a record by hand, the panel    *)
(* (writeRecords) leaves its records inside the server clause, so the      *)
(* resolver can load the include.                                          *)
Foreign(ls) == Kept(ls, {l \in Range(ls) : Parsed(l) = {} /\ l # Header})

SitInTheClause(ls) ==
  \A i \in DOMAIN ls : ls[i].clause \in {"local-data", "local-zone"}
    => \E h \in 1..(i - 1) : ls[h] = Header

StandsAlone(ls) == Header \in Range(ls) => SitInTheClause(ls)

FileKeepsItsShape ==
  [][/\ IsPrefix(Foreign(lines), Foreign(lines'))
     /\ StandsAlone(lines) => SitInTheClause(lines')]_lines
=============================================================================
