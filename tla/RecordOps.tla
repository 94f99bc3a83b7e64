------------------------------ MODULE RecordOps ------------------------------
(***************************************************************************)
(* What one change does to the content of a records file                   *)
(* (src/internal/fleet/apply.go, src/internal/dnsfile/writer.go, policy.go *)
(* and zone.go).  A file is abstracted to the set of lines that mean       *)
(* something: its records, its blocks and its zone lines.  The order of    *)
(* the lines, the clause header, comments and a line written twice are     *)
(* layout the properties here do not tell apart.                           *)
(***************************************************************************)
EXTENDS FiniteSets

CONSTANTS
  Record,    \* what the panel lists: data lines, and blocks
  Zone,      \* zone lines that are no block: transparent, static, redirect
  Key,       \* a name with the type that answers for it
  KeyOf,     \* the key of a line; of a block or a zone line, the name alone
  Spelling,  \* the name of a block or a zone line, letter by letter
  OneValue,  \* the records of a type that carries one value for a name
  Policy,    \* the blocks: zone lines that answer NXDOMAIN or REFUSED
  Covers,    \* the records at or under the name of a block
  ParentOf   \* the zone line a data record asks for, none for one label

Line == Record \cup Zone

(* What the lines of a file are to one another. *)
RecordShape ==
  /\ Record \cap Zone = {}
  /\ KeyOf \in [Line -> Key]
  /\ OneValue \subseteq Record
  /\ Policy \subseteq Record
  /\ OneValue \cap Policy = {}
  /\ DOMAIN Spelling = Policy \cup Zone
  /\ \A a, b \in Policy \cup Zone : Spelling[a] = Spelling[b] => KeyOf[a] = KeyOf[b]
  /\ Covers \in [Policy -> SUBSET (Record \ Policy)]
  /\ ParentOf \in [Record \ Policy -> SUBSET Zone]
  /\ \A r \in OneValue : \A l \in Policy \cup Zone : KeyOf[r] # KeyOf[l]
  /\ \A p \in Policy : \A r \in Record \ Policy : \A z \in ParentOf[r] :
       KeyOf[p] = KeyOf[z] => r \in Covers[p]

ASSUME RecordAssumption == RecordShape

Content == SUBSET Line

SameName(a, b) == KeyOf[a] = KeyOf[b]

(* Another value already answers for the name of a one-value record. *)
TakenBy(c, r) == r \in OneValue /\ \E o \in c \ {r} : SameName(o, r)

(* The lines that open a zone for the name of this one. *)
Opening(c, l) == {o \in c \cap (Policy \cup Zone) : SameName(o, l)}

(* The line is there already, or its name already opens a zone. *)
Holds(c, r) == r \in c \/ (r \in Policy /\ Opening(c, r) # {})

(* No record of the file sits under a name the file blocks. *)
Consistent(c) == \A p \in c \cap Policy : c \cap Covers[p] = {}

(* The lines that declare exactly the zone a record asks for.  A name that *)
(* opens a zone is looked for the way a resolver reads it, a zone that is  *)
(* to be declared the way it is spelled (declaresName, declaresZone).      *)
Declaring(c, z) == {o \in c \cap (Policy \cup Zone) : Spelling[o] = Spelling[z]}

(* A data record brings the line of its parent zone when no line declares  *)
(* it.                                                                     *)
DeclareZones(c, rs) ==
  c \cup {z \in UNION {ParentOf[r] : r \in rs \ Policy} : Declaring(c, z) = {}}

-----------------------------------------------------------------------------
(* The operations of the record pages, after Operation.Validate. *)

OneRecord == [kind : {"add", "copy", "delete"}, record : Record]
SetOne    == [kind : {"set"}, record : OneValue]
Edit      == [kind : {"edit"}, old : Record, record : Record]

(* validateBatch: at least one row, no name given two values. *)
Batch == {o \in [kind : {"add_many"}, records : SUBSET Record] :
            /\ o.records # {}
            /\ \A r \in o.records : ~ TakenBy(o.records, r)}

Operation == OneRecord \cup SetOne \cup Edit \cup Batch

(* The content an operation leaves, when it is not refused. *)
After(o, c) ==
  CASE o.kind \in {"add", "copy"} -> DeclareZones(c \cup {o.record}, {o.record})
    [] o.kind = "add_many" -> DeclareZones(c \cup o.records, o.records)
    [] o.kind = "set" ->
         DeclareZones({l \in c : ~ SameName(l, o.record)} \cup {o.record}, {o.record})
    [] o.kind = "edit" -> DeclareZones((c \ {o.old}) \cup {o.record}, {o.record})
    [] o.kind = "delete" -> c \ {o.record}

(* The file itself answers yes to the operation.  Only an addition asks    *)
(* whether the line or its zone is there already, only a deletion skips    *)
(* the check for consistency, and a copy reproduces a name with two values.*)
AllowsAdd(o, c) ==
  /\ o.kind = "add"
  /\ ~ TakenBy(c, o.record)
  /\ ~ Holds(c, o.record)
  /\ Consistent(After(o, c))

AllowsCopy(o, c) ==
  /\ o.kind = "copy"
  /\ ~ Holds(c, o.record)
  /\ Consistent(After(o, c))

AllowsSet(o, c) == o.kind = "set" /\ Consistent(After(o, c))

(* Every row is judged with the rows before it already in the content. *)
AllowsBatch(o, c) ==
  /\ o.kind = "add_many"
  /\ o.records \cap c = {}
  /\ \A r \in o.records :
        ~ TakenBy(c, r) /\ ~ Holds((c \cup o.records) \ {r}, r)
  /\ Consistent(After(o, c))

AllowsEdit(o, c) ==
  /\ o.kind = "edit"
  /\ o.old \in c
  /\ ~ TakenBy((c \ {o.old}) \cup {o.record}, o.record)
  /\ Consistent(After(o, c))

AllowsDelete(o, c) == o.kind = "delete" /\ o.record \in c

Allowed(o, c) ==
  \/ AllowsAdd(o, c) \/ AllowsCopy(o, c) \/ AllowsSet(o, c)
  \/ AllowsBatch(o, c) \/ AllowsEdit(o, c) \/ AllowsDelete(o, c)

(* An addition the file refuses as a duplicate is reported as already in   *)
(* place, rather than as failed.                                           *)
AlreadyInPlace(o, c) ==
  /\ o.kind = "add"
  /\ ~ TakenBy(c, o.record)
  /\ Holds(c, o.record)

=============================================================================
