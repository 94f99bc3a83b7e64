------------------------------ MODULE Settings ------------------------------
(***************************************************************************)
(* The settings an operator can change while the panel runs                *)
(* (settings/service.go, settings/values.go, store/settings.go) and the    *)
(* ways into them: the settings page, which submits every key, the two     *)
(* cards of the SIEM page, which submit their own, and the start of the    *)
(* panel, which adopts the receiver an earlier release was given           *)
(* (cmd/jbound/main.go).  Saves take no lock: they merge over the snapshot,*)
(* replace the table in one transaction, read it back and swap the         *)
(* snapshot.                                                               *)
(*                                                                         *)
(* Two intervals stand for the settings that a rule ties to each other;    *)
(* protocol, host and port of the receiver are one value.                  *)
(***************************************************************************)
EXTENDS Naturals, Functions

CONSTANTS
  Operator,     \* the requests under way at one time
  Startup,      \* the start of the panel, which may save as well
  Interval,     \* the intervals the registry accepts
  Collector,    \* the receivers that can be named
  Off,
  Default,      \* the registry
  Submissions,  \* what the forms may carry
  Rule,         \* the receiver in the rules file of the earlier release, or Off
  MaxSaves, MaxFaults, MaxStarts  \* bounds

Key == {"refresh", "stale", "forwarding", "receiver"}

(* Validate and crossRules. *)
Accepted == [refresh |-> Interval, stale |-> Interval, forwarding |-> BOOLEAN,
             receiver |-> Collector \cup {Off}]
Valid(m) ==
  /\ \A k \in DOMAIN m : m[k] \in Accepted[k]
  /\ m.stale > m.refresh

ASSUME SettingsAssumption ==
  /\ Startup \notin Operator
  /\ Interval \subseteq Nat
  /\ DOMAIN Default = Key /\ Valid(Default) /\ Default.receiver = Off
  /\ Rule \in Collector \cup {Off}
  /\ \A sub \in Submissions : DOMAIN sub \subseteq Key
  /\ {MaxSaves, MaxFaults, MaxStarts} \subseteq Nat

VARIABLES
  table,   \* settings: the rows of the keys that were moved off their default
  values,  \* Service.values
  panel,   \* whether the panel runs
  save,    \* the saves under way
  saves, faults, starts,  \* how many there were
  chosen   \* history: an operator has stored a receiver of their choice

vars == <<table, values, panel, save, saves, faults, starts, chosen>>

Saver == Operator \cup {Startup}

(* "before" is what the handler reads for its audit row; "rival" is        *)
(* history: another save was under way at some moment of this one.         *)
NoSave == [at |-> "idle", sub |-> <<>>, before |-> Default, merged |-> Default,
           loaded |-> Default, gone |-> FALSE, rival |-> FALSE]

Init ==
  /\ table = <<>>
  /\ values = Default
  /\ panel = "down"
  /\ save = [o \in Saver |-> NoSave]
  /\ saves = 0 /\ faults = 0 /\ starts = 0
  /\ chosen = FALSE

-----------------------------------------------------------------------------
(* NewValues: a key with no row, or with a value that is refused, is at    *)
(* its default.                                                            *)
Effective(t) ==
  [k \in Key |-> IF k \in DOMAIN t /\ t[k] \in Accepted[k] THEN t[k] ELSE Default[k]]

(* What f says where it speaks, and what g says elsewhere. *)
Over(f, g) == [k \in DOMAIN f \cup DOMAIN g |-> IF k \in DOMAIN f THEN f[k] ELSE g[k]]

(* Save: the submission over the current values; the keys off their        *)
(* default; the table that holds those and nothing else.                   *)
(* Mutant: a form that carries one card leaves the others at the default.  *)
SubmittedOnly(sub) == Over(sub, Default)
Merged(sub) == Over(sub, values)

Overrides(m) == Restrict(m, {k \in Key : m[k] # Default[k]})

(* Mutant: the rows are written over those that are there. *)
Upserted(t, m) == Over(Overrides(m), t)
Stored(t, m) == Overrides(m)

-----------------------------------------------------------------------------
(* The panel starts: it reads the settings and, while no receiver is       *)
(* named, adopts the one of the rules file, before it serves anything.     *)
Adopts(v) == v.receiver = Off /\ Rule # Off

Start ==
  /\ panel = "down" /\ starts < MaxStarts
  /\ starts' = starts + 1
  /\ values' = Effective(table)
  /\ IF Adopts(values')
       THEN /\ panel' = "starting"
            /\ save' = [save EXCEPT ![Startup].at = "merge", ![Startup].sub = [receiver |-> Rule],
                                    ![Startup].before = values']
       ELSE panel' = "up" /\ UNCHANGED save
  /\ UNCHANGED <<table, saves, faults, chosen>>

Stop ==
  /\ panel # "down"
  /\ panel' = "down"
  /\ values' = Default
  /\ save' = [o \in Saver |-> NoSave]
  /\ UNCHANGED <<table, saves, faults, starts, chosen>>

-----------------------------------------------------------------------------
(* One save. *)

At(o, p) == save[o].at = p
Active == {o \in Saver : ~At(o, "idle")}

Submit(o, sub) ==
  /\ panel = "up" /\ At(o, "idle") /\ saves < MaxSaves
  /\ saves' = saves + 1
  /\ save' = [x \in Saver |->
       IF x = o THEN [NoSave EXCEPT !.at = "merge", !.sub = sub, !.before = values, !.rival = Active # {}]
       ELSE IF x \in Active THEN [save[x] EXCEPT !.rival = TRUE] ELSE save[x]]
  /\ UNCHANGED <<table, values, panel, faults, starts, chosen>>

(* The client goes away: the statements still to come fail. *)
Leave(o) ==
  /\ o \in Operator /\ ~At(o, "idle") /\ ~save[o].gone
  /\ faults < MaxFaults /\ faults' = faults + 1
  /\ save' = [save EXCEPT ![o].gone = TRUE]
  /\ UNCHANGED <<table, values, panel, saves, starts, chosen>>

(* A save that fails is answered with an error; at the start of the panel  *)
(* it is the end of the start.                                             *)
GiveUp(o) ==
  /\ save' = [save EXCEPT ![o] = NoSave]
  /\ panel' = IF o = Startup THEN "down" ELSE panel
  /\ values' = IF o = Startup THEN Default ELSE values

Merge(o) ==
  /\ At(o, "merge")
  /\ IF Valid(Merged(save[o].sub))
       THEN /\ save' = [save EXCEPT ![o].at = "store", ![o].merged = Merged(save[o].sub)]
            /\ UNCHANGED <<values, panel>>
       ELSE GiveUp(o)
  /\ UNCHANGED <<table, saves, faults, starts, chosen>>

Store(o) ==
  /\ At(o, "store") /\ ~save[o].gone
  /\ table' = Stored(table, save[o].merged)
  /\ chosen' = (chosen \/ (o # Startup /\ "receiver" \in DOMAIN save[o].sub))
  /\ save' = [save EXCEPT ![o].at = "load"]
  /\ UNCHANGED <<values, panel, saves, faults, starts>>

Load(o) ==
  /\ At(o, "load") /\ ~save[o].gone
  /\ save' = [save EXCEPT ![o].at = "swap", ![o].loaded = Effective(table)]
  /\ UNCHANGED <<table, values, panel, saves, faults, starts, chosen>>

StatementFails(o) ==
  /\ At(o, "store") \/ At(o, "load")
  /\ IF save[o].gone THEN UNCHANGED faults ELSE faults < MaxFaults /\ faults' = faults + 1
  /\ GiveUp(o)
  /\ UNCHANGED <<table, saves, starts, chosen>>

Swap(o) ==
  /\ At(o, "swap")
  /\ values' = save[o].loaded
  /\ save' = [save EXCEPT ![o].at = "answer"]
  /\ UNCHANGED <<table, panel, saves, faults, starts, chosen>>

Answer(o) ==
  /\ At(o, "answer")
  /\ save' = [save EXCEPT ![o] = NoSave]
  /\ panel' = "up"
  /\ UNCHANGED <<table, values, saves, faults, starts, chosen>>

Next ==
  \/ Start \/ Stop
  \/ \E o \in Operator, sub \in Submissions : Submit(o, sub)
  \/ \E o \in Saver :
       Leave(o) \/ Merge(o) \/ Store(o) \/ Load(o) \/ StatementFails(o) \/ Swap(o) \/ Answer(o)

Spec == Init /\ [][Next]_vars

-----------------------------------------------------------------------------
(* Settings.Save: the panel never runs on, and never keeps, "a combination *)
(* the operator never approved and that the cross field rules never saw",  *)
(* however saves overlap and wherever one of them stops.                   *)
RunningSetWasApproved == Valid(values) /\ Valid(Effective(table))

(* Service.Save: a save no other one overlaps is in effect when it is      *)
(* answered and survives a restart, and a form that carries one card       *)
(* leaves the others as they were; the values the audit row compares with  *)
(* are those it replaced.                                                  *)
Succeeds(o) == At(o, "answer") /\ save'[o].at = "idle" /\ panel' = "up"

UnrivalledSaveTakesEffect ==
  [][\A o \in Operator : Succeeds(o) /\ ~save[o].rival =>
       values = Over(save[o].sub, save[o].before) /\ Effective(table) = values]_vars

(* adoptRsyslogRule: "it cannot overwrite a choice an operator made, and   *)
(* it never runs twice".                                                   *)
AdoptionKeepsTheChoice ==
  [][At(Startup, "store") /\ save'[Startup].at = "load" => ~chosen]_vars
=============================================================================
