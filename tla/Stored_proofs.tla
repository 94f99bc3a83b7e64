---------------------------- MODULE Stored_proofs ----------------------------
(***************************************************************************)
(* Theorems about the two things the panel stores outside its caches: the  *)
(* settings it runs on (Settings) and the lines of a records file          *)
(* (DnsFile).  The two share nothing; each part uses its own component's   *)
(* assumptions and definitions only.                                       *)
(*                                                                         *)
(* Settings, for every registry, every form and any number of saves beside *)
(* each other.  Saves take no lock, so the argument is about what each one *)
(* carries: a merged set is approved before it is stored, the table that   *)
(* is stored stands for exactly that set, and so whatever a save reads     *)
(* back from any table was approved by somebody.                           *)
(*                                                                         *)
(* DnsFile, for every set of names and values, every file and any sequence *)
(* of operations.  Each operation edits a sequence of lines; the lemmas say*)
(* what it does to the set of lines a resolver reads (Meaning), which is   *)
(* all RecordOps knows, and what it does to the rest (Reshaped).  The      *)
(* theorems follow from the two, and from the invariant that a file is made*)
(* of lines the parser knows.                                              *)
(***************************************************************************)
EXTENDS Settings, DnsFile, FiniteSetTheorems, TLAPS

(* A set with every key that the rules have seen. *)
Approved(m) == DOMAIN m = Key /\ Valid(m)

Fields == {"at", "sub", "before", "merged", "loaded", "gone", "rival"}

(* Each save by where it is: what it submitted names keys of the registry, *)
(* what it is about to store was approved, and so was what it read back.   *)
SaveKnown(r) ==
  /\ DOMAIN r = Fields
  /\ DOMAIN r.sub \subseteq Key
  /\ r.at = "store" => Approved(r.merged)
  /\ r.at = "swap" => Approved(r.loaded)

IInv ==
  /\ DOMAIN save = Saver
  /\ Approved(values)
  /\ Approved(Effective(table))
  /\ \A o \in Saver : SaveKnown(save[o])

(* Who may be saving: nobody while the panel is down, only the start of    *)
(* the panel until it serves, and only operators from then on.             *)
Placed ==
  /\ panel \in {"down", "starting", "up"}
  /\ panel = "down" => \A o \in Saver : save[o].at = "idle"
  /\ panel = "starting" => \A o \in Operator : save[o].at = "idle"
  /\ panel = "up" => save[Startup].at = "idle"

(* What a save that nobody overlapped has done so far. *)
Undisturbed(o) ==
  LET r == save[o]
      asked == Over(r.sub, r.before) IN
  r.at # "idle" /\ ~r.rival =>
    /\ \A x \in Saver \ {o} : save[x].at = "idle"
    /\ r.at = "merge" => values = r.before
    /\ r.at = "store" => r.merged = asked
    /\ r.at = "load" => Effective(table) = asked
    /\ r.at = "swap" => Effective(table) = asked /\ r.loaded = asked
    /\ r.at = "answer" => Effective(table) = asked /\ values = asked

Exact == Placed /\ \A o \in Saver : Undisturbed(o)

-----------------------------------------------------------------------------
(* Lemmas about the operators. *)

(* NewValues always makes a value for every key. *)
LEMMA EffectiveIsWhole ==
  ASSUME NEW t PROVE DOMAIN Effective(t) = Key
BY DEF Effective

(* Save: a form over a whole set is a whole set. *)
LEMMA MergedIsWhole ==
  ASSUME NEW sub, DOMAIN sub \subseteq Key, DOMAIN values = Key
  PROVE  DOMAIN Merged(sub) = Key
BY DEF Merged, Over

(* overridesOf, NewValues: leaving out what is at its default loses        *)
(* nothing, so the table stands for the set that was merged.               *)
LEMMA StoredStandsForMerged ==
  ASSUME NEW t, NEW m, Approved(m)
  PROVE  Approved(Effective(Stored(t, m)))
<1> DEFINE e == Effective(Stored(t, m))
<1>1. \A k \in Key : m[k] \in Accepted[k]
  BY DEF Approved, Valid
<1>2. DOMAIN Stored(t, m) = {k \in Key : m[k] # Default[k]}
  BY DEF Stored, Overrides, Restrict
<1>3. \A k \in DOMAIN Stored(t, m) : Stored(t, m)[k] = m[k]
  BY DEF Stored, Overrides, Restrict
<1>4. \A k \in Key : e[k] = m[k]
  BY <1>1, <1>2, <1>3 DEF Effective
<1>5. DOMAIN e = Key
  BY EffectiveIsWhole
<1>6. Key # {} /\ "stale" \in Key /\ "refresh" \in Key
  BY DEF Key
<1>7. Valid(e)
  BY <1>1, <1>4, <1>5, <1>6 DEF Valid, Approved
<1> QED BY <1>5, <1>7 DEF Approved

(* The same, letter by letter. *)
LEMMA StoredIsMerged ==
  ASSUME NEW t, NEW f, NEW g, Approved(Over(f, g))
  PROVE  Effective(Stored(t, Over(f, g))) = Over(f, g)
<1> DEFINE m == Over(f, g)
<1>1. m = [k \in Key |-> m[k]]
  BY DEF Approved, Over
<1>2. \A k \in Key : m[k] \in Accepted[k]
  BY DEF Approved, Valid
<1>3. DOMAIN m = Key
  BY DEF Approved
<1> HIDE DEF m
<1>4. Stored(t, m) = [k \in {x \in Key : m[x] # Default[x]} |-> m[k]]
  BY <1>3 DEF Stored, Overrides, Restrict
<1>5. Effective(Stored(t, m)) = [k \in Key |-> m[k]]
  BY <1>2, <1>4 DEF Effective
<1> QED BY <1>1, <1>5 DEF m

LEMMA DefaultIsApproved == Approved(Default)
BY SettingsAssumption DEF Approved

LEMMA EmptyTableIsDefault ==
  ASSUME NEW t, DOMAIN t = {} PROVE Approved(Effective(t))
<1>1. \A k \in Key : Effective(t)[k] = Default[k]
  BY DEF Effective
<1>2. DOMAIN Effective(t) = Key
  BY EffectiveIsWhole
<1>3. Valid(Default) /\ DOMAIN Default = Key
  BY SettingsAssumption
<1>4. Valid(Effective(t))
  BY <1>1, <1>2, <1>3 DEF Valid, Key
<1> QED BY <1>2, <1>4 DEF Approved

LEMMA NoSaveIsKnown == SaveKnown(NoSave)
<1>1. DOMAIN NoSave = Fields
  BY DEF NoSave, Fields
<1>2. NoSave.at = "idle" /\ NoSave.sub = <<>>
  BY DEF NoSave
<1>3. DOMAIN <<>> \subseteq Key
  OBVIOUS
<1> QED BY <1>1, <1>2, <1>3 DEF SaveKnown

-----------------------------------------------------------------------------
LEMMA InitEstablishes == Init => IInv
<1> SUFFICES ASSUME Init PROVE IInv
  OBVIOUS
<1>1. DOMAIN save = Saver /\ \A o \in Saver : save[o] = NoSave
  BY DEF Init
<1>2. Approved(Effective(table))
  BY EmptyTableIsDefault DEF Init
<1> QED BY <1>1, <1>2, DefaultIsApproved, NoSaveIsKnown DEF IInv, Init

(* A save that ends leaves the others alone. *)
LEMMA GiveUpPreserves ==
  ASSUME IInv, NEW o \in Saver, GiveUp(o), UNCHANGED table
  PROVE  IInv'
<1>1. DOMAIN save' = Saver /\ \A x \in Saver : SaveKnown(save'[x])
  BY NoSaveIsKnown DEF IInv, GiveUp
<1>2. Approved(values')
  BY DefaultIsApproved DEF IInv, GiveUp
<1> QED BY <1>1, <1>2 DEF IInv, SaveKnown, Approved, Effective, Valid

LEMMA StepPreserves == IInv /\ [Next]_vars => IInv'
<1> SUFFICES ASSUME IInv, [Next]_vars PROVE IInv'
  OBVIOUS
<1>1. CASE Start
  <2>1. values' = Effective(table) /\ table' = table
    BY <1>1 DEF Start
  <2>2. Approved(values')
    BY <2>1 DEF IInv
  <2>3. DOMAIN save' = Saver /\ \A x \in Saver : SaveKnown(save'[x])
    <3>1. CASE UNCHANGED save
      BY <3>1 DEF IInv
    <3>2. CASE save' = [save EXCEPT ![Startup].at = "merge", ![Startup].sub = [receiver |-> Rule],
                                    ![Startup].before = values']
      <4>1. DOMAIN [receiver |-> Rule] \subseteq Key
        BY DEF Key
      <4>2. Startup \in Saver
        BY DEF Saver
      <4>3. SaveKnown(save'[Startup])
        BY <3>2, <4>1, <4>2 DEF IInv, SaveKnown, Fields
      <4> QED BY <3>2, <4>2, <4>3 DEF IInv
    <3> QED BY <1>1, <3>1, <3>2 DEF Start
  <2> QED BY <2>1, <2>2, <2>3 DEF IInv
<1>2. CASE Stop
  <2>1. DOMAIN save' = Saver /\ \A x \in Saver : save'[x] = NoSave
    BY <1>2 DEF Stop
  <2> QED BY <1>2, <2>1, NoSaveIsKnown, DefaultIsApproved DEF Stop, IInv
<1>3. ASSUME NEW o \in Operator, NEW sub \in Submissions, Submit(o, sub) PROVE IInv'
  <2>1. DOMAIN sub \subseteq Key
    BY SettingsAssumption
  <2>2. DOMAIN save' = Saver
    BY <1>3 DEF Submit
  <2>3. ASSUME NEW x \in Saver PROVE SaveKnown(save'[x])
    <3>1. CASE x = o
      BY <1>3, <2>1, <3>1 DEF Submit, SaveKnown, NoSave, Fields
    <3>2. CASE x # o
      BY <1>3, <3>2 DEF Submit, SaveKnown, Fields, IInv
    <3> QED BY <3>1, <3>2
  <2> QED BY <1>3, <2>2, <2>3 DEF IInv, Submit
<1>4. ASSUME NEW o \in Saver, Leave(o) PROVE IInv'
  <2>1. DOMAIN save' = Saver /\ \A x \in Saver : SaveKnown(save'[x])
    BY <1>4 DEF Leave, IInv, SaveKnown, Fields
  <2> QED BY <1>4, <2>1 DEF IInv, Leave
<1>5. ASSUME NEW o \in Saver, Merge(o) PROVE IInv'
  <2>1. CASE Valid(Merged(save[o].sub))
    <3>1. Approved(Merged(save[o].sub))
      BY <2>1, MergedIsWhole DEF IInv, SaveKnown, Approved
    <3>2. save' = [save EXCEPT ![o].at = "store", ![o].merged = Merged(save[o].sub)]
      BY <1>5, <2>1 DEF Merge
    <3>3. SaveKnown(save'[o])
      BY <3>1, <3>2 DEF IInv, SaveKnown, Fields
    <3>4. \A x \in Saver : SaveKnown(save'[x])
      BY <3>2, <3>3 DEF IInv
    <3> QED BY <1>5, <2>1, <3>2, <3>4 DEF IInv, Merge
  <2>2. CASE ~Valid(Merged(save[o].sub))
    BY <1>5, <2>2, GiveUpPreserves DEF Merge
  <2> QED BY <2>1, <2>2
<1>6. ASSUME NEW o \in Saver, Store(o) PROVE IInv'
  <2>1. Approved(save[o].merged)
    BY <1>6 DEF Store, At, IInv, SaveKnown
  <2>2. Approved(Effective(table'))
    BY <1>6, <2>1, StoredStandsForMerged DEF Store
  <2>3. DOMAIN save' = Saver /\ \A x \in Saver : SaveKnown(save'[x])
    BY <1>6 DEF Store, IInv, SaveKnown, Fields
  <2> QED BY <1>6, <2>2, <2>3 DEF IInv, Store
<1>7. ASSUME NEW o \in Saver, Load(o) PROVE IInv'
  <2>1. DOMAIN save' = Saver /\ \A x \in Saver : SaveKnown(save'[x])
    BY <1>7 DEF Load, IInv, SaveKnown, Fields
  <2> QED BY <1>7, <2>1 DEF IInv, Load
<1>8. ASSUME NEW o \in Saver, StatementFails(o) PROVE IInv'
  BY <1>8, GiveUpPreserves DEF StatementFails
<1>9. ASSUME NEW o \in Saver, Swap(o) PROVE IInv'
  <2>1. Approved(values')
    BY <1>9 DEF Swap, At, IInv, SaveKnown
  <2>2. DOMAIN save' = Saver /\ \A x \in Saver : SaveKnown(save'[x])
    BY <1>9 DEF Swap, IInv, SaveKnown, Fields
  <2> QED BY <1>9, <2>1, <2>2 DEF IInv, Swap
<1>10. ASSUME NEW o \in Saver, Answer(o) PROVE IInv'
  <2>1. DOMAIN save' = Saver /\ \A x \in Saver : SaveKnown(save'[x])
    BY <1>10, NoSaveIsKnown DEF Answer, IInv
  <2> QED BY <1>10, <2>1 DEF IInv, Answer
<1>11. CASE UNCHANGED vars
  BY <1>11 DEF vars, IInv
<1> QED BY <1>1, <1>2, <1>3, <1>4, <1>5, <1>6, <1>7, <1>8, <1>9, <1>10, <1>11 DEF Next

(* Settings.Save in store/settings.go deletes the rows it does not write,  *)
(* so that the panel never runs on, and never keeps, a combination the     *)
(* rules have not seen, for every interleaving of saves, failures and      *)
(* restarts.                                                               *)
THEOREM RunningSetIsApproved == Spec => []RunningSetWasApproved
<1>1. IInv => RunningSetWasApproved
  BY DEF IInv, Approved, RunningSetWasApproved
<1> QED BY <1>1, InitEstablishes, StepPreserves, PTL DEF Spec

-----------------------------------------------------------------------------
(* A save that nobody overlaps, step by step. *)

LEMMA ExactAtFirst == Init => Exact
BY DEF Init, Exact, Placed, Undisturbed, NoSave

(* A save that ends by an error leaves nobody an unfinished one. *)
LEMMA GiveUpStaysExact ==
  ASSUME IInv, Exact, NEW o \in Saver, save[o].at # "idle", GiveUp(o), UNCHANGED table
  PROVE  Exact'
<1>1. save' = [save EXCEPT ![o] = NoSave] /\ NoSave.at = "idle"
  BY DEF GiveUp, NoSave
<1>2. \A x \in Saver : x # o => save'[x] = save[x]
  BY <1>1 DEF IInv
<1>3. save'[o].at = "idle"
  BY <1>1 DEF IInv
<1>4. Placed'
  <2>1. CASE o = Startup
    BY <1>1, <1>2, <1>3, <2>1 DEF Exact, Placed, GiveUp, Saver
  <2>2. CASE o # Startup
    <3>1. o \in Operator /\ panel' = panel
      BY <2>2 DEF Saver, GiveUp
    <3> QED BY <1>2, <1>3, <3>1, SettingsAssumption DEF Exact, Placed, Saver
  <2> QED BY <2>1, <2>2
<1>5. ASSUME NEW x \in Saver PROVE Undisturbed(x)'
  <2>1. CASE x = o
    BY <1>3, <2>1 DEF Undisturbed
  <2>2. CASE x # o
    (* nobody else is without a rival while o saves *)
    <3>1. save[x].at = "idle" \/ save[x].rival
      BY <2>2 DEF Exact, Undisturbed
    <3> QED BY <1>2, <2>2, <3>1 DEF Undisturbed
  <2> QED BY <2>1, <2>2
<1> QED BY <1>4, <1>5 DEF Exact

(* A step of one save that leaves the others, and itself, where they count *)
(* as busy or not: whoever else has no rival is idle.                      *)
LEMMA OthersStayExact ==
  ASSUME IInv, Exact, NEW o \in Saver, save[o].at # "idle",
         DOMAIN save' = Saver, \A x \in Saver : x # o => save'[x] = save[x],
         NEW y \in Saver, y # o
  PROVE  Undisturbed(y)'
<1>1. save[y].at = "idle" \/ save[y].rival
  BY DEF Exact, Undisturbed
<1> QED BY <1>1 DEF Undisturbed

LEMMA StepStaysExact == IInv /\ Exact /\ [Next]_vars => Exact'
<1> SUFFICES ASSUME IInv, Exact, [Next]_vars PROVE Exact'
  OBVIOUS
<1>1. CASE Start
  <2>1. \A o \in Saver : save[o].at = "idle"
    BY <1>1 DEF Start, Exact, Placed
  <2>2. CASE panel' = "up" /\ UNCHANGED save
    BY <2>1, <2>2 DEF Exact, Placed, Undisturbed, Saver
  <2>3. CASE panel' = "starting" /\
             save' = [save EXCEPT ![Startup].at = "merge", ![Startup].sub = [receiver |-> Rule],
                                  ![Startup].before = values']
    <3>1. Startup \in Saver
      BY DEF Saver
    <3>2. \A o \in Saver : o # Startup => save'[o].at = "idle"
      BY <2>1, <2>3 DEF IInv
    <3>3. save'[Startup].at = "merge" /\ save'[Startup].before = values'
      BY <2>3, <3>1 DEF IInv, SaveKnown, Fields
    <3>4. Placed'
      BY <2>3, <3>2, SettingsAssumption DEF Placed, Saver
    <3>5. \A o \in Saver : Undisturbed(o)'
      BY <3>2, <3>3 DEF Undisturbed
    <3> QED BY <3>4, <3>5 DEF Exact
  <2> QED BY <1>1, <2>2, <2>3 DEF Start
<1>2. CASE Stop
  <2>1. \A x \in Saver : save'[x].at = "idle"
    BY <1>2 DEF Stop, NoSave
  <2> QED BY <1>2, <2>1 DEF Stop, Exact, Placed, Undisturbed
<1>3. ASSUME NEW o \in Operator, NEW sub \in Submissions, Submit(o, sub) PROVE Exact'
  <2>0. o \in Saver
    BY DEF Saver
  <2>1. save'[o].at = "merge" /\ save'[o].before = values /\ save'[o].rival = (Active # {})
    BY <1>3, <2>0 DEF Submit, NoSave
  <2>2. ASSUME NEW x \in Saver, x # o
        PROVE  save'[x].at = save[x].at /\ (save[x].at # "idle" => save'[x].rival = TRUE)
    BY <1>3, <2>2 DEF Submit, Active, At, IInv, SaveKnown, Fields
  <2>3. Placed'
    BY <1>3, <2>2, SettingsAssumption DEF Submit, Exact, Placed, Saver
  <2>4. Undisturbed(o)'
    <3>1. Active = {} => \A x \in Saver : save[x].at = "idle"
      BY DEF Active, At
    <3> QED BY <1>3, <2>1, <2>2, <3>1 DEF Undisturbed, Submit
  <2>5. \A x \in Saver : x # o => Undisturbed(x)'
    BY <2>2 DEF Undisturbed
  <2> QED BY <2>3, <2>4, <2>5 DEF Exact
<1>4. ASSUME NEW o \in Saver, Leave(o) PROVE Exact'
  <2>1. \A x \in Saver : /\ save'[x].at = save[x].at /\ save'[x].rival = save[x].rival
                         /\ save'[x].sub = save[x].sub /\ save'[x].before = save[x].before
                         /\ save'[x].merged = save[x].merged /\ save'[x].loaded = save[x].loaded
    BY <1>4 DEF Leave, IInv, SaveKnown, Fields
  <2>2. Placed'
    BY <1>4, <2>1 DEF Leave, Exact, Placed, Saver
  <2>3. \A x \in Saver : Undisturbed(x)'
    BY <1>4, <2>1 DEF Leave, Exact, Undisturbed, Effective
  <2> QED BY <2>2, <2>3 DEF Exact
<1>5. ASSUME NEW o \in Saver, Merge(o) PROVE Exact'
  <2>1. CASE Valid(Merged(save[o].sub))
    <3>1. save' = [save EXCEPT ![o].at = "store", ![o].merged = Merged(save[o].sub)]
      BY <1>5, <2>1 DEF Merge
    <3>2. /\ save[o].at = "merge" /\ save'[o].at = "store"
          /\ save'[o].merged = Over(save[o].sub, values)
          /\ save'[o].sub = save[o].sub /\ save'[o].before = save[o].before
          /\ save'[o].rival = save[o].rival
      BY <1>5, <3>1 DEF IInv, SaveKnown, Fields, Merge, At, Merged
    <3>3. DOMAIN save' = Saver /\ \A x \in Saver : x # o => save'[x] = save[x]
      BY <3>1 DEF IInv
    <3>4. \A x \in Saver : x # o => Undisturbed(x)'
      BY <3>2, <3>3, OthersStayExact
    <3>5. Undisturbed(o)'
      BY <3>2, <3>3 DEF Exact, Undisturbed
    <3>6. Placed'
      BY <1>5, <2>1, <3>2, <3>3 DEF Merge, Exact, Placed, Saver
    <3> QED BY <3>4, <3>5, <3>6 DEF Exact
  <2>2. CASE ~Valid(Merged(save[o].sub))
    BY <1>5, <2>2, GiveUpStaysExact DEF Merge, At
  <2> QED BY <2>1, <2>2
<1>6. ASSUME NEW o \in Saver, Store(o) PROVE Exact'
  <2>1. /\ save[o].at = "store" /\ save'[o].at = "load" /\ save'[o].rival = save[o].rival
        /\ save'[o].sub = save[o].sub /\ save'[o].before = save[o].before
    BY <1>6 DEF Store, At, IInv, SaveKnown, Fields
  <2>2. DOMAIN save' = Saver /\ \A x \in Saver : x # o => save'[x] = save[x]
    BY <1>6 DEF Store, IInv
  <2>3. ~save[o].rival => Effective(table)' = Over(save[o].sub, save[o].before)
    <3> SUFFICES ASSUME ~save[o].rival
                 PROVE  Effective(table)' = Over(save[o].sub, save[o].before)
      OBVIOUS
    <3>1. save[o].merged = Over(save[o].sub, save[o].before)
      BY <2>1 DEF Exact, Undisturbed
    <3>2. Approved(save[o].merged)
      BY <2>1 DEF IInv, SaveKnown
    <3>3. Effective(table') = Over(save[o].sub, save[o].before)
      BY <1>6, <3>1, <3>2, StoredIsMerged DEF Store
    <3> QED BY <3>3 DEF Effective
  <2>4. Undisturbed(o)'
    BY <2>1, <2>2, <2>3 DEF Exact, Undisturbed
  <2>5. \A x \in Saver : x # o => Undisturbed(x)'
    BY <2>1, <2>2, OthersStayExact
  <2>6. Placed'
    BY <1>6, <2>1, <2>2 DEF Store, Exact, Placed, Saver
  <2> QED BY <2>4, <2>5, <2>6 DEF Exact
<1>7. ASSUME NEW o \in Saver, Load(o) PROVE Exact'
  <2>1. /\ save[o].at = "load" /\ save'[o].at = "swap" /\ save'[o].rival = save[o].rival
        /\ save'[o].sub = save[o].sub /\ save'[o].before = save[o].before
        /\ save'[o].loaded = Effective(table)
    BY <1>7 DEF Load, At, IInv, SaveKnown, Fields
  <2>2. DOMAIN save' = Saver /\ \A x \in Saver : x # o => save'[x] = save[x]
    BY <1>7 DEF Load, IInv
  <2>3. Undisturbed(o)'
    BY <1>7, <2>1, <2>2 DEF Load, Exact, Undisturbed, Effective
  <2>4. \A x \in Saver : x # o => Undisturbed(x)'
    BY <2>1, <2>2, OthersStayExact
  <2>5. Placed'
    BY <1>7, <2>1, <2>2 DEF Load, Exact, Placed, Saver
  <2> QED BY <2>3, <2>4, <2>5 DEF Exact
<1>8. ASSUME NEW o \in Saver, StatementFails(o) PROVE Exact'
  BY <1>8, GiveUpStaysExact DEF StatementFails, At
<1>9. ASSUME NEW o \in Saver, Swap(o) PROVE Exact'
  <2>1. /\ save[o].at = "swap" /\ save'[o].at = "answer" /\ save'[o].rival = save[o].rival
        /\ save'[o].sub = save[o].sub /\ save'[o].before = save[o].before
        /\ values' = save[o].loaded /\ table' = table
    BY <1>9 DEF Swap, At, IInv, SaveKnown, Fields
  <2>2. DOMAIN save' = Saver /\ \A x \in Saver : x # o => save'[x] = save[x]
    BY <1>9 DEF Swap, IInv
  <2>3. Undisturbed(o)'
    BY <2>1, <2>2 DEF Exact, Undisturbed, Effective
  <2>4. \A x \in Saver : x # o => Undisturbed(x)'
    BY <2>1, <2>2, OthersStayExact
  <2>5. Placed'
    BY <1>9, <2>1, <2>2 DEF Swap, Exact, Placed, Saver
  <2> QED BY <2>3, <2>4, <2>5 DEF Exact
<1>10. ASSUME NEW o \in Saver, Answer(o) PROVE Exact'
  <2>1. save[o].at # "idle" /\ save'[o].at = "idle"
    BY <1>10 DEF Answer, At, IInv, NoSave
  <2>2. DOMAIN save' = Saver /\ \A x \in Saver : x # o => save'[x] = save[x]
    BY <1>10 DEF Answer, IInv
  <2>3. Undisturbed(o)'
    BY <2>1 DEF Undisturbed
  <2>4. \A x \in Saver : x # o => Undisturbed(x)'
    BY <2>1, <2>2, OthersStayExact
  <2>5. Placed'
    BY <1>10, <2>1, <2>2, SettingsAssumption DEF Answer, Exact, Placed, Saver
  <2> QED BY <2>3, <2>4, <2>5 DEF Exact
<1>11. CASE UNCHANGED vars
  BY <1>11 DEF vars, Exact, Placed, Undisturbed, Effective
<1> QED BY <1>1, <1>2, <1>3, <1>4, <1>5, <1>6, <1>7, <1>8, <1>9, <1>10, <1>11 DEF Next

(* Service.Save: a save that is answered and that no other one overlapped  *)
(* is in effect and in the table, over what its handler read before it,    *)
(* for every registry and every form, however many saves came before.      *)
THEOREM SaveTakesEffect == Spec => UnrivalledSaveTakesEffect
<1>1. ASSUME IInv, Exact, [Next]_vars, NEW o \in Operator, Succeeds(o), ~save[o].rival
      PROVE  /\ values = Over(save[o].sub, save[o].before)
             /\ Effective(table) = values
  BY <1>1 DEF Succeeds, At, Saver, Exact, Undisturbed
<1>2. IInv /\ Exact /\ [Next]_vars =>
        [\A o \in Operator : Succeeds(o) /\ ~save[o].rival =>
           values = Over(save[o].sub, save[o].before) /\ Effective(table) = values]_vars
  BY <1>1
<1> QED BY <1>2, InitEstablishes, StepPreserves, ExactAtFirst, StepStaysExact, PTL
        DEF Spec, UnrivalledSaveTakesEffect

-----------------------------------------------------------------------------
(* The records file.  First, what a line is to the parser.                 *)

LEMMA BuiltLine ==
  ASSUME NEW r \in Record
  PROVE  /\ BuildLine(r) \in Line
         /\ Parsed(BuildLine(r)) = {r}
         /\ BuildLine(r) # Header
         /\ BuildLine(r) \notin PlainZone
<1>1. CASE r \in Data
  <2>1. ~ IsPolicy(r)
    BY <1>1, DnsFileAssumption DEF Data, IsPolicy
  <2>2. BuildLine(r) = [clause |-> "local-data", name |-> r.name, type |-> r.type,
                        value |-> r.value]
    BY <2>1 DEF BuildLine
  <2>3. BuildLine(r) \in DataLine
    BY <1>1, <2>2 DEF Data, DataLine
  <2>4. [name |-> r.name, type |-> r.type, value |-> r.value] = r
    BY <1>1 DEF Data
  <2>. QED  BY <2>2, <2>3, <2>4 DEF Line, Parsed, Header, PlainZone, ZoneLines
<1>2. CASE r \in Block
  <2>1. r.type \in PolicyType /\ r.name \in Name /\ r.value = NoValue
    BY <1>2 DEF Block
  <2>2. BuildLine(r) = [clause |-> "local-zone", name |-> r.name,
                        type |-> ZoneTypeFor[r.type]]
    BY <2>1 DEF BuildLine, IsPolicy, ZoneLine
  <2>3. BuildLine(r) \in ZoneLines
    BY <2>1, <2>2 DEF ZoneLines, ZoneType, PolicyType, ZoneTypeFor
  <2>4. PolicyFor(ZoneTypeFor[r.type]) = {r.type}
    BY <2>1 DEF PolicyFor, ZoneTypeFor, PolicyType
  <2>5. [name |-> r.name, type |-> r.type, value |-> NoValue] = r
    BY <1>2, <2>1 DEF Block
  <2>. QED  BY <2>2, <2>3, <2>4, <2>5 DEF Line, Parsed, Header, PlainZone
<1>. QED  BY <1>1, <1>2 DEF Record

LEMMA ParsedLine ==
  ASSUME NEW l \in Line
  PROVE  /\ Parsed(l) \subseteq Record
         /\ \A a, b \in Parsed(l) : a = b
         /\ Parsed(l) # {} => l.clause \in {"local-data", "local-zone"} /\ l # Header
         /\ l \in PlainZone => Parsed(l) = {}
<1>1. CASE l \in DataLine
  <2>1. Parsed(l) = {[name |-> l.name, type |-> l.type, value |-> l.value]}
    BY <1>1 DEF DataLine, Parsed
  <2>. QED  BY <1>1, <2>1 DEF DataLine, Record, Data, Header, PlainZone, ZoneLines
<1>2. CASE l \in ZoneLines
  <2>1. Parsed(l) = {[name |-> l.name, type |-> t, value |-> NoValue] : t \in PolicyFor(l.type)}
    BY <1>2 DEF ZoneLines, Parsed
  <2>2. PolicyFor(l.type) \subseteq PolicyType
    BY DEF PolicyFor
  <2>3. \A t, u \in PolicyFor(l.type) : t = u
    BY DEF PolicyFor, PolicyType, ZoneTypeFor
  <2>4. Parsed(l) \subseteq Block
    BY <1>2, <2>1, <2>2 DEF ZoneLines, Block
  <2>5. \A a, b \in Parsed(l) : a = b
    BY <2>1, <2>3
  <2>6. l \in PlainZone => Parsed(l) = {}
    BY <2>1 DEF PlainZone
  <2>. QED  BY <1>2, <2>4, <2>5, <2>6 DEF ZoneLines, Record, Header
<1>3. CASE l \in PassedOver
  BY <1>3 DEF PassedOver, Parsed, PlainZone, ZoneLines
<1>. QED  BY <1>1, <1>2, <1>3 DEF Line

LEMMA PlainLines ==
  /\ Header \in Line /\ Parsed(Header) = {} /\ Header \notin PlainZone
  /\ \A n \in Name : /\ ZoneLine(n, "transparent") \in Line \cap PlainZone
                     /\ Parsed(ZoneLine(n, "transparent")) = {}
                     /\ ZoneLine(n, "transparent") # Header
<1>1. Header \in Line /\ Parsed(Header) = {} /\ Header \notin PlainZone
  BY DEF Header, Line, PassedOver, Parsed, PlainZone, ZoneLines
<1>2. ASSUME NEW n \in Name
      PROVE  /\ ZoneLine(n, "transparent") \in Line \cap PlainZone
             /\ ZoneLine(n, "transparent") # Header
  <2>1. PolicyFor("transparent") = {}
    BY DEF PolicyFor, PolicyType, ZoneTypeFor
  <2>2. ZoneLine(n, "transparent") \in ZoneLines
    BY DEF ZoneLine, ZoneLines, ZoneType
  <2>. QED  BY <2>1, <2>2 DEF ZoneLine, Line, PlainZone, Header
<1>. QED  BY <1>1, <1>2, ParsedLine

-----------------------------------------------------------------------------
(* Sequences of lines. *)

LEMMA RangeOfAppend ==
  ASSUME NEW L, NEW ls \in Seq(L), NEW l \in L
  PROVE  Append(ls, l) \in Seq(L) /\ Range(Append(ls, l)) = Range(ls) \cup {l}
<1>1. /\ DOMAIN Append(ls, l) = 1..Len(ls) + 1
      /\ Append(ls, l)[Len(ls) + 1] = l
      /\ \A i \in 1..Len(ls) : Append(ls, l)[i] = ls[i]
  OBVIOUS
<1>2. DOMAIN ls = 1..Len(ls) /\ Len(ls) \in Nat
  OBVIOUS
<1>3. 1..Len(ls) + 1 = (1..Len(ls)) \cup {Len(ls) + 1}
  BY <1>2
<1>4. Range(Append(ls, l)) = {Append(ls, l)[i] : i \in (1..Len(ls)) \cup {Len(ls) + 1}}
  BY <1>1, <1>3 DEF Range
<1>5. Range(ls) = {ls[i] : i \in 1..Len(ls)}
  BY <1>2 DEF Range
<1>. QED  BY <1>1, <1>4, <1>5

LEMMA ConcatFacts ==
  ASSUME NEW L, NEW s \in Seq(L), NEW t \in Seq(L)
  PROVE  /\ s \o t \in Seq(L) /\ Len(s \o t) = Len(s) + Len(t)
         /\ \A i \in 1..Len(s) : (s \o t)[i] = s[i]
         /\ \A i \in 1..Len(t) : (s \o t)[Len(s) + i] = t[i]
OBVIOUS

LEMMA SameSequence ==
  ASSUME NEW L, NEW s \in Seq(L), NEW t \in Seq(L), Len(s) = Len(t),
         \A i \in 1..Len(s) : s[i] = t[i]
  PROVE  s = t
OBVIOUS

LEMMA RangeOfConcat ==
  ASSUME NEW L, NEW s \in Seq(L), NEW t \in Seq(L)
  PROVE  s \o t \in Seq(L) /\ Range(s \o t) = Range(s) \cup Range(t)
<1>1. /\ DOMAIN (s \o t) = 1..Len(s) + Len(t)
      /\ \A i \in 1..Len(s) : (s \o t)[i] = s[i]
      /\ \A i \in 1..Len(t) : (s \o t)[Len(s) + i] = t[i]
  OBVIOUS
<1>2. /\ DOMAIN s = 1..Len(s) /\ Len(s) \in Nat
      /\ DOMAIN t = 1..Len(t) /\ Len(t) \in Nat
  OBVIOUS
<1>3. ASSUME NEW x \in Range(s \o t)
      PROVE  x \in Range(s) \cup Range(t)
  <2>1. PICK i \in 1..Len(s) + Len(t) : x = (s \o t)[i]
    BY <1>1 DEF Range
  <2>2. CASE i <= Len(s)
    BY <1>1, <1>2, <2>1, <2>2 DEF Range
  <2>3. CASE i > Len(s)
    <3>1. i - Len(s) \in 1..Len(t) /\ Len(s) + (i - Len(s)) = i
      BY <1>2, <2>1, <2>3
    <3>2. x = t[i - Len(s)]
      BY <1>1, <2>1, <3>1
    <3>. QED  BY <1>2, <3>1, <3>2 DEF Range
  <2>. QED  BY <1>2, <2>2, <2>3
<1>4. ASSUME NEW x \in Range(s)
      PROVE  x \in Range(s \o t)
  <2>1. PICK i \in 1..Len(s) : x = s[i]
    BY <1>2 DEF Range
  <2>. QED  BY <1>1, <1>2, <2>1 DEF Range
<1>5. ASSUME NEW x \in Range(t)
      PROVE  x \in Range(s \o t)
  <2>1. PICK i \in 1..Len(t) : x = t[i]
    BY <1>2 DEF Range
  <2>2. Len(s) + i \in 1..Len(s) + Len(t)
    BY <1>2, <2>1
  <2>. QED  BY <1>1, <2>1, <2>2 DEF Range
<1>. QED  BY <1>3, <1>4, <1>5

-----------------------------------------------------------------------------
(* Folds: what is left after each line. *)

(* Natural numbers are well ordered. *)
LEMMA LeastOf ==
  ASSUME NEW S, S \subseteq Nat, S # {}
  PROVE  \E m \in S : \A x \in S : m <= x
<1>. DEFINE R == OpToRel(<, Nat)
<1>1. \E m \in S : \A x \in S : ~ (<<x, m>> \in R)
  <2>1. IsWellFoundedOn(R, Nat)
    BY NatLessThanWellFounded, Zenon
  <2>. HIDE DEF R
  <2>. QED  BY <2>1, WFMin
<1>2. \A x, m \in Nat : x < m => <<x, m>> \in R
  BY DEF OpToRel
<1>. HIDE DEF R
<1>3. PICK m \in S : \A x \in S : ~ (<<x, m>> \in R)
  BY <1>1, Zenon
<1>4. ASSUME NEW x \in S
      PROVE  m <= x
  <2>1. m \in Nat /\ x \in Nat
    OBVIOUS
  <2>2. ~ (x < m)
    BY <1>2, <1>3, <2>1
  <2>. QED  BY <2>1, <2>2
<1>. QED  BY <1>4

(* Induction, over the set of the numbers a statement holds for. *)
LEMMA CountingUp ==
  ASSUME NEW n \in Nat, NEW S, 0 \in S,
         \A i \in 0..n-1 : i \in S => i + 1 \in S
  PROVE  0..n \subseteq S
<1>1. SUFFICES ASSUME (0..n) \ S # {}
               PROVE  FALSE
  OBVIOUS
<1>0. (0..n) \ S \subseteq Nat
  OBVIOUS
<1>2. PICK m \in (0..n) \ S : \A x \in (0..n) \ S : m <= x
  BY <1>0, <1>1, LeastOf
<1>3. m # 0 /\ m - 1 \in 0..n-1
  BY <1>2
<1>4. m - 1 \in S
  BY <1>2, <1>3
<1>5. (m - 1) + 1 \in S
  BY <1>3, <1>4
<1>. QED  BY <1>2, <1>5

LEMMA LastOfAll ==
  ASSUME NEW n \in Nat, NEW S \in SUBSET (1..n), n \in S
  PROVE  Max(S) = n
<1>1. \A y \in S : n >= y
  OBVIOUS
<1>2. \A x \in S : (\A y \in S : x >= y) => x = n
  OBVIOUS
<1>. QED  BY <1>1, <1>2 DEF Max

(* The fold that Kept is, position by position. *)
KeptFrom(g, ls, keep, n) ==
  g = [S \in SUBSET (1..n) |->
         IF S = {} THEN <<>>
         ELSE IF ls[Max(S)] \in keep THEN Append(g[S \ {Max(S)}], ls[Max(S)])
                                     ELSE g[S \ {Max(S)}]]

LEMMA KeptFromGrows ==
  ASSUME NEW ls, NEW keep, NEW n \in Nat, NEW g, KeptFrom(g, ls, keep, n)
  PROVE  \E h : KeptFrom(h, ls, keep, n + 1)
<1>. DEFINE One(x, S) == IF ls[x] \in keep THEN Append(g[S \ {x}], ls[x]) ELSE g[S \ {x}]
            h == [S \in SUBSET (1..n+1) |->
                    IF n + 1 \in S THEN One(n + 1, S) ELSE g[S]]
            k == [S \in SUBSET (1..n+1) |->
                    IF S = {} THEN <<>>
                    ELSE IF ls[Max(S)] \in keep THEN Append(h[S \ {Max(S)}], ls[Max(S)])
                                                ELSE h[S \ {Max(S)}]]
<1>1. ASSUME NEW S \in SUBSET (1..n+1)
      PROVE  h[S] = k[S]
  <2>1. CASE n + 1 \in S
    <3>1. Max(S) = n + 1
      BY <2>1, LastOfAll
    <3>2. S \ {n + 1} \in SUBSET (1..n+1) /\ n + 1 \notin S \ {n + 1}
      OBVIOUS
    <3>3. h[S \ {n + 1}] = g[S \ {n + 1}]
      BY <3>2
    <3>. QED  BY <2>1, <3>1, <3>3
  <2>2. CASE n + 1 \notin S
    <3>1. S \in SUBSET (1..n)
      BY <2>2
    <3>2. h[S] = g[S]
      BY <2>2
    <3>3. CASE S = {}
      BY <3>1, <3>2, <3>3 DEF KeptFrom
    <3>4. CASE S # {}
      <4>1. S \ {Max(S)} \in SUBSET (1..n+1) /\ n + 1 \notin S \ {Max(S)}
        BY <2>2
      <4>2. h[S \ {Max(S)}] = g[S \ {Max(S)}]
        BY <4>1
      <4>3. g[S] = IF ls[Max(S)] \in keep THEN Append(g[S \ {Max(S)}], ls[Max(S)])
                                          ELSE g[S \ {Max(S)}]
        BY <3>1, <3>4 DEF KeptFrom
      <4>. QED  BY <3>2, <3>4, <4>2, <4>3
    <3>. QED  BY <3>3, <3>4
  <2>. QED  BY <2>1, <2>2
<1>2. h = k
  BY <1>1
<1>. HIDE DEF h
<1>3. KeptFrom(h, ls, keep, n + 1)
  BY <1>2 DEF KeptFrom
<1>. QED  BY <1>3

LEMMA KeptFromExists ==
  ASSUME NEW ls, NEW keep, NEW n \in Nat
  PROVE  \E g : KeptFrom(g, ls, keep, n)
<1>. DEFINE Good == {i \in 0..n : \E g : KeptFrom(g, ls, keep, i)}
<1>1. 0 \in Good
  <2>. DEFINE g == [S \in SUBSET (1..0) |-> <<>>]
  <2>1. \A S \in SUBSET (1..0) : S = {}
    OBVIOUS
  <2>2. KeptFrom(g, ls, keep, 0)
    BY <2>1 DEF KeptFrom
  <2>. QED  BY <2>2
<1>2. ASSUME NEW i \in 0..n-1, i \in Good
      PROVE  i + 1 \in Good
  BY <1>2, KeptFromGrows
<1>. HIDE DEF Good
<1>3. n \in Good
  BY <1>1, <1>2, CountingUp
<1>. QED  BY <1>3 DEF Good

LEMMA KeptSteps ==
  ASSUME NEW L, NEW ls \in Seq(L), NEW keep
  PROVE  \E F : /\ F[0] = <<>>
                /\ \A i \in 1..Len(ls) :
                     F[i] = IF ls[i] \in keep THEN Append(F[i - 1], ls[i]) ELSE F[i - 1]
                /\ Kept(ls, keep) = F[Len(ls)]
<1>. DEFINE n == Len(ls)
            g == CHOOSE g : KeptFrom(g, ls, keep, n)
            F == [i \in 0..n |-> g[1..i]]
<1>0. n \in Nat /\ DOMAIN ls = 1..n
  OBVIOUS
<1>1. KeptFrom(g, ls, keep, n)
  BY <1>0, KeptFromExists
<1>2. Kept(ls, keep) = g[1..n]
  BY <1>0 DEF Kept, FoldLeft, MapThenFoldSet, KeptFrom
<1>. HIDE DEF g
<1>3. g[1..0] = <<>>
  BY <1>0, <1>1 DEF KeptFrom
<1>4. ASSUME NEW i \in 1..n
      PROVE  g[1..i] = IF ls[i] \in keep THEN Append(g[1..(i - 1)], ls[i]) ELSE g[1..(i - 1)]
  <2>0. i \in Nat /\ 1 <= i /\ i <= n
    BY <1>0
  <2>4. i \in 1..i /\ \A x \in 1..i : x \in 1..n
    BY <1>0, <2>0
  <2>1. 1..i \in SUBSET (1..n) /\ 1..i # {} /\ i \in 1..i /\ 1..i \in SUBSET (1..i)
    BY <2>4
  <2>2. Max(1..i) = i
    BY <2>0, <2>1, LastOfAll
  <2>3. (1..i) \ {i} = 1..(i - 1)
    BY <1>0
  <2>. QED  BY <1>1, <2>1, <2>2, <2>3 DEF KeptFrom
<1>5. F[0] = <<>> /\ Kept(ls, keep) = F[n]
  BY <1>0, <1>2, <1>3
<1>6. ASSUME NEW i \in 1..n
      PROVE  F[i] = IF ls[i] \in keep THEN Append(F[i - 1], ls[i]) ELSE F[i - 1]
  <2>1. i \in 0..n /\ i - 1 \in 0..n
    BY <1>0
  <2>2. F[i] = g[1..i] /\ F[i - 1] = g[1..(i - 1)]
    BY <2>1
  <2>. QED  BY <1>4, <2>2
<1>. HIDE DEF F
<1>. QED  BY <1>5, <1>6

LEMMA OnlyTheEmpty ==
  ASSUME NEW L, NEW s \in Seq(L), Range(s) = {}
  PROVE  s = <<>>
<1>1. Len(s) \in Nat /\ DOMAIN s = 1..Len(s)
  OBVIOUS
<1>2. DOMAIN s = {}
  BY DEF Range
<1>3. Len(s) = 0
  BY <1>1, <1>2
<1>. QED  BY <1>3

(* Kept keeps the lines of the set and no other. *)
LEMMA KeptRange ==
  ASSUME NEW L, NEW ls \in Seq(L), NEW keep
  PROVE  Kept(ls, keep) \in Seq(L) /\ Range(Kept(ls, keep)) = Range(ls) \cap keep
<1>. DEFINE n == Len(ls)
<1>0. n \in Nat /\ DOMAIN ls = 1..n /\ \A i \in 1..n : ls[i] \in L
  OBVIOUS
<1>1. PICK F : /\ F[0] = <<>>
               /\ \A i \in 1..n :
                    F[i] = IF ls[i] \in keep THEN Append(F[i - 1], ls[i]) ELSE F[i - 1]
               /\ Kept(ls, keep) = F[n]
  BY KeptSteps, Zenon
<1>. DEFINE Good == {i \in 0..n : F[i] \in Seq(L) /\ Range(F[i]) = {ls[j] : j \in 1..i} \cap keep}
<1>2. 0 \in Good
  <2>1. Range(<<>>) = {} /\ 1..0 = {} /\ <<>> \in Seq(L)
    <3>1. DOMAIN <<>> = {}
      OBVIOUS
    <3>. QED  BY <3>1 DEF Range
  <2>2. F[0] \in Seq(L) /\ Range(F[0]) = {}
    BY <1>1, <2>1
  <2>3. {ls[j] : j \in 1..0} = {}
    BY <2>1
  <2>4. 0 \in 0..n
    BY <1>0
  <2>. QED  BY <2>2, <2>3, <2>4
<1>3. ASSUME NEW i \in 0..n-1, i \in Good
      PROVE  i + 1 \in Good
  <2>1. i + 1 \in 1..n /\ (i + 1) - 1 = i /\ 1..(i + 1) = (1..i) \cup {i + 1} /\ i + 1 \in 0..n
    BY <1>0
  <2>2. {ls[j] : j \in 1..(i + 1)} = {ls[j] : j \in 1..i} \cup {ls[i + 1]}
    BY <2>1
  <2>3. ls[i + 1] \in L
    BY <1>0, <2>1
  <2>4. CASE ls[i + 1] \in keep
    <3>1. F[i + 1] = Append(F[i], ls[i + 1])
      BY <1>1, <2>1, <2>4
    <3>2. F[i + 1] \in Seq(L) /\ Range(F[i + 1]) = Range(F[i]) \cup {ls[i + 1]}
      BY <1>3, <2>3, <3>1, RangeOfAppend
    <3>. QED  BY <1>3, <2>1, <2>2, <2>4, <3>2
  <2>5. CASE ls[i + 1] \notin keep
    <3>1. F[i + 1] = F[i]
      BY <1>1, <2>1, <2>5
    <3>. QED  BY <1>3, <2>1, <2>2, <2>5, <3>1
  <2>. QED  BY <2>4, <2>5
<1>. HIDE DEF Good
<1>4. n \in Good
  <2>1. \A i \in 0..n-1 : i \in Good => i + 1 \in Good
    BY <1>3
  <2>. HIDE DEF n
  <2>2. 0..n \subseteq Good
    BY <1>0, <1>2, <2>1, CountingUp
  <2>. QED  BY <1>0, <2>2
<1>5. Range(ls) = {ls[j] : j \in 1..n}
  BY <1>0 DEF Range
<1>. QED  BY <1>1, <1>4, <1>5 DEF Good

(* A line that is not kept may be another one that is not kept either. *)
LEMMA KeptSame ==
  ASSUME NEW L, NEW s \in Seq(L), NEW t \in Seq(L), NEW keep, NEW also,
         Len(s) = Len(t),
         \A i \in 1..Len(s) :
           \/ s[i] = t[i] /\ (s[i] \in keep <=> t[i] \in also)
           \/ s[i] \notin keep /\ t[i] \notin also
  PROVE  Kept(s, keep) = Kept(t, also)
<1>. DEFINE n == Len(s)
<1>0. n \in Nat
  OBVIOUS
<1>1. PICK F : /\ F[0] = <<>>
               /\ \A i \in 1..n :
                    F[i] = IF s[i] \in keep THEN Append(F[i - 1], s[i]) ELSE F[i - 1]
               /\ Kept(s, keep) = F[n]
  BY KeptSteps, Zenon
<1>2. PICK G : /\ G[0] = <<>>
               /\ \A i \in 1..Len(t) :
                    G[i] = IF t[i] \in also THEN Append(G[i - 1], t[i]) ELSE G[i - 1]
               /\ Kept(t, also) = G[Len(t)]
  BY KeptSteps, Zenon
<1>. DEFINE Good == {i \in 0..n : F[i] = G[i]}
<1>3. 0 \in Good
  BY <1>0, <1>1, <1>2
<1>4. ASSUME NEW i \in 0..n-1, i \in Good
      PROVE  i + 1 \in Good
  <2>1. i + 1 \in 1..n /\ (i + 1) - 1 = i /\ i + 1 \in 0..n
    BY <1>0
  <2>2. F[i + 1] = IF s[i + 1] \in keep THEN Append(F[i], s[i + 1]) ELSE F[i]
    BY <1>1, <2>1
  <2>3. G[i + 1] = IF t[i + 1] \in also THEN Append(G[i], t[i + 1]) ELSE G[i]
    BY <1>2, <2>1
  <2>4. F[i + 1] = G[i + 1]
    BY <1>4, <2>1, <2>2, <2>3
  <2>. QED  BY <2>1, <2>4
<1>. HIDE DEF Good
<1>5. n \in Good
  <2>1. \A i \in 0..n-1 : i \in Good => i + 1 \in Good
    BY <1>4
  <2>. HIDE DEF n
  <2>2. 0..n \subseteq Good
    BY <1>0, <1>3, <2>1, CountingUp
  <2>. QED  BY <1>0, <2>2
<1>. QED  BY <1>1, <1>2, <1>5 DEF Good

LEMMA KeptAppend ==
  ASSUME NEW L, NEW ls \in Seq(L), NEW l \in L, NEW keep
  PROVE  Kept(Append(ls, l), keep)
           = IF l \in keep THEN Append(Kept(ls, keep), l) ELSE Kept(ls, keep)
<1>. DEFINE n == Len(ls)
            t == Append(ls, l)
<1>0. /\ n \in Nat /\ t \in Seq(L) /\ Len(t) = n + 1 /\ t[n + 1] = l
      /\ \A i \in 1..n : t[i] = ls[i]
  OBVIOUS
<1>1. PICK F : /\ F[0] = <<>>
               /\ \A i \in 1..n :
                    F[i] = IF ls[i] \in keep THEN Append(F[i - 1], ls[i]) ELSE F[i - 1]
               /\ Kept(ls, keep) = F[n]
  BY KeptSteps, Zenon
<1>. HIDE DEF t
<1>2. PICK G : /\ G[0] = <<>>
               /\ \A i \in 1..Len(t) :
                    G[i] = IF t[i] \in keep THEN Append(G[i - 1], t[i]) ELSE G[i - 1]
               /\ Kept(t, keep) = G[Len(t)]
  BY <1>0, KeptSteps
<1>. DEFINE Good == {i \in 0..n : F[i] = G[i]}
<1>3. 0 \in Good
  BY <1>0, <1>1, <1>2
<1>4. ASSUME NEW i \in 0..n-1, i \in Good
      PROVE  i + 1 \in Good
  <2>1. i + 1 \in 1..n /\ i + 1 \in 1..Len(t) /\ (i + 1) - 1 = i /\ i + 1 \in 0..n
    BY <1>0
  <2>2. F[i + 1] = IF ls[i + 1] \in keep THEN Append(F[i], ls[i + 1]) ELSE F[i]
    BY <1>1, <2>1
  <2>3. G[i + 1] = IF ls[i + 1] \in keep THEN Append(G[i], ls[i + 1]) ELSE G[i]
    BY <1>0, <1>2, <2>1
  <2>. QED  BY <1>4, <2>1, <2>2, <2>3
<1>. HIDE DEF Good
<1>5. F[n] = G[n]
  <2>1. \A i \in 0..n-1 : i \in Good => i + 1 \in Good
    BY <1>4
  <2>. HIDE DEF n
  <2>2. 0..n \subseteq Good
    BY <1>0, <1>3, <2>1, CountingUp
  <2>. QED  BY <1>0, <2>2 DEF Good
<1>6. G[n + 1] = IF l \in keep THEN Append(G[n], l) ELSE G[n]
  BY <1>0, <1>2
<1>. QED  BY <1>0, <1>1, <1>2, <1>5, <1>6 DEF t

LEMMA KeptTwice ==
  ASSUME NEW L, NEW ls \in Seq(L), NEW a, NEW b
  PROVE  Kept(Kept(ls, a), b) = Kept(ls, a \cap b)
<1>. DEFINE n == Len(ls)
<1>0. n \in Nat /\ \A i \in 1..n : ls[i] \in L
  OBVIOUS
<1>1. PICK F : /\ F[0] = <<>>
               /\ \A i \in 1..n :
                    F[i] = IF ls[i] \in a THEN Append(F[i - 1], ls[i]) ELSE F[i - 1]
               /\ Kept(ls, a) = F[n]
  BY KeptSteps, Zenon
<1>2. PICK G : /\ G[0] = <<>>
               /\ \A i \in 1..n :
                    G[i] = IF ls[i] \in a \cap b THEN Append(G[i - 1], ls[i]) ELSE G[i - 1]
               /\ Kept(ls, a \cap b) = G[n]
  BY KeptSteps, Zenon
<1>. DEFINE Good == {i \in 0..n : F[i] \in Seq(L) /\ Kept(F[i], b) = G[i]}
<1>3. 0 \in Good
  <2>1. Kept(<<>>, b) = <<>>
    <3>1. <<>> \in Seq(L) /\ Len(<<>>) = 0
      OBVIOUS
    <3>2. Kept(<<>>, b) \in Seq(L) /\ Range(Kept(<<>>, b)) = Range(<<>>) \cap b
      BY <3>1, KeptRange
    <3>. QED  BY <3>2, OnlyTheEmpty DEF Range
  <2>2. F[0] \in Seq(L) /\ Kept(F[0], b) = G[0]
    BY <1>1, <1>2, <2>1
  <2>3. 0 \in 0..n
    BY <1>0
  <2>. QED  BY <2>2, <2>3
<1>4. ASSUME NEW i \in 0..n-1, i \in Good
      PROVE  i + 1 \in Good
  <2>1. i + 1 \in 1..n /\ (i + 1) - 1 = i /\ i + 1 \in 0..n /\ ls[i + 1] \in L
    BY <1>0
  <2>2. F[i + 1] = IF ls[i + 1] \in a THEN Append(F[i], ls[i + 1]) ELSE F[i]
    BY <1>1, <2>1
  <2>3. G[i + 1] = IF ls[i + 1] \in a \cap b THEN Append(G[i], ls[i + 1]) ELSE G[i]
    BY <1>2, <2>1
  <2>4. F[i] \in Seq(L) /\ Kept(F[i], b) = G[i]
    BY <1>4
  <2>5. Append(F[i], ls[i + 1]) \in Seq(L)
    BY <2>1, <2>4
  <2>6. Kept(Append(F[i], ls[i + 1]), b)
          = IF ls[i + 1] \in b THEN Append(G[i], ls[i + 1]) ELSE G[i]
    <3>. HIDE DEF Good
    <3>1. \A s \in Seq(L), l \in L :
            Kept(Append(s, l), b) = IF l \in b THEN Append(Kept(s, b), l) ELSE Kept(s, b)
      BY KeptAppend
    <3>. QED  BY <2>1, <2>4, <3>1
  <2>. QED  BY <2>1, <2>2, <2>3, <2>4, <2>5, <2>6
<1>. HIDE DEF Good
<1>5. n \in Good
  <2>1. \A i \in 0..n-1 : i \in Good => i + 1 \in Good
    BY <1>4
  <2>. HIDE DEF n
  <2>2. 0..n \subseteq Good
    BY <1>0, <1>3, <2>1, CountingUp
  <2>. QED  BY <1>0, <2>2
<1>. QED  BY <1>1, <1>2, <1>5 DEF Good

LEMMA ConcatAppend ==
  ASSUME NEW L, NEW s \in Seq(L), NEW t \in Seq(L), NEW x \in L
  PROVE  s \o Append(t, x) = Append(s \o t, x)
OBVIOUS

LEMMA KeptOfNone ==
  ASSUME NEW keep
  PROVE  Kept(<<>>, keep) = <<>>
<1>1. <<>> \in Seq({}) /\ DOMAIN <<>> = {}
  OBVIOUS
<1>2. Range(<<>>) = {}
  BY <1>1 DEF Range
<1>3. Kept(<<>>, keep) \in Seq({}) /\ Range(Kept(<<>>, keep)) = Range(<<>>) \cap keep
  BY <1>1, KeptRange
<1>. QED  BY <1>2, <1>3, OnlyTheEmpty

LEMMA KeptConcat ==
  ASSUME NEW L, NEW s \in Seq(L), NEW t \in Seq(L), NEW keep
  PROVE  Kept(s \o t, keep) = Kept(s, keep) \o Kept(t, keep)
<1>. DEFINE n == Len(t)
            Part(i) == SubSeq(t, 1, i)
            Good == {i \in 0..n : Kept(s \o Part(i), keep) = Kept(s, keep) \o Kept(Part(i), keep)}
<1>0. n \in Nat /\ Kept(s, keep) \in Seq(L)
  BY KeptRange
<1>1. 0 \in Good
  <2>1. Part(0) = <<>>
    OBVIOUS
  <2>3. Kept(<<>>, keep) = <<>>
    BY KeptOfNone
  <2>4. s \o <<>> = s /\ Kept(s, keep) \o <<>> = Kept(s, keep)
    BY <1>0
  <2>. HIDE DEF Part
  <2>5. Kept(s \o Part(0), keep) = Kept(s, keep) \o Kept(Part(0), keep)
    BY <2>1, <2>3, <2>4
  <2>. QED  BY <1>0, <2>5
<1>2. ASSUME NEW i \in 0..n-1, i \in Good
      PROVE  i + 1 \in Good
  <2>1. i + 1 \in 1..n /\ i + 1 \in 0..n
    BY <1>0
  <2>2. t[i + 1] \in L
    BY <2>1
  <2>3. Part(i) \in Seq(L) /\ Part(i + 1) = Append(Part(i), t[i + 1])
    BY <2>1
  <2>. HIDE DEF Part
  <2>4. Kept(Part(i), keep) \in Seq(L)
    BY <2>3, KeptRange
  <2>5. s \o Part(i) \in Seq(L) /\ s \o Part(i + 1) = Append(s \o Part(i), t[i + 1])
    BY <2>2, <2>3, ConcatAppend
  <2>9. \A q \in Seq(L), l \in L :
          Kept(Append(q, l), keep) = IF l \in keep THEN Append(Kept(q, keep), l)
                                                   ELSE Kept(q, keep)
    BY KeptAppend
  <2>6. Kept(s \o Part(i + 1), keep)
          = IF t[i + 1] \in keep THEN Append(Kept(s \o Part(i), keep), t[i + 1])
                                 ELSE Kept(s \o Part(i), keep)
    BY <2>2, <2>5, <2>9
  <2>7. Kept(Part(i + 1), keep)
          = IF t[i + 1] \in keep THEN Append(Kept(Part(i), keep), t[i + 1])
                                 ELSE Kept(Part(i), keep)
    BY <2>2, <2>3, <2>9
  <2>8. Kept(s, keep) \o Append(Kept(Part(i), keep), t[i + 1])
          = Append(Kept(s, keep) \o Kept(Part(i), keep), t[i + 1])
    BY <1>0, <2>2, <2>4, ConcatAppend
  <2>. QED  BY <1>2, <2>1, <2>6, <2>7, <2>8
<1>3. n \in Good
  <2>1. \A i \in 0..n-1 : i \in Good => i + 1 \in Good
    BY <1>2
  <2>. HIDE DEF n, Good
  <2>2. 0..n \subseteq Good
    BY <1>0, <1>1, <2>1, CountingUp
  <2>. QED  BY <1>0, <2>2
<1>4. Part(n) = t
  OBVIOUS
<1>. HIDE DEF Part, n
<1>. QED  BY <1>3, <1>4

(* The lines before a position, the line there, and those after it. *)
LEMMA CutAt ==
  ASSUME NEW L, NEW ls \in Seq(L), NEW i \in 1..Len(ls)
  PROVE  /\ SubSeq(ls, 1, i - 1) \in Seq(L) /\ SubSeq(ls, i + 1, Len(ls)) \in Seq(L)
         /\ ls[i] \in L
         /\ Len(SubSeq(ls, 1, i - 1)) = i - 1
         /\ \A k \in 1..(i - 1) : SubSeq(ls, 1, i - 1)[k] = ls[k]
         /\ ls = (SubSeq(ls, 1, i - 1) \o <<ls[i]>>) \o SubSeq(ls, i + 1, Len(ls))
<1>. DEFINE a == SubSeq(ls, 1, i - 1)
            b == SubSeq(ls, i + 1, Len(ls))
            n == Len(ls)
<1>1. n \in Nat /\ i \in Nat /\ 1 <= i /\ i <= n /\ DOMAIN ls = 1..n
  OBVIOUS
<1>2. a \in Seq(L) /\ Len(a) = i - 1 /\ \A k \in 1..(i - 1) : a[k] = ls[k]
  BY <1>1
<1>3. b \in Seq(L) /\ Len(b) = n - i /\ \A k \in 1..(n - i) : b[k] = ls[i + k]
  <2>1. \A k \in (i + 1)..n : ls[k] \in L
    BY <1>1
  <2>2. b \in Seq(L)
    BY <1>1, <2>1
  <2>3. Len(b) = n - i
    <3>1. CASE i + 1 <= n
      BY <1>1, <2>1, <3>1
    <3>2. CASE i = n
      BY <1>1, <2>1, <3>2
    <3>3. i + 1 <= n \/ i = n
      <4>. HIDE DEF n
      <4>. QED  BY <1>1
    <3>. QED  BY <3>1, <3>2, <3>3
  <2>4. ASSUME NEW k \in 1..(n - i)
        PROVE  b[k] = ls[i + k]
    BY <1>1, <2>1
  <2>. QED  BY <2>2, <2>3, <2>4
<1>4. ls[i] \in L
  BY <1>1
<1>. HIDE DEF a, b, n
<1>5. LET c == a \o <<ls[i]>> IN
        /\ c \in Seq(L) /\ Len(c) = i /\ c[i] = ls[i]
        /\ \A k \in 1..(i - 1) : c[k] = ls[k]
  BY <1>1, <1>2, <1>4
<1>. DEFINE c == a \o <<ls[i]>>
<1>6. c \in Seq(L) /\ Len(c) = i /\ \A k \in 1..i : c[k] = ls[k]
  BY <1>1, <1>5
<1>. HIDE DEF c
<1>7. c \o b \in Seq(L) /\ Len(c \o b) = n
  <2>1. c \o b \in Seq(L) /\ Len(c \o b) = Len(c) + Len(b)
    BY <1>3, <1>6, ConcatFacts
  <2>. QED  BY <1>1, <1>3, <1>6, <2>1
<1>8. ASSUME NEW k \in 1..n
      PROVE  (c \o b)[k] = ls[k]
  <2>0. /\ \A j \in 1..Len(c) : (c \o b)[j] = c[j]
        /\ \A j \in 1..Len(b) : (c \o b)[Len(c) + j] = b[j]
    BY <1>3, <1>6, ConcatFacts
  <2>1. CASE k <= i
    BY <1>1, <1>6, <2>0, <2>1
  <2>2. CASE k > i
    <3>1. k - i \in 1..(n - i) /\ i + (k - i) = k
      BY <1>1, <2>2
    <3>2. (c \o b)[k] = b[k - i]
      BY <1>3, <1>6, <2>0, <3>1
    <3>. QED  BY <1>3, <3>1, <3>2
  <2>3. k <= i \/ k > i
    BY <1>1
  <2>. QED  BY <2>1, <2>2, <2>3
<1>9. c \o b = ls
  <2>1. Len(ls) = Len(c \o b) /\ ls \in Seq(L)
    BY <1>7 DEF n
  <2>. QED  BY <1>7, <1>8, <2>1, SameSequence
<1>. QED  BY <1>2, <1>3, <1>4, <1>9 DEF a, b, c, n

LEMMA PrefixByPosition ==
  ASSUME NEW L, NEW s \in Seq(L), NEW t \in Seq(L)
  PROVE  IsPrefix(s, t) <=> Len(s) <= Len(t) /\ \A i \in 1..Len(s) : s[i] = t[i]
<1>1. CASE Len(s) <= Len(t)
  <2>1. SubSeq(s, 1, Len(s)) = s
    OBVIOUS
  <2>2. /\ SubSeq(t, 1, Len(s)) \in Seq(L) /\ Len(SubSeq(t, 1, Len(s))) = Len(s)
        /\ \A i \in 1..Len(s) : SubSeq(t, 1, Len(s))[i] = t[i]
    BY <1>1
  <2>3. s = SubSeq(t, 1, Len(s)) <=> \A i \in 1..Len(s) : s[i] = SubSeq(t, 1, Len(s))[i]
    BY <2>2
  <2>. QED  BY <1>1, <2>1, <2>2, <2>3 DEF IsPrefix
<1>2. CASE ~ (Len(s) <= Len(t))
  BY <1>2 DEF IsPrefix
<1>. QED  BY <1>1, <1>2

-----------------------------------------------------------------------------
(* What a file means, from the set of its lines. *)

LEMMA RecordsAreNoLines ==
  Record \cap ZoneLines = {}
<1>1. \A r \in Record : DOMAIN r = {"name", "type", "value"}
  BY DEF Record, Data, Block
<1>2. \A l \in ZoneLines : DOMAIN l = {"clause", "name", "type"}
  BY DEF ZoneLines
<1>. QED  BY <1>1, <1>2

LEMMA MeaningParts ==
  ASSUME NEW ls \in Seq(Line)
  PROVE  /\ Range(ls) \subseteq Line
         /\ Parse(ls) \subseteq Record
         /\ Meaning(ls) \subseteq Record \cup PlainZone
         /\ Meaning(ls) \cap Record = Parse(ls)
         /\ Meaning(ls) \cap PlainZone = Range(ls) \cap PlainZone
<1>1. Range(ls) \subseteq Line
  BY DEF Range
<1>2. Parse(ls) \subseteq Record
  BY <1>1, ParsedLine DEF Parse
<1>3. Record \cap PlainZone = {}
  BY RecordsAreNoLines DEF PlainZone
<1>. QED  BY <1>1, <1>2, <1>3 DEF Meaning

LEMMA KeysApart ==
  /\ Data \cap Block = {} /\ Record \cap PlainZone = {}
  /\ \A r \in Data : LineKey(r) = <<r.name, r.type>> /\ r.type # "zone"
  /\ \A l \in Block \cup PlainZone : LineKey(l) = <<Folded[l.name], "zone">>
<1>1. Data \cap Block = {} /\ Record \cap PlainZone = {} /\ Data \cap PlainZone = {}
  <2>1. Data \cap Block = {}
    BY DnsFileAssumption DEF Data, Block
  <2>. QED  BY <2>1, RecordsAreNoLines DEF Record, PlainZone
<1>2. \A r \in Data : r.type # "zone"
  BY DnsFileAssumption DEF Data
<1>. QED  BY <1>1, <1>2 DEF LineKey

(* The names whose zone a file opens are those of its blocks and its plain *)
(* zone lines.                                                             *)
LEMMA OpenedNames ==
  ASSUME NEW ls \in Seq(Line)
  PROVE  ZoneNames(ls) = {l.name : l \in Meaning(ls) \cap (Block \cup PlainZone)}
<1>1. ASSUME NEW l \in Range(ls), l.clause = "local-zone"
      PROVE  \E o \in Meaning(ls) \cap (Block \cup PlainZone) : o.name = l.name
  <2>1. l \in ZoneLines
    BY <1>1, MeaningParts DEF Line, DataLine, PassedOver
  <2>2. CASE PolicyFor(l.type) = {}
    BY <2>1, <2>2, <1>1 DEF PlainZone, Meaning
  <2>3. CASE PolicyFor(l.type) # {}
    <3>1. PICK t \in PolicyFor(l.type) : TRUE
      BY <2>3
    <3>. DEFINE o == [name |-> l.name, type |-> t, value |-> NoValue]
    <3>2. o \in Parsed(l)
      BY <1>1, <3>1 DEF Parsed
    <3>3. o \in Block
      BY <2>1, <3>1 DEF Block, PolicyFor, ZoneLines
    <3>4. o \in Meaning(ls)
      BY <3>2 DEF Meaning, Parse
    <3>. QED  BY <3>3, <3>4
  <2>. QED  BY <2>2, <2>3
<1>2. ASSUME NEW o \in Meaning(ls) \cap (Block \cup PlainZone)
      PROVE  \E l \in Range(ls) : l.clause = "local-zone" /\ l.name = o.name
  <2>1. CASE o \in PlainZone
    BY <2>1, MeaningParts DEF PlainZone, ZoneLines
  <2>2. CASE o \in Block
    <3>1. PICK l \in Range(ls) : o \in Parsed(l)
      BY <2>2, MeaningParts DEF Parse, Record
    <3>2. l \in Line
      BY MeaningParts
    <3>3. l \notin DataLine
      BY <2>2, <3>1, DnsFileAssumption DEF DataLine, Parsed, Block
    <3>4. l \notin PassedOver
      BY <3>1 DEF PassedOver, Parsed
    <3>5. l \in ZoneLines
      BY <3>2, <3>3, <3>4 DEF Line
    <3>6. o.name = l.name
      BY <3>1, <3>5 DEF ZoneLines, Parsed
    <3>. QED  BY <3>5, <3>6 DEF ZoneLines
  <2>. QED  BY <2>1, <2>2
<1>. QED  BY <1>1, <1>2 DEF ZoneNames

LEMMA TakenMeans ==
  ASSUME NEW ls \in Seq(Line), NEW r \in Record
  PROVE  TakenBy(ls, r) <=> Sets!TakenBy(Meaning(ls), r)
<1>. DEFINE c == Meaning(ls)
<1>1. CASE r.type \notin OneType
  BY <1>1 DEF TakenBy, Sets!TakenBy
<1>2. CASE r.type \in OneType
  <2>1. r \in Data
    BY <1>2, DnsFileAssumption DEF Record, Block, DataType
  <2>2. \A o \in c : o \in Data \/ o \in Block \cup PlainZone
    BY MeaningParts DEF Record
  <2>3. \A o \in c : LineKey(o) = LineKey(r) <=> o \in Data /\ SameName(o, r)
    BY <2>1, <2>2, KeysApart DEF SameName
  <2>4. \A o \in Data : SameName(o, r) => (o.value # r.value <=> o # r)
    BY <2>1 DEF Data, SameName
  <2>5. Parse(ls) = c \cap Record
    BY MeaningParts
  <2>6. \A o \in Record : SameName(o, r) => o \in Data
    BY <1>2, DnsFileAssumption DEF Record, Block, DataType, SameName
  <2>7. TakenBy(ls, r) <=> \E o \in c : o \in Data /\ SameName(o, r) /\ o # r
    BY <1>2, <2>4, <2>5, <2>6 DEF TakenBy, Record
  <2>8. \A o \in c \cup {r} : o \in Record \cup PlainZone
    BY MeaningParts
  <2>9. Sets!TakenBy(c, r) <=> \E o \in c : o # r /\ LineKey(o) = LineKey(r)
    BY <1>2, <2>8 DEF Sets!TakenBy, Sets!SameName
  <2>. QED  BY <2>3, <2>7, <2>9
<1>. QED  BY <1>1, <1>2

LEMMA HoldsMeans ==
  ASSUME NEW ls \in Seq(Line), NEW r \in Record
  PROVE  /\ HasRecord(ls, r) <=> r \in Meaning(ls)
         /\ (HasRecord(ls, r) \/ (IsPolicy(r) /\ DeclaresName(ls, r.name)))
               <=> Sets!Holds(Meaning(ls), r)
<1>. DEFINE c == Meaning(ls)
<1>1. HasRecord(ls, r) <=> r \in c
  BY MeaningParts DEF HasRecord, Matches, Parse
<1>2. IsPolicy(r) <=> r \in Block
  BY DnsFileAssumption DEF IsPolicy, Record, Data, Block
<1>3. ASSUME r \in Block
      PROVE  DeclaresName(ls, r.name) <=> Sets!Opening(c, r) # {}
  <2>1. \A o \in Block \cup PlainZone :
          LineKey(o) = LineKey(r) <=> Folded[o.name] = Folded[r.name]
    BY <1>3, KeysApart
  <2>2. Sets!Opening(c, r) # {}
          <=> \E o \in c \cap (Block \cup PlainZone) : Folded[o.name] = Folded[r.name]
    BY <2>1 DEF Sets!Opening, Sets!SameName, Record
  <2>3. DeclaresName(ls, r.name)
          <=> \E o \in c \cap (Block \cup PlainZone) : Folded[o.name] = Folded[r.name]
    BY OpenedNames DEF DeclaresName
  <2>. QED  BY <2>2, <2>3
<1>. QED  BY <1>1, <1>2, <1>3 DEF Sets!Holds

LEMMA ConsistentMeans ==
  ASSUME NEW ls \in Seq(Line)
  PROVE  CheckConsistency(ls) <=> Sets!Consistent(Meaning(ls))
<1>. DEFINE c == Meaning(ls)
<1>1. \A r \in Record : IsPolicy(r) <=> r \in Block
  BY DnsFileAssumption DEF IsPolicy, Record, Data, Block
<1>2. Parse(ls) = c \cap Record
  BY MeaningParts
<1>3. Record = Data \cup Block /\ Data \cap Block = {}
  BY KeysApart DEF Record
<1>4. CheckConsistency(ls) <=>
        \A b \in c \cap Block, r \in c \cap Data : ~ CoversName(b.name, r.name)
  BY <1>1, <1>2, <1>3 DEF CheckConsistency
<1>. QED  BY <1>4 DEF Sets!Consistent

LEMMA DeclareMeans ==
  ASSUME NEW ls \in Seq(Line), NEW r \in Record
  PROVE  /\ DeclareZone(ls, r) \in Seq(Line)
         /\ Meaning(DeclareZone(ls, r)) = Sets!DeclareZones(Meaning(ls), {r})
<1>. DEFINE c == Meaning(ls)
            n == ParentZone[r.name]
            z == ZoneLine(n, "transparent")
<1>1. CASE r \in Block
  <2>1. DeclareZone(ls, r) = ls
    BY <1>1 DEF DeclareZone, IsPolicy, Block
  <2>. QED  BY <1>1, <2>1 DEF Sets!DeclareZones
<1>2. CASE r \in Data
  <2>1. DeclareZone(ls, r) = EnsureZone(ls, r.name)
    BY <1>2, DnsFileAssumption DEF DeclareZone, IsPolicy, Data
  <2>2. r \notin Block /\ r.name \in Name
    BY <1>2, KeysApart DEF Data
  <2>3. CASE n = NoName
    BY <1>2, <2>1, <2>2, <2>3 DEF EnsureZone, Sets!DeclareZones
  <2>4. CASE n # NoName
    <3>1. n \in Name
      BY <2>2, <2>4, DnsFileAssumption
    <3>2. z \in Line \cap PlainZone /\ Parsed(z) = {} /\ z.name = n
      BY <3>1, PlainLines DEF ZoneLine
    <3>3. DeclaresZone(ls, n) <=> Sets!Declaring(c, z) # {}
      <4>1. n \in ZoneNames(ls) <=> \E o \in c \cap (Block \cup PlainZone) : o.name = n
        BY OpenedNames
      <4>2. Sets!Declaring(c, z) = {o \in c \cap (Block \cup PlainZone) : o.name = n}
        BY <3>2 DEF Sets!Declaring
      <4>. QED  BY <4>1, <4>2 DEF DeclaresZone
    <3>4. Sets!DeclareZones(c, {r}) = IF Sets!Declaring(c, z) = {} THEN c \cup {z} ELSE c
      BY <1>2, <2>2, <2>4 DEF Sets!DeclareZones
    <3>5. EnsureZone(ls, r.name) = IF DeclaresZone(ls, n) THEN ls ELSE Append(ls, z)
      BY <2>4 DEF EnsureZone
    <3>6. Append(ls, z) \in Seq(Line) /\ Range(Append(ls, z)) = Range(ls) \cup {z}
      BY <3>2, RangeOfAppend
    <3>7. Meaning(Append(ls, z)) = c \cup {z}
      BY <3>2, <3>6 DEF Meaning, Parse
    <3>. QED  BY <2>1, <3>3, <3>4, <3>5, <3>6, <3>7
  <2>. QED  BY <2>3, <2>4
<1>. QED  BY <1>1, <1>2 DEF Record

-----------------------------------------------------------------------------
(* The shape of a file: the lines that are not the panel's, and where the  *)
(* clause header is.                                                       *)

Quiet == {l \in Line : Parsed(l) = {} /\ l # Header}

LEMMA ForeignIsQuiet ==
  ASSUME NEW ls \in Seq(Line)
  PROVE  Foreign(ls) = Kept(ls, Quiet) /\ Foreign(ls) \in Seq(Line)
<1>. DEFINE own == {l \in Range(ls) : Parsed(l) = {} /\ l # Header}
<1>1. \A i \in 1..Len(ls) : ls[i] \in own <=> ls[i] \in Quiet
  BY DEF Quiet, Range
<1>. HIDE DEF own
<1>2. Kept(ls, own) = Kept(ls, Quiet)
  BY <1>1, KeptSame
<1>3. Foreign(ls) = Kept(ls, own)
  BY DEF Foreign, own
<1>. QED  BY <1>2, <1>3, KeptRange

LEMMA SitsAppend ==
  ASSUME NEW s \in Seq(Line), SitInTheClause(s), NEW x \in Line,
         x.clause \in {"local-data", "local-zone"} => Header \in Range(s)
  PROVE  SitInTheClause(Append(s, x))
<1>. DEFINE t == Append(s, x)
<1>1. /\ Len(s) \in Nat /\ DOMAIN s = 1..Len(s) /\ DOMAIN t = 1..(Len(s) + 1)
      /\ t[Len(s) + 1] = x /\ \A i \in 1..Len(s) : t[i] = s[i]
  OBVIOUS
<1>. HIDE DEF t
<1>2. ASSUME NEW i \in DOMAIN t, t[i].clause \in {"local-data", "local-zone"}
      PROVE  \E h \in 1..(i - 1) : t[h] = Header
  <2>1. CASE i \in 1..Len(s)
    <3>1. PICK h \in 1..(i - 1) : s[h] = Header
      BY <1>1, <1>2, <2>1 DEF SitInTheClause
    <3>2. h \in 1..Len(s)
      BY <1>1, <2>1, <3>1
    <3>. QED  BY <1>1, <3>1, <3>2
  <2>2. CASE i = Len(s) + 1
    <3>1. PICK h \in 1..Len(s) : s[h] = Header
      BY <1>1, <1>2, <2>2 DEF Range
    <3>2. h \in 1..(i - 1)
      BY <1>1, <2>2, <3>1
    <3>. QED  BY <1>1, <3>1, <3>2
  <2>. QED  BY <1>1, <2>1, <2>2
<1>. QED  BY <1>2 DEF SitInTheClause, t

LEMMA SitsConcat ==
  ASSUME NEW s \in Seq(Line), SitInTheClause(s), Header \in Range(s), NEW t \in Seq(Line)
  PROVE  SitInTheClause(s \o t)
<1>. DEFINE u == s \o t
<1>1. /\ Len(s) \in Nat /\ DOMAIN s = 1..Len(s) /\ Len(t) \in Nat
      /\ u \in Seq(Line) /\ Len(u) = Len(s) + Len(t)
      /\ \A i \in 1..Len(s) : u[i] = s[i]
  BY ConcatFacts
<1>. HIDE DEF u
<1>2. DOMAIN u = 1..(Len(s) + Len(t))
  BY <1>1
<1>3. PICK k \in 1..Len(s) : s[k] = Header
  BY <1>1 DEF Range
<1>4. ASSUME NEW i \in DOMAIN u, u[i].clause \in {"local-data", "local-zone"}
      PROVE  \E h \in 1..(i - 1) : u[h] = Header
  <2>1. CASE i \in 1..Len(s)
    <3>1. PICK h \in 1..(i - 1) : s[h] = Header
      BY <1>1, <1>4, <2>1 DEF SitInTheClause
    <3>2. h \in 1..Len(s)
      BY <1>1, <2>1, <3>1
    <3>. QED  BY <1>1, <3>1, <3>2
  <2>2. CASE i \notin 1..Len(s)
    <3>1. k \in 1..(i - 1)
      BY <1>1, <1>2, <1>3, <2>2
    <3>. QED  BY <1>1, <1>3, <3>1
  <2>. QED  BY <2>1, <2>2
<1>. QED  BY <1>4 DEF SitInTheClause, u

LEMMA SitsCut ==
  ASSUME NEW ls \in Seq(Line), SitInTheClause(ls), NEW i \in 1..Len(ls)
  PROVE  /\ SitInTheClause(SubSeq(ls, 1, i - 1))
         /\ ls[i].clause \in {"local-data", "local-zone"} => Header \in Range(SubSeq(ls, 1, i - 1))
<1>. DEFINE a == SubSeq(ls, 1, i - 1)
<1>1. a \in Seq(Line) /\ Len(a) = i - 1 /\ \A k \in 1..(i - 1) : a[k] = ls[k]
  BY CutAt
<1>2. i \in Nat /\ DOMAIN ls = 1..Len(ls) /\ Len(ls) \in Nat
  OBVIOUS
<1>. HIDE DEF a
<1>3. DOMAIN a = 1..(i - 1)
  BY <1>1
<1>4. ASSUME NEW j \in DOMAIN a, a[j].clause \in {"local-data", "local-zone"}
      PROVE  \E h \in 1..(j - 1) : a[h] = Header
  <2>1. j \in 1..(i - 1) /\ j \in DOMAIN ls
    BY <1>2, <1>3
  <2>2. PICK h \in 1..(j - 1) : ls[h] = Header
    BY <1>1, <1>4, <2>1 DEF SitInTheClause
  <2>3. h \in 1..(i - 1)
    BY <1>2, <2>1
  <2>. QED  BY <1>1, <2>2, <2>3
<1>5. ASSUME ls[i].clause \in {"local-data", "local-zone"}
      PROVE  Header \in Range(a)
  <2>1. PICK h \in 1..(i - 1) : ls[h] = Header
    BY <1>2, <1>5 DEF SitInTheClause
  <2>. QED  BY <1>1, <1>3, <2>1 DEF Range
<1>. QED  BY <1>4, <1>5 DEF SitInTheClause, a

LEMMA SitsKept ==
  ASSUME NEW ls \in Seq(Line), SitInTheClause(ls), NEW keep, Header \in keep
  PROVE  SitInTheClause(Kept(ls, keep))
<1>. DEFINE n == Len(ls)
<1>0. n \in Nat /\ DOMAIN ls = 1..n /\ \A i \in 1..n : ls[i] \in Line
  OBVIOUS
<1>1. PICK F : /\ F[0] = <<>>
               /\ \A i \in 1..n :
                    F[i] = IF ls[i] \in keep THEN Append(F[i - 1], ls[i]) ELSE F[i - 1]
               /\ Kept(ls, keep) = F[n]
  BY KeptSteps, Zenon
<1>. DEFINE Fine(i) == /\ F[i] \in Seq(Line) /\ SitInTheClause(F[i])
                       /\ \A h \in 1..i : ls[h] = Header => Header \in Range(F[i])
            Good == {i \in 0..n : Fine(i)}
<1>2. 0 \in Good
  <2>1. <<>> \in Seq(Line) /\ DOMAIN <<>> = {}
    OBVIOUS
  <2>2. SitInTheClause(<<>>) /\ 1..0 = {}
    BY <2>1 DEF SitInTheClause
  <2>3. Fine(0)
    BY <1>1, <2>1, <2>2
  <2>. QED  BY <1>0, <2>3
<1>3. ASSUME NEW i \in 0..n-1, Fine(i)
      PROVE  Fine(i + 1)
  <2>1. i + 1 \in 1..n /\ (i + 1) - 1 = i /\ 1..(i + 1) = (1..i) \cup {i + 1}
        /\ ls[i + 1] \in Line
    BY <1>0
  <2>2. F[i + 1] = IF ls[i + 1] \in keep THEN Append(F[i], ls[i + 1]) ELSE F[i]
    BY <1>1, <2>1
  <2>3. ls[i + 1].clause \in {"local-data", "local-zone"} => Header \in Range(F[i])
    <3>1. ASSUME ls[i + 1].clause \in {"local-data", "local-zone"}
          PROVE  \E h \in 1..i : ls[h] = Header
      BY <1>0, <2>1, <3>1 DEF SitInTheClause
    <3>. QED  BY <1>3, <3>1
  <2>4. CASE ls[i + 1] \in keep
    <3>. DEFINE s == F[i]
                x == ls[i + 1]
    <3>1. s \in Seq(Line) /\ SitInTheClause(s)
      BY <1>3
    <3>2. x \in Line /\ (x.clause \in {"local-data", "local-zone"} => Header \in Range(s))
      BY <2>1, <2>3
    <3>3. F[i + 1] = Append(s, x)
      BY <2>2, <2>4
    <3>4. ASSUME NEW h \in 1..(i + 1), ls[h] = Header
          PROVE  Header \in Range(s) \cup {x}
      BY <1>3, <2>1, <3>4
    <3>. HIDE DEF s, x
    <3>5. Append(s, x) \in Seq(Line) /\ Range(Append(s, x)) = Range(s) \cup {x}
      BY <3>1, <3>2, RangeOfAppend
    <3>6. SitInTheClause(Append(s, x))
      BY <3>1, <3>2, SitsAppend
    <3>. QED  BY <3>3, <3>4, <3>5, <3>6
  <2>5. CASE ls[i + 1] \notin keep
    BY <1>3, <2>1, <2>2, <2>5
  <2>. QED  BY <2>4, <2>5
<1>4. n \in Good
  <2>1. \A i \in 0..n-1 : i \in Good => i + 1 \in Good
    <3>1. \A i \in 0..n-1 : i + 1 \in 0..n
      BY <1>0
    <3>. HIDE DEF Fine
    <3>. QED  BY <1>3, <3>1
  <2>. HIDE DEF n, Good
  <2>2. 0..n \subseteq Good
    BY <1>0, <1>2, <2>1, CountingUp
  <2>. QED  BY <1>0, <2>2
<1>. QED  BY <1>1, <1>4

-----------------------------------------------------------------------------
(* What every edit of the lines leaves alone: the lines that are not the   *)
(* panel's, in their order, and a header above the records.                *)
Reshaped(ls, new) ==
  /\ new \in Seq(Line)
  /\ IsPrefix(Foreign(ls), Foreign(new))
  /\ Header \in Range(ls) <=> Header \in Range(new)
  /\ Header \in Range(ls) /\ SitInTheClause(ls) => SitInTheClause(new)

LEMMA ReshapedTwice ==
  ASSUME NEW a \in Seq(Line), NEW b, NEW c, Reshaped(a, b), Reshaped(b, c)
  PROVE  Reshaped(a, c)
<1>1. b \in Seq(Line) /\ c \in Seq(Line)
  BY DEF Reshaped
<1>. DEFINE fa == Foreign(a)
            fb == Foreign(b)
            fc == Foreign(c)
<1>2. fa \in Seq(Line) /\ fb \in Seq(Line) /\ fc \in Seq(Line)
  BY <1>1, ForeignIsQuiet
<1>3. IsPrefix(fa, fb) /\ IsPrefix(fb, fc)
  BY DEF Reshaped
<1>. HIDE DEF fa, fb, fc
<1>4. Len(fa) <= Len(fb) /\ \A i \in 1..Len(fa) : fa[i] = fb[i]
  BY <1>2, <1>3, PrefixByPosition
<1>5. Len(fb) <= Len(fc) /\ \A i \in 1..Len(fb) : fb[i] = fc[i]
  BY <1>2, <1>3, PrefixByPosition
<1>6. Len(fa) \in Nat /\ Len(fb) \in Nat /\ Len(fc) \in Nat
  BY <1>2
<1>7. Len(fa) <= Len(fc) /\ \A i \in 1..Len(fa) : fa[i] = fc[i]
  BY <1>4, <1>5, <1>6
<1>8. IsPrefix(fa, fc)
  BY <1>2, <1>7, PrefixByPosition
<1>. QED  BY <1>1, <1>8 DEF Reshaped, fa, fc

LEMMA SamePrefix ==
  ASSUME NEW L, NEW s \in Seq(L)
  PROVE  IsPrefix(s, s) /\ \A x \in L : IsPrefix(s, Append(s, x))
<1>1. IsPrefix(s, s)
  BY PrefixByPosition
<1>2. ASSUME NEW x \in L
      PROVE  IsPrefix(s, Append(s, x))
  <2>1. Append(s, x) \in Seq(L) /\ Len(s) <= Len(Append(s, x))
        /\ \A i \in 1..Len(s) : s[i] = Append(s, x)[i]
    OBVIOUS
  <2>. QED  BY <2>1, PrefixByPosition
<1>. QED  BY <1>1, <1>2

LEMMA ReshapedSelf ==
  ASSUME NEW ls \in Seq(Line)
  PROVE  Reshaped(ls, ls)
BY ForeignIsQuiet, SamePrefix DEF Reshaped

(* A line that is not the header, at the end. *)
LEMMA AppendedLine ==
  ASSUME NEW ls \in Seq(Line), NEW l \in Line, l # Header
  PROVE  /\ Reshaped(ls, Append(ls, l))
         /\ Meaning(Append(ls, l)) = Meaning(ls) \cup Parsed(l) \cup ({l} \cap PlainZone)
<1>. DEFINE new == Append(ls, l)
<1>1. new \in Seq(Line) /\ Range(new) = Range(ls) \cup {l}
  BY RangeOfAppend
<1>2. Foreign(new) = IF l \in Quiet THEN Append(Foreign(ls), l) ELSE Foreign(ls)
  <2>1. Kept(new, Quiet) = IF l \in Quiet THEN Append(Kept(ls, Quiet), l) ELSE Kept(ls, Quiet)
    BY KeptAppend
  <2>. HIDE DEF new
  <2>. QED  BY <1>1, <2>1, ForeignIsQuiet
<1>3. IsPrefix(Foreign(ls), Foreign(new))
  BY <1>2, ForeignIsQuiet, SamePrefix
<1>4. Header \in Range(ls) /\ SitInTheClause(ls) => SitInTheClause(new)
  BY SitsAppend
<1>. HIDE DEF new
<1>5. Meaning(new) = Meaning(ls) \cup Parsed(l) \cup ({l} \cap PlainZone)
  BY <1>1 DEF Meaning, Parse
<1>6. Reshaped(ls, new)
  BY <1>1, <1>3, <1>4 DEF Reshaped
<1>. QED  BY <1>5, <1>6 DEF new

LEMMA AppendedRecord ==
  ASSUME NEW ls \in Seq(Line), NEW r \in Record
  PROVE  /\ Reshaped(ls, Append(ls, BuildLine(r)))
         /\ Meaning(Append(ls, BuildLine(r))) = Meaning(ls) \cup {r}
<1>. DEFINE l == BuildLine(r)
<1>1. l \in Line /\ Parsed(l) = {r} /\ l # Header /\ l \notin PlainZone
  BY BuiltLine
<1>. HIDE DEF l
<1>2. Reshaped(ls, Append(ls, l))
      /\ Meaning(Append(ls, l)) = Meaning(ls) \cup Parsed(l) \cup ({l} \cap PlainZone)
  BY <1>1, AppendedLine
<1>3. {l} \cap PlainZone = {}
  BY <1>1
<1>. QED  BY <1>1, <1>2, <1>3 DEF l

LEMMA DeclaredZone ==
  ASSUME NEW ls \in Seq(Line), NEW r \in Record
  PROVE  Reshaped(ls, DeclareZone(ls, r))
<1>. DEFINE n == ParentZone[r.name]
            z == ZoneLine(n, "transparent")
<1>1. r.name \in Name
  BY DEF Record, Data, Block
<1>2. CASE n = NoName \/ DeclaresZone(ls, n) \/ IsPolicy(r)
  <2>1. DeclareZone(ls, r) = ls
    BY <1>2 DEF DeclareZone, EnsureZone
  <2>. QED  BY <2>1, ReshapedSelf
<1>3. CASE ~ (n = NoName \/ DeclaresZone(ls, n) \/ IsPolicy(r))
  <2>1. DeclareZone(ls, r) = Append(ls, z)
    BY <1>3 DEF DeclareZone, EnsureZone
  <2>2. n \in Name
    BY <1>1, <1>3, DnsFileAssumption
  <2>3. z \in Line /\ z # Header
    BY <2>2, PlainLines
  <2>4. Reshaped(ls, Append(ls, z))
    BY <2>3, AppendedLine
  <2>. QED  BY <2>1, <2>4
<1>. QED  BY <1>2, <1>3

(* Lines dropped, none of them the header or somebody else's. *)
LEMMA DroppedLines ==
  ASSUME NEW ls \in Seq(Line), NEW keep, Range(ls) \cap (Quiet \cup {Header}) \subseteq keep
  PROVE  Reshaped(ls, Kept(ls, keep))
<1>. DEFINE new == Kept(ls, keep)
            all == keep \cup {Header}
<1>1. new \in Seq(Line) /\ Range(new) = Range(ls) \cap keep
  BY KeptRange
<1>2. Kept(new, Quiet) = Kept(ls, keep \cap Quiet)
  BY KeptTwice
<1>3. Kept(ls, keep \cap Quiet) = Kept(ls, Quiet)
  <2>1. \A i \in 1..Len(ls) : ls[i] \in keep \cap Quiet <=> ls[i] \in Quiet
    BY DEF Range
  <2>. QED  BY <2>1, KeptSame
<1>4. Kept(ls, keep) = Kept(ls, all)
  <2>1. \A i \in 1..Len(ls) : ls[i] \in keep <=> ls[i] \in all
    BY DEF Range
  <2>. HIDE DEF all
  <2>. QED  BY <2>1, KeptSame
<1>5. SitInTheClause(ls) => SitInTheClause(Kept(ls, all))
  BY SitsKept
<1>. HIDE DEF new, all
<1>6. Foreign(new) = Foreign(ls)
  BY <1>1, <1>2, <1>3, ForeignIsQuiet
<1>7. IsPrefix(Foreign(ls), Foreign(new))
  BY <1>6, ForeignIsQuiet, SamePrefix
<1>8. SitInTheClause(ls) => SitInTheClause(new)
  BY <1>4, <1>5 DEF new
<1>9. Header \in Range(ls) <=> Header \in Range(new)
  BY <1>1
<1>. QED  BY <1>1, <1>7, <1>8, <1>9 DEF Reshaped, new

LEMMA DeletedLines ==
  ASSUME NEW ls \in Seq(Line), NEW r \in Record, Delete(ls, r).why = "ok"
  PROVE  /\ Reshaped(ls, Delete(ls, r).lines)
         /\ Meaning(Delete(ls, r).lines) = Meaning(ls) \ {r}
<1>. DEFINE keep == {l \in Range(ls) : ~ Matches(r, l)}
            new == Kept(ls, keep)
<1>1. Delete(ls, r).lines = new
  BY DEF Delete, Ok, Refused
<1>2. Range(ls) \cap (Quiet \cup {Header}) \subseteq keep
  BY PlainLines DEF Quiet, Matches
<1>3. Reshaped(ls, new)
  <2>. HIDE DEF keep
  <2>. QED  BY <1>2, DroppedLines
<1>4. Range(new) = keep
  BY KeptRange
<1>. HIDE DEF new
<1>5. Parse(new) = Parse(ls) \ {r}
  <2>1. ASSUME NEW x \in Parse(ls), x # r
        PROVE  x \in Parse(new)
    <3>1. PICK l \in Range(ls) : x \in Parsed(l)
      BY DEF Parse
    <3>2. l \in Line
      BY MeaningParts
    <3>3. r \notin Parsed(l)
      BY <2>1, <3>1, <3>2, ParsedLine
    <3>. QED  BY <1>4, <3>1, <3>3 DEF Parse, Matches
  <2>2. Parse(new) \subseteq Parse(ls) \ {r}
    BY <1>4 DEF Parse, Matches
  <2>. QED  BY <2>1, <2>2
<1>6. Range(new) \cap PlainZone = Range(ls) \cap PlainZone
  BY <1>4, MeaningParts, ParsedLine DEF Matches
<1>7. r \notin PlainZone
  BY RecordsAreNoLines DEF PlainZone
<1>. QED  BY <1>1, <1>3, <1>5, <1>6, <1>7 DEF Meaning


(* The record's lines become lines of the record given. *)
LEMMA EditedLines ==
  ASSUME NEW ls \in Seq(Line), NEW old \in Record, NEW r \in Record, HasRecord(ls, old)
  PROVE  /\ Edit(ls, old, r).why = "ok"
         /\ Reshaped(ls, Edit(ls, old, r).lines)
         /\ Meaning(Edit(ls, old, r).lines) = (Meaning(ls) \ {old}) \cup {r}
<1>. DEFINE n == Len(ls)
            x == BuildLine(r)
            new == [i \in DOMAIN ls |-> IF Matches(old, ls[i]) THEN x ELSE ls[i]]
<1>0. n \in Nat /\ DOMAIN ls = 1..n /\ \A i \in 1..n : ls[i] \in Line
  OBVIOUS
<1>1. Edit(ls, old, r).why = "ok" /\ Edit(ls, old, r).lines = new
  BY DEF Edit, Ok
<1>2. x \in Line /\ Parsed(x) = {r} /\ x # Header /\ x \notin PlainZone
      /\ x.clause \in {"local-data", "local-zone"}
  BY BuiltLine, ParsedLine
<1>. HIDE DEF x
<1>3. new \in Seq(Line) /\ Len(new) = n /\ DOMAIN new = 1..n
      /\ \A i \in 1..n : new[i] = IF Matches(old, ls[i]) THEN x ELSE ls[i]
  BY <1>0, <1>2
<1>. HIDE DEF new
<1>4. ASSUME NEW l \in Line, Matches(old, l)
      PROVE  Parsed(l) = {old} /\ l # Header /\ l \notin PlainZone
             /\ l.clause \in {"local-data", "local-zone"}
  <2>1. old \in Parsed(l)
    BY <1>4 DEF Matches
  <2>. QED  BY <2>1, ParsedLine
<1>5. PICK k \in 1..n : Matches(old, ls[k])
  BY <1>0 DEF HasRecord, Range
<1>6. \A i \in 1..n : new[i] = Header <=> ls[i] = Header
  BY <1>0, <1>2, <1>3, <1>4
<1>7. Header \in Range(ls) <=> Header \in Range(new)
  BY <1>0, <1>3, <1>6 DEF Range
<1>8. SitInTheClause(ls) => SitInTheClause(new)
  <2>1. \A i \in 1..n : new[i].clause \in {"local-data", "local-zone"}
                          => ls[i].clause \in {"local-data", "local-zone"}
    BY <1>0, <1>3, <1>4
  <2>2. ASSUME NEW i \in 1..n, NEW h \in 1..(i - 1)
        PROVE  h \in 1..n
    BY <1>0
  <2>. QED  BY <1>0, <1>3, <1>6, <2>1, <2>2 DEF SitInTheClause
<1>9. Foreign(new) = Foreign(ls)
  <2>1. \A i \in 1..Len(ls) :
          \/ ls[i] = new[i] /\ (ls[i] \in Quiet <=> new[i] \in Quiet)
          \/ ls[i] \notin Quiet /\ new[i] \notin Quiet
    BY <1>0, <1>2, <1>3, <1>4 DEF Quiet
  <2>2. Kept(ls, Quiet) = Kept(new, Quiet)
    BY <1>3, <2>1, KeptSame
  <2>. QED  BY <1>3, <2>2, ForeignIsQuiet
<1>10. Reshaped(ls, new)
  BY <1>3, <1>7, <1>8, <1>9, ForeignIsQuiet, SamePrefix DEF Reshaped
<1>11. Range(new) = {l \in Range(ls) : ~ Matches(old, l)} \cup {x}
  <2>1. Range(new) = {new[i] : i \in 1..n} /\ Range(ls) = {ls[i] : i \in 1..n}
    BY <1>0, <1>3 DEF Range
  <2>2. ASSUME NEW l \in Range(new)
        PROVE  l \in {m \in Range(ls) : ~ Matches(old, m)} \cup {x}
    BY <1>3, <2>1
  <2>3. ASSUME NEW l \in Range(ls), ~ Matches(old, l)
        PROVE  l \in Range(new)
    BY <1>3, <2>1, <2>3
  <2>4. x \in Range(new)
    BY <1>3, <1>5, <2>1
  <2>. QED  BY <2>2, <2>3, <2>4
<1>12. Range(ls) \subseteq Line
  BY MeaningParts
<1>13. Parse(new) = (Parse(ls) \ {old}) \cup {r}
  <2>1. ASSUME NEW o \in Parse(ls), o # old
        PROVE  o \in Parse(new)
    <3>1. PICK l \in Range(ls) : o \in Parsed(l)
      BY DEF Parse
    <3>2. ~ Matches(old, l)
      BY <1>4, <1>12, <2>1, <3>1
    <3>. QED  BY <1>11, <3>1, <3>2 DEF Parse
  <2>2. Parse(new) \subseteq (Parse(ls) \ {old}) \cup {r}
    BY <1>2, <1>11 DEF Parse, Matches
  <2>3. r \in Parse(new)
    BY <1>2, <1>11 DEF Parse
  <2>. QED  BY <2>1, <2>2, <2>3
<1>14. Range(new) \cap PlainZone = Range(ls) \cap PlainZone
  BY <1>2, <1>4, <1>11, <1>12
<1>15. old \notin PlainZone
  BY RecordsAreNoLines DEF PlainZone
<1>. QED  BY <1>1, <1>10, <1>13, <1>14, <1>15 DEF Meaning

(* The first line of the name becomes the record's, the others go. *)
LEMMA SetLines ==
  ASSUME NEW ls \in Seq(Line), NEW r \in Record
  PROVE  /\ Set(ls, r).why = "ok"
         /\ Reshaped(ls, Set(ls, r).lines)
         /\ Meaning(Set(ls, r).lines)
              = {o \in Meaning(ls) : o \in PlainZone \/ ~ SameName(o, r)} \cup {r}
<1>. DEFINE hits == {i \in DOMAIN ls : \E o \in Parsed(ls[i]) : SameName(o, r)}
            first == Min(hits)
            others == {l \in Range(ls) : \A o \in Parsed(l) : ~ SameName(o, r)}
            own == {l \in Line : \A o \in Parsed(l) : ~ SameName(o, r)}
            left == {o \in Meaning(ls) : o \in PlainZone \/ ~ SameName(o, r)} \cup {r}
            x == BuildLine(r)
            a == SubSeq(ls, 1, first - 1)
            b == SubSeq(ls, first + 1, Len(ls))
            k == Kept(b, others)
            new == (a \o <<x>>) \o k
<1>0. Len(ls) \in Nat /\ DOMAIN ls = 1..Len(ls) /\ Range(ls) \subseteq Line
      /\ \A i \in 1..Len(ls) : ls[i] \in Line
  BY MeaningParts
<1>1. x \in Line /\ Parsed(x) = {r} /\ x # Header /\ x \notin PlainZone
  BY BuiltLine
<1>. DEFINE Both(s, t) == /\ s \o t \in Seq(Line) /\ Range(s \o t) = Range(s) \cup Range(t)
                        /\ Kept(s \o t, Quiet) = Kept(s, Quiet) \o Kept(t, Quiet)
<1>4. \A s, t \in Seq(Line) : Both(s, t)
  BY RangeOfConcat, KeptConcat
<1>2. CASE hits = {}
  <2>1. Set(ls, r) = Ok(Append(ls, x))
    BY <1>2 DEF Set
  <2>2. \A o \in Parse(ls) : ~ SameName(o, r)
    BY <1>0, <1>2 DEF Parse, Range
  <2>3. left = Meaning(ls) \cup {r}
    BY <2>2 DEF Meaning
  <2>. QED  BY <2>1, <2>3, AppendedRecord DEF Ok
<1>3. CASE hits # {}
  <2>1. Set(ls, r) = Ok(new)
    BY <1>3 DEF Set
  <2>2. hits \subseteq Nat
    BY <1>0
  <2>3. \E m \in hits : \A y \in hits : m <= y
    <3>. HIDE DEF hits
    <3>. QED  BY <1>3, <2>2, LeastOf
  <2>4. first \in hits /\ \A y \in hits : first <= y
    <3>. HIDE DEF hits
    <3>. QED  BY <2>3 DEF Min
  <2>. HIDE DEF first
  <2>5. first \in 1..Len(ls) /\ ls[first] \in Line /\ ls[first] \notin own
    BY <1>0, <2>4
  <2>6. /\ a \in Seq(Line) /\ b \in Seq(Line) /\ Len(a) = first - 1
        /\ \A i \in 1..(first - 1) : a[i] = ls[i]
        /\ ls = (a \o <<ls[first]>>) \o b
    BY <2>5, CutAt
  <2>7. Range(a) \subseteq own
    <3>1. \A i \in 1..(first - 1) : i \in 1..Len(ls) /\ ~ (first <= i)
      BY <1>0, <2>5
    <3>2. \A i \in 1..(first - 1) : ls[i] \in own
      BY <1>0, <2>4, <3>1
    <3>3. DOMAIN a = 1..(first - 1)
      BY <2>6
    <3>. QED  BY <2>6, <3>2, <3>3 DEF Range
  <2>. DEFINE lf == ls[first]
  <2>8. lf \in Line /\ <<x>> \in Seq(Line) /\ <<lf>> \in Seq(Line)
        /\ Range(<<x>>) = {x} /\ Range(<<lf>>) = {lf}
    BY <1>1, <2>5 DEF Range
  <2>. HIDE DEF a, b, lf, x
  <2>9. a \o <<lf>> \in Seq(Line) /\ Range(ls) = Range(a) \cup {lf} \cup Range(b)
    <3>1. a \o <<lf>> \in Seq(Line) /\ Range(a \o <<lf>>) = Range(a) \cup {lf}
      BY <1>4, <2>6, <2>8
    <3>2. Range((a \o <<lf>>) \o b) = Range(a \o <<lf>>) \cup Range(b)
      BY <1>4, <2>6, <3>1
    <3>. QED  BY <2>6, <3>1, <3>2 DEF lf
  <2>10. \A l \in Range(ls) : l \in others <=> l \in own
    BY <1>0
  <2>11. lf \in Range(ls) /\ lf \notin own /\ lf \in Line
         /\ (lf.clause \in {"local-data", "local-zone"}) /\ lf # Header
    <3>1. lf \notin own /\ lf \in Line
      BY <2>5, <2>8 DEF lf
    <3>2. Parsed(lf) # {}
      BY <3>1
    <3>. QED  BY <2>9, <3>1, <3>2, ParsedLine
  <2>. HIDE DEF others
  <2>12. k \in Seq(Line) /\ Range(k) = Range(b) \cap others
    BY <2>6, KeptRange
  <2>13. Kept(k, Quiet) = Kept(b, Quiet)
    <3>1. Kept(k, Quiet) = Kept(b, others \cap Quiet)
      BY <2>6, KeptTwice
    <3>2. Quiet \subseteq own
      BY DEF Quiet
    <3>3. \A i \in 1..Len(b) : b[i] \in others \cap Quiet <=> b[i] \in Quiet
      <4>1. \A i \in 1..Len(b) : b[i] \in Range(b)
        BY <2>6 DEF Range
      <4>. HIDE DEF own
      <4>. QED  BY <2>9, <2>10, <3>2, <4>1
    <3>4. Kept(b, others \cap Quiet) = Kept(b, Quiet)
      BY <2>6, <3>3, KeptSame
    <3>. QED  BY <3>1, <3>4
  <2>. HIDE DEF k
  <2>14. /\ a \o <<x>> \in Seq(Line) /\ Range(a \o <<x>>) = Range(a) \cup {x}
         /\ new \in Seq(Line) /\ Range(new) = Range(a) \cup {x} \cup Range(k)
    <3>1. a \o <<x>> \in Seq(Line) /\ Range(a \o <<x>>) = Range(a) \cup {x}
      BY <1>4, <2>6, <2>8
    <3>. QED  BY <1>4, <2>12, <3>1
  <2>15. Range(new) = (Range(ls) \cap own) \cup {x}
    <3>. HIDE DEF own, new
    <3>. QED  BY <2>7, <2>9, <2>10, <2>11, <2>12, <2>14
  <2>16. Kept(new, Quiet) = Kept(ls, Quiet)
    <3>1. Kept(<<x>>, Quiet) = Kept(<<lf>>, Quiet)
      <4>1. Parsed(x) # {} /\ Parsed(lf) # {}
        BY <1>1, <2>11
      <4>2. x \notin Quiet /\ lf \notin Quiet
        BY <4>1 DEF Quiet
      <4>3. Len(<<x>>) = Len(<<lf>>) /\ <<x>>[1] = x /\ <<lf>>[1] = lf
            /\ 1..Len(<<x>>) = {1}
        OBVIOUS
      <4>4. \A s, t \in Seq(Line) : (/\ Len(s) = 1 /\ Len(t) = 1
                                     /\ s[1] \notin Quiet /\ t[1] \notin Quiet)
                                   => Kept(s, Quiet) = Kept(t, Quiet)
        <5>1. SUFFICES ASSUME NEW s \in Seq(Line), NEW t \in Seq(Line),
                              Len(s) = 1, Len(t) = 1, s[1] \notin Quiet, t[1] \notin Quiet
                       PROVE  Kept(s, Quiet) = Kept(t, Quiet)
          OBVIOUS
        <5>2. \A i \in 1..Len(s) : s[i] \notin Quiet /\ t[i] \notin Quiet
          BY <5>1
        <5>. QED  BY <5>1, <5>2, KeptSame
      <4>. QED  BY <2>8, <4>2, <4>3, <4>4
    <3>2. Kept(a \o <<x>>, Quiet) = Kept(a, Quiet) \o Kept(<<x>>, Quiet)
      BY <1>4, <2>6, <2>8
    <3>3. Kept(a \o <<lf>>, Quiet) = Kept(a, Quiet) \o Kept(<<lf>>, Quiet)
      BY <1>4, <2>6, <2>8
    <3>4. Kept(new, Quiet) = Kept(a \o <<x>>, Quiet) \o Kept(k, Quiet)
      BY <1>4, <2>12, <2>14
    <3>5. Kept((a \o <<lf>>) \o b, Quiet) = Kept(a \o <<lf>>, Quiet) \o Kept(b, Quiet)
      BY <1>4, <2>6, <2>9
    <3>6. ls = (a \o <<lf>>) \o b
      BY <2>6 DEF lf
    <3>. QED  BY <2>13, <3>1, <3>2, <3>3, <3>4, <3>5, <3>6
  <2>17. Foreign(new) = Foreign(ls)
    BY <2>14, <2>16, ForeignIsQuiet
  <2>18. Header \in Range(ls) <=> Header \in Range(new)
    <3>1. Header \in own
      BY PlainLines
    <3>. HIDE DEF own, new
    <3>. QED  BY <1>1, <2>15, <3>1
  <2>19. SitInTheClause(ls) => SitInTheClause(new)
    <3>. SUFFICES ASSUME SitInTheClause(ls)
                  PROVE  SitInTheClause(new)
      OBVIOUS
    <3>1. SitInTheClause(a) /\ Header \in Range(a)
      BY <2>5, <2>11, SitsCut DEF a, lf
    <3>2. SitInTheClause(a \o <<x>>) /\ Header \in Range(a \o <<x>>)
      BY <2>6, <2>8, <2>14, <3>1, SitsConcat
    <3>. QED  BY <2>12, <2>14, <3>2, SitsConcat
  <2>. HIDE DEF new
  <2>20. Reshaped(ls, new)
    BY <2>14, <2>17, <2>18, <2>19, ForeignIsQuiet, SamePrefix DEF Reshaped
  <2>21. Parse(new) = {o \in Parse(ls) : ~ SameName(o, r)} \cup {r}
    <3>1. ASSUME NEW o \in Parse(ls), ~ SameName(o, r)
          PROVE  o \in Parse(new)
      <4>1. PICK l \in Range(ls) : o \in Parsed(l)
        BY DEF Parse
      <4>2. l \in own
        BY <1>0, <3>1, <4>1, ParsedLine
      <4>. QED  BY <2>15, <4>1, <4>2 DEF Parse
    <3>2. ASSUME NEW o \in Parse(new), o # r
          PROVE  o \in Parse(ls) /\ ~ SameName(o, r)
      <4>1. PICK l \in Range(new) : o \in Parsed(l)
        BY DEF Parse
      <4>2. l \in Range(ls) /\ l \in own
        BY <1>1, <2>15, <3>2, <4>1
      <4>. QED  BY <4>1, <4>2 DEF Parse
    <3>3. r \in Parse(new)
      BY <1>1, <2>15 DEF Parse
    <3>. QED  BY <3>1, <3>2, <3>3
  <2>22. Range(new) \cap PlainZone = Range(ls) \cap PlainZone
    <3>1. \A l \in Range(ls) \cap PlainZone : l \in own
      BY <1>0, ParsedLine
    <3>. HIDE DEF own
    <3>. QED  BY <1>1, <2>15, <3>1
  <2>23. \A o \in Parse(ls) : o \notin PlainZone
    BY MeaningParts, RecordsAreNoLines DEF PlainZone
  <2>24. Meaning(new) = left
    <3>. HIDE DEF own
    <3>. QED  BY <2>21, <2>22, <2>23 DEF Meaning
  <2>. QED  BY <2>1, <2>20, <2>24 DEF Ok
<1>. QED  BY <1>2, <1>3

LEMMA Headed ==
  ASSUME NEW ls \in Seq(Line)
  PROVE  /\ EnsureHeader(ls) \in Seq(Line)
         /\ Parse(EnsureHeader(ls)) = Parse(ls)
         /\ Meaning(EnsureHeader(ls)) = Meaning(ls)
         /\ Foreign(EnsureHeader(ls)) = Foreign(ls)
         /\ StandsAlone(ls) => SitInTheClause(EnsureHeader(ls))
<1>1. CASE Header \in Range(ls)
  BY <1>1 DEF EnsureHeader, StandsAlone
<1>2. CASE Header \notin Range(ls)
  <2>. DEFINE top == <<Header>>
              new == top \o ls
  <2>1. EnsureHeader(ls) = new
    BY <1>2 DEF EnsureHeader
  <2>2. top \in Seq(Line) /\ Range(top) = {Header}
    BY PlainLines DEF Range
  <2>3. SitInTheClause(top)
    BY DEF SitInTheClause, Header
  <2>. HIDE DEF top
  <2>4. new \in Seq(Line) /\ Range(new) = {Header} \cup Range(ls)
    BY <2>2, RangeOfConcat
  <2>5. Foreign(new) = Foreign(ls)
    <3>1. Kept(top, Quiet) \in Seq(Line) /\ Range(Kept(top, Quiet)) = Range(top) \cap Quiet
      BY <2>2, KeptRange
    <3>2. Kept(top, Quiet) = <<>>
      BY <2>2, <3>1, OnlyTheEmpty DEF Quiet
    <3>3. Kept(new, Quiet) = Kept(top, Quiet) \o Kept(ls, Quiet)
      BY <2>2, KeptConcat
    <3>4. Kept(ls, Quiet) \in Seq(Line)
      BY KeptRange
    <3>5. Kept(new, Quiet) = Kept(ls, Quiet)
      BY <3>2, <3>3, <3>4
    <3>. QED  BY <2>4, <3>5, ForeignIsQuiet
  <2>6. SitInTheClause(new)
    BY <2>2, <2>3, SitsConcat
  <2>. HIDE DEF new
  <2>7. Parse(new) = Parse(ls) /\ Meaning(new) = Meaning(ls)
    BY <2>4, PlainLines DEF Parse, Meaning
  <2>. QED  BY <2>1, <2>4, <2>5, <2>6, <2>7
<1>. QED  BY <1>1, <1>2

-----------------------------------------------------------------------------
(* The rows of a batch: the fold, row by row. *)

RowsFrom(g, ls, rows, n) ==
  g = [S \in SUBSET (1..n) |->
         IF S = {} THEN Ok(ls) ELSE AddRow(g[S \ {Max(S)}], rows[Max(S)])]

LEMMA RowsFromGrows ==
  ASSUME NEW ls, NEW rows, NEW n \in Nat, NEW g, RowsFrom(g, ls, rows, n)
  PROVE  \E h : RowsFrom(h, ls, rows, n + 1)
<1>. DEFINE h == [S \in SUBSET (1..n+1) |->
                    IF n + 1 \in S THEN AddRow(g[S \ {n + 1}], rows[n + 1]) ELSE g[S]]
            k == [S \in SUBSET (1..n+1) |->
                    IF S = {} THEN Ok(ls) ELSE AddRow(h[S \ {Max(S)}], rows[Max(S)])]
<1>1. ASSUME NEW S \in SUBSET (1..n+1)
      PROVE  h[S] = k[S]
  <2>1. CASE n + 1 \in S
    <3>1. Max(S) = n + 1
      BY <2>1, LastOfAll
    <3>2. S \ {n + 1} \in SUBSET (1..n+1) /\ n + 1 \notin S \ {n + 1}
      OBVIOUS
    <3>3. h[S \ {n + 1}] = g[S \ {n + 1}]
      BY <3>2
    <3>. QED  BY <2>1, <3>1, <3>3
  <2>2. CASE n + 1 \notin S
    <3>1. S \in SUBSET (1..n)
      BY <2>2
    <3>2. h[S] = g[S]
      BY <2>2
    <3>3. CASE S = {}
      BY <3>1, <3>2, <3>3 DEF RowsFrom
    <3>4. CASE S # {}
      <4>1. S \ {Max(S)} \in SUBSET (1..n+1) /\ n + 1 \notin S \ {Max(S)}
        BY <2>2
      <4>2. h[S \ {Max(S)}] = g[S \ {Max(S)}]
        BY <4>1
      <4>3. g[S] = AddRow(g[S \ {Max(S)}], rows[Max(S)])
        BY <3>1, <3>4 DEF RowsFrom
      <4>. QED  BY <3>2, <3>4, <4>2, <4>3
    <3>. QED  BY <3>3, <3>4
  <2>. QED  BY <2>1, <2>2
<1>2. h = k
  BY <1>1
<1>. HIDE DEF h
<1>3. RowsFrom(h, ls, rows, n + 1)
  BY <1>2 DEF RowsFrom
<1>. QED  BY <1>3

LEMMA RowsFromExists ==
  ASSUME NEW ls, NEW rows, NEW n \in Nat
  PROVE  \E g : RowsFrom(g, ls, rows, n)
<1>. DEFINE Good == {i \in 0..n : \E g : RowsFrom(g, ls, rows, i)}
<1>1. 0 \in Good
  <2>. DEFINE g == [S \in SUBSET (1..0) |-> Ok(ls)]
  <2>1. \A S \in SUBSET (1..0) : S = {}
    OBVIOUS
  <2>2. RowsFrom(g, ls, rows, 0)
    BY <2>1 DEF RowsFrom
  <2>. QED  BY <2>2
<1>2. ASSUME NEW i \in 0..n-1, i \in Good
      PROVE  i + 1 \in Good
  BY <1>2, RowsFromGrows
<1>. HIDE DEF Good
<1>3. n \in Good
  BY <1>1, <1>2, CountingUp
<1>. QED  BY <1>3 DEF Good

(* The answers row by row. *)
RowByRow(F, ls, rows, n) ==
  /\ F[0] = Ok(ls)
  /\ \A i \in 1..n : F[i] = AddRow(F[i - 1], rows[i])
  /\ AddRows(ls, rows) = F[n]

LEMMA RowSteps ==
  ASSUME NEW ls, NEW n \in Nat, NEW rows, DOMAIN rows = 1..n
  PROVE  \E F : RowByRow(F, ls, rows, n)
<1>. DEFINE g == CHOOSE g : RowsFrom(g, ls, rows, n)
            F == [i \in 0..n |-> g[1..i]]
<1>1. RowsFrom(g, ls, rows, n)
  BY RowsFromExists
<1>2. AddRows(ls, rows) = g[1..n]
  BY DEF AddRows, FoldLeft, MapThenFoldSet, RowsFrom
<1>. HIDE DEF g
<1>3. g[1..0] = Ok(ls)
  BY <1>1 DEF RowsFrom
<1>4. ASSUME NEW i \in 1..n
      PROVE  g[1..i] = AddRow(g[1..(i - 1)], rows[i])
  <2>0. i \in Nat /\ 1 <= i /\ i <= n
    OBVIOUS
  <2>4. i \in 1..i /\ \A x \in 1..i : x \in 1..n
    BY <2>0
  <2>1. 1..i \in SUBSET (1..n) /\ 1..i # {} /\ i \in 1..i /\ 1..i \in SUBSET (1..i)
    BY <2>4
  <2>2. Max(1..i) = i
    BY <2>0, <2>1, LastOfAll
  <2>3. (1..i) \ {i} = 1..(i - 1)
    OBVIOUS
  <2>. QED  BY <1>1, <2>1, <2>2, <2>3 DEF RowsFrom
<1>5. F[0] = Ok(ls) /\ AddRows(ls, rows) = F[n]
  BY <1>2, <1>3
<1>6. ASSUME NEW i \in 1..n
      PROVE  F[i] = AddRow(F[i - 1], rows[i])
  <2>1. i \in 0..n /\ i - 1 \in 0..n
    OBVIOUS
  <2>2. F[i] = g[1..i] /\ F[i - 1] = g[1..(i - 1)]
    BY <2>1
  <2>. QED  BY <1>4, <2>2
<1>. HIDE DEF F
<1>7. RowByRow(F, ls, rows, n)
  BY <1>5, <1>6 DEF RowByRow
<1>. QED  BY <1>7

-----------------------------------------------------------------------------
(* What each step of an operation answers. *)

LEMMA AddAnswers ==
  ASSUME NEW ls \in Seq(Line), NEW r \in Record
  PROVE  /\ Add(ls, r) = IF Sets!Holds(Meaning(ls), r) THEN Refused("duplicate")
                                                       ELSE Ok(Append(ls, BuildLine(r)))
         /\ AddRecord(ls, r) = IF Sets!TakenBy(Meaning(ls), r) THEN Refused("taken")
                                                               ELSE Add(ls, r)
<1>. DEFINE held == HasRecord(ls, r) \/ (IsPolicy(r) /\ DeclaresName(ls, r.name))
<1>1. held <=> Sets!Holds(Meaning(ls), r)
  BY HoldsMeans
<1>2. TakenBy(ls, r) <=> Sets!TakenBy(Meaning(ls), r)
  BY TakenMeans
<1>. QED  BY <1>1, <1>2 DEF Add, AddRecord

(* A record that was let in, and the zone it asks for. *)
LEMMA AppendedAndDeclared ==
  ASSUME NEW ls \in Seq(Line), NEW r \in Record
  PROVE  LET new == DeclareZone(Append(ls, BuildLine(r)), r) IN
           /\ Reshaped(ls, new)
           /\ Meaning(new) = Sets!DeclareZones(Meaning(ls) \cup {r}, {r})
<1>. DEFINE mid == Append(ls, BuildLine(r))
<1>1. Reshaped(ls, mid) /\ Meaning(mid) = Meaning(ls) \cup {r}
  BY AppendedRecord
<1>. HIDE DEF mid
<1>2. mid \in Seq(Line)
  BY <1>1 DEF Reshaped
<1>3. Reshaped(mid, DeclareZone(mid, r))
      /\ Meaning(DeclareZone(mid, r)) = Sets!DeclareZones(Meaning(mid), {r})
  BY <1>2, DeclaredZone, DeclareMeans
<1>4. Reshaped(ls, DeclareZone(mid, r))
  BY <1>1, <1>3, ReshapedTwice
<1>. QED  BY <1>1, <1>3, <1>4 DEF mid

LEMMA RowAnswers ==
  ASSUME NEW ls \in Seq(Line), NEW r \in Record, NEW res
  PROVE  /\ res.why # "ok" => AddRow(res, r) = res
         /\ res = Ok(ls) =>
              /\ AddRow(res, r).why = "ok"
                   <=> ~ Sets!TakenBy(Meaning(ls), r) /\ ~ Sets!Holds(Meaning(ls), r)
              /\ AddRow(res, r).why = "taken" => Sets!TakenBy(Meaning(ls), r)
              /\ AddRow(res, r).why = "ok" =>
                   \E new : /\ AddRow(res, r) = Ok(new) /\ Reshaped(ls, new)
                            /\ Meaning(new) = Sets!DeclareZones(Meaning(ls) \cup {r}, {r})
<1>1. res.why # "ok" => AddRow(res, r) = res
  BY DEF AddRow, Then
<1>2. ASSUME res = Ok(ls)
      PROVE  AddRow(res, r) = IF AddRecord(ls, r).why = "ok"
                                THEN Ok(DeclareZone(AddRecord(ls, r).lines, r))
                                ELSE AddRecord(ls, r)
  <2>1. res.why = "ok" /\ res.lines = ls
    BY <1>2 DEF Ok
  <2>. QED  BY <2>1 DEF AddRow, Then
<1>3. CASE Sets!TakenBy(Meaning(ls), r) \/ Sets!Holds(Meaning(ls), r)
  <2>1. AddRecord(ls, r).why # "ok"
        /\ (AddRecord(ls, r).why = "taken" => Sets!TakenBy(Meaning(ls), r))
    BY <1>3, AddAnswers DEF Refused
  <2>. QED  BY <1>1, <1>2, <1>3, <2>1
<1>4. CASE ~ (Sets!TakenBy(Meaning(ls), r) \/ Sets!Holds(Meaning(ls), r))
  <2>1. AddRecord(ls, r) = Ok(Append(ls, BuildLine(r)))
    BY <1>4, AddAnswers
  <2>. DEFINE new == DeclareZone(Append(ls, BuildLine(r)), r)
  <2>2. res = Ok(ls) => AddRow(res, r) = Ok(new)
    BY <1>2, <2>1 DEF Ok
  <2>3. Reshaped(ls, new) /\ Meaning(new) = Sets!DeclareZones(Meaning(ls) \cup {r}, {r})
    BY AppendedAndDeclared
  <2>. HIDE DEF new
  <2>. QED  BY <1>1, <1>4, <2>2, <2>3 DEF Ok
<1>. QED  BY <1>3, <1>4

-----------------------------------------------------------------------------
(* The zones a batch asks for. *)

Asked(R) ==
  {ZoneLine(ParentZone[r.name], "transparent") :
     r \in {x \in R \cap Data : ParentZone[x.name] # NoName}}

LEMMA AskedZones ==
  /\ \A R \in SUBSET Record : Asked(R) \subseteq PlainZone
  /\ \A y, z \in Asked(Record) : y.name = z.name => y = z
  /\ \A R, S \in SUBSET Record : Asked(R \cup S) = Asked(R) \cup Asked(S)
  /\ \A R, S \in SUBSET Record : R \subseteq S => Asked(R) \subseteq Asked(S)
  /\ \A r \in Block : Asked({r}) = {}
<1>1. ASSUME NEW R \in SUBSET Record, NEW z \in Asked(R)
      PROVE  z \in PlainZone
  <2>1. PICK r \in R \cap Data : ParentZone[r.name] # NoName
                                 /\ z = ZoneLine(ParentZone[r.name], "transparent")
    BY DEF Asked
  <2>2. ParentZone[r.name] \in Name
    BY <2>1, DnsFileAssumption DEF Data
  <2>. QED  BY <2>1, <2>2, PlainLines
<1>2. \A r \in Block : Asked({r}) = {}
  BY KeysApart DEF Asked
<1>. QED  BY <1>1, <1>2 DEF Asked, ZoneLine

LEMMA DeclaredSet ==
  ASSUME NEW X \in SUBSET (Record \cup PlainZone), NEW R \in SUBSET Record
  PROVE  Sets!DeclareZones(X, R)
           = X \cup {z \in Asked(R) : \A o \in X \cap (Block \cup PlainZone) : o.name # z.name}
<1>. DEFINE P == [r \in Data |-> IF ParentZone[r.name] = NoName THEN {}
                                 ELSE {ZoneLine(ParentZone[r.name], "transparent")}]
<1>1. R \ Block = R \cap Data
  BY KeysApart DEF Record
<1>2. UNION {P[r] : r \in R \ Block} = Asked(R)
  BY <1>1 DEF Asked
<1>3. ASSUME NEW z \in Asked(R)
      PROVE  Sets!Declaring(X, z) = {o \in X \cap (Block \cup PlainZone) : o.name = z.name}
  <2>1. z \in PlainZone
    BY AskedZones
  <2>. QED  BY <2>1 DEF Sets!Declaring
<1>. HIDE DEF P
<1>4. Sets!DeclareZones(X, R)
        = X \cup {z \in UNION {P[r] : r \in R \ Block} : Sets!Declaring(X, z) = {}}
  BY DEF Sets!DeclareZones, P
<1>. QED  BY <1>2, <1>3, <1>4

(* No row blocks the parent zone of another.                               *)
Clean(R) == \A b \in R \cap Block, z \in Asked(R) : Folded[b.name] # Folded[z.name]

LEMMA UncleanIsInconsistent ==
  ASSUME NEW R \in SUBSET Record, ~ Clean(R), NEW X, R \subseteq X
  PROVE  ~ Sets!Consistent(X)
<1>1. PICK b \in R \cap Block, z \in Asked(R) : Folded[b.name] = Folded[z.name]
  BY DEF Clean
<1>2. PICK r \in R \cap Data : ParentZone[r.name] # NoName
                               /\ z = ZoneLine(ParentZone[r.name], "transparent")
  BY DEF Asked
<1>3. r.name \in Name /\ z.name = ParentZone[r.name]
  BY <1>2 DEF Data, ZoneLine
<1>4. Folded[r.name] \in Within[Folded[b.name]]
  BY <1>1, <1>2, <1>3, DnsFileAssumption
<1>5. CoversName(b.name, r.name)
  BY <1>4 DEF CoversName
<1>. QED  BY <1>5 DEF Sets!Consistent

(* Declaring the zones row by row or for all rows is the same.             *)
LEMMA DeclaredTogether ==
  ASSUME NEW c \in SUBSET (Record \cup PlainZone), NEW R \in SUBSET Record,
         NEW r \in Record, Clean(R \cup {r})
  PROVE  Sets!DeclareZones(Sets!DeclareZones(c \cup R, R) \cup {r}, {r})
           = Sets!DeclareZones(c \cup (R \cup {r}), R \cup {r})
<1>. DEFINE Z == Block \cup PlainZone
            X == c \cup R
            Y == X \cup {z \in Asked(R) : \A o \in X \cap Z : o.name # z.name}
            W == Y \cup {r}
            V == X \cup {r}
<1>1. Sets!DeclareZones(X, R) = Y
  BY DeclaredSet
<1>2. Y \in SUBSET (Record \cup PlainZone)
  BY AskedZones
<1>3. Sets!DeclareZones(W, {r})
        = W \cup {z \in Asked({r}) : \A o \in W \cap Z : o.name # z.name}
  <2>1. W \in SUBSET (Record \cup PlainZone) /\ {r} \in SUBSET Record
    BY <1>2
  <2>. HIDE DEF W
  <2>. QED  BY <2>1, DeclaredSet
<1>4. Sets!DeclareZones(V, R \cup {r})
        = V \cup {z \in Asked(R \cup {r}) : \A o \in V \cap Z : o.name # z.name}
  <2>1. V \in SUBSET (Record \cup PlainZone) /\ R \cup {r} \in SUBSET Record
    OBVIOUS
  <2>. HIDE DEF V
  <2>. QED  BY <2>1, DeclaredSet
<1>5. Asked(R \cup {r}) = Asked(R) \cup Asked({r}) /\ Asked(R \cup {r}) \subseteq PlainZone
      /\ \A y, z \in Asked(R \cup {r}) : y.name = z.name => y = z
  <2>1. R \cup {r} \in SUBSET Record /\ {r} \in SUBSET Record /\ Record \in SUBSET Record
    OBVIOUS
  <2>2. Asked(R \cup {r}) \subseteq Asked(Record)
    BY <2>1, AskedZones
  <2>. QED  BY <2>1, <2>2, AskedZones
<1>6. W \cup {z \in Asked({r}) : \A o \in W \cap Z : o.name # z.name}
        = V \cup {z \in Asked(R \cup {r}) : \A o \in V \cap Z : o.name # z.name}
  <2>1. CASE r \in Block
    <3>1. Asked({r}) = {}
      BY <2>1, AskedZones
    <3>2. \A z \in Asked(R) : r.name # z.name
      BY <1>5, <2>1 DEF Clean
    <3>. QED  BY <1>5, <2>1, <3>1, <3>2
  <2>2. CASE r \in Data
    <3>1. r \notin Z
      BY <2>2, KeysApart
    <3>2. V \cap Z = X \cap Z /\ W \cap Z = Y \cap Z
      BY <3>1
    <3>3. Asked(R) \subseteq Z
      BY <1>5
    <3>4. ASSUME NEW z \in Asked({r})
          PROVE  (\A o \in Y \cap Z : o.name # z.name) \/ z \in Y
                   <=> (\A o \in X \cap Z : o.name # z.name) \/ z \in Y
      <4>. HIDE DEF X, Z
      <4>. QED  BY <1>5, <3>3
    <3>5. W = V \cup {z \in Asked(R) : \A o \in X \cap Z : o.name # z.name}
      OBVIOUS
    <3>. HIDE DEF X, Z
    <3>. QED  BY <1>5, <3>2, <3>4, <3>5
  <2>. QED  BY <2>1, <2>2 DEF Record
<1>7. V = c \cup (R \cup {r})
  OBVIOUS
<1>. QED  BY <1>1, <1>3, <1>4, <1>6, <1>7

-----------------------------------------------------------------------------
(* What RecordOps asks of a row, in the fields of its lines. *)
LEMMA SetJudges ==
  ASSUME NEW X \in SUBSET (Record \cup PlainZone), NEW r \in Record
  PROVE  /\ Sets!TakenBy(X, r)
              <=> r.type \in OneType /\ \E o \in X \cap Data : SameName(o, r) /\ o # r
         /\ Sets!Holds(X, r)
              <=> \/ r \in X
                  \/ /\ r \in Block
                     /\ \E o \in X \cap (Block \cup PlainZone) : Folded[o.name] = Folded[r.name]
<1>1. Sets!TakenBy(X, r)
        <=> r.type \in OneType /\ \E o \in X : LineKey(o) = LineKey(r) /\ o # r
  BY DEF Sets!TakenBy, Sets!SameName
<1>2. ASSUME r.type \in OneType
      PROVE  \A o \in X : LineKey(o) = LineKey(r) <=> o \in Data /\ SameName(o, r)
  <2>1. r \in Data
    BY <1>2, DnsFileAssumption DEF Record, Block, DataType
  <2>. QED  BY <2>1, KeysApart DEF SameName, Record
<1>3. ASSUME r \in Block
      PROVE  Sets!Opening(X, r)
               = {o \in X \cap (Block \cup PlainZone) : Folded[o.name] = Folded[r.name]}
  <2>1. \A o \in Block \cup PlainZone :
          LineKey(o) = LineKey(r) <=> Folded[o.name] = Folded[r.name]
    BY <1>3, KeysApart
  <2>. QED  BY <2>1 DEF Sets!Opening, Sets!SameName, Record
<1>4. Sets!Holds(X, r) <=> r \in X \/ (r \in Block /\ Sets!Opening(X, r) # {})
  BY DEF Sets!Holds
<1>. QED  BY <1>1, <1>2, <1>3, <1>4

(* A row that meets nothing: no value for its name, not itself, and for a  *)
(* block no line that opens its name, among the file's and the rows before.*)
Fresh(c, R, r) ==
  /\ ~ (r.type \in OneType /\ \E o \in c \cap Data : SameName(o, r) /\ o # r)
  /\ r \notin c
  /\ r \in Block => \A o \in (c \cup R) \cap (Block \cup PlainZone) :
                      Folded[o.name] # Folded[r.name]

LEMMA FreshRow ==
  ASSUME NEW c \in SUBSET (Record \cup PlainZone), NEW R \in SUBSET Record,
         NEW r \in Record \ R,
         \A q \in R : ~ (r.type \in OneType /\ SameName(q, r)),
         Clean(R \cup {r}),
         NEW M, c \subseteq M, M \cap Record = (c \cap Record) \cup R,
         M \subseteq c \cup R \cup Asked(R)
  PROVE  ~ Sets!TakenBy(M, r) /\ ~ Sets!Holds(M, r) <=> Fresh(c, R, r)
<1>1. Asked(R) \subseteq PlainZone /\ Asked(R) \subseteq Asked(R \cup {r})
  BY AskedZones
<1>2. M \in SUBSET (Record \cup PlainZone)
  BY <1>1
<1>3. M \cap Data = (c \cup R) \cap Data /\ Data \subseteq Record
  BY DEF Record
<1>4. r \in M <=> r \in c
  OBVIOUS
<1>5. ASSUME r \in Block
      PROVE  (\E o \in M \cap (Block \cup PlainZone) : Folded[o.name] = Folded[r.name])
               <=> \E o \in (c \cup R) \cap (Block \cup PlainZone) : Folded[o.name] = Folded[r.name]
  <2>1. \A z \in Asked(R) : Folded[z.name] # Folded[r.name]
    BY <1>1, <1>5 DEF Clean
  <2>2. R \subseteq M
    OBVIOUS
  <2>. QED  BY <2>1, <2>2
<1>6. (\E o \in M \cap Data : r.type \in OneType /\ SameName(o, r) /\ o # r)
        <=> (\E o \in c \cap Data : r.type \in OneType /\ SameName(o, r) /\ o # r)
  BY <1>3
<1>. QED  BY <1>2, <1>4, <1>5, <1>6, SetJudges DEF Fresh

(* The rows up to one of them. *)
Upto(rows, i) == {rows[j] : j \in 1..i}

LEMMA UptoNext ==
  ASSUME NEW n \in Nat, NEW rows \in [1..n -> Record]
  PROVE  /\ Upto(rows, 0) = {}
         /\ \A i \in 0..n-1 : /\ Upto(rows, i + 1) = Upto(rows, i) \cup {rows[i + 1]}
                              /\ rows[i + 1] \in Record
         /\ \A i \in 0..n : Upto(rows, i) \in SUBSET Record
                            /\ Upto(rows, i) \subseteq Upto(rows, n)
<1>1. Upto(rows, 0) = {}
  BY DEF Upto
<1>2. ASSUME NEW i \in 0..n-1
      PROVE  1..(i + 1) = (1..i) \cup {i + 1} /\ i + 1 \in 1..n
  OBVIOUS
<1>3. ASSUME NEW i \in 0..n
      PROVE  1..i \subseteq 1..n
  OBVIOUS
<1>. QED  BY <1>1, <1>2, <1>3 DEF Upto

LEMMA CleanBefore ==
  ASSUME NEW R \in SUBSET Record, NEW S \in SUBSET R, Clean(R)
  PROVE  Clean(S)
<1>1. Asked(S) \subseteq Asked(R)
  BY AskedZones
<1>. QED  BY <1>1 DEF Clean

(* What a file holds once a batch of rows is in.                           *)
Holding(c, R, M) ==
  /\ c \subseteq M
  /\ M \cap Record = (c \cap Record) \cup R
  /\ M \subseteq c \cup R \cup Asked(R)
  /\ Clean(R) => M = Sets!DeclareZones(c \cup R, R)

LEMMA HoldingNext ==
  ASSUME NEW c \in SUBSET (Record \cup PlainZone), NEW R \in SUBSET Record, NEW M,
         Holding(c, R, M), NEW r \in Record
  PROVE  Holding(c, R \cup {r}, Sets!DeclareZones(M \cup {r}, {r}))
<1>. DEFINE S == R \cup {r}
            N == Sets!DeclareZones(M \cup {r}, {r})
<1>1. Asked(R) \subseteq PlainZone /\ Asked({r}) \subseteq PlainZone
      /\ Asked(S) = Asked(R) \cup Asked({r})
  BY AskedZones
<1>2. M \cup {r} \in SUBSET (Record \cup PlainZone) /\ {r} \in SUBSET Record
  BY <1>1 DEF Holding
<1>3. N = (M \cup {r}) \cup {z \in Asked({r}) :
                               \A o \in (M \cup {r}) \cap (Block \cup PlainZone) : o.name # z.name}
  BY <1>2, DeclaredSet
<1>4. \A z \in PlainZone : z \notin Record
  BY KeysApart
<1>5. Clean(S) => Clean(R)
  BY CleanBefore
<1>6. Clean(S) => N = Sets!DeclareZones(c \cup S, S)
  <2>1. Clean(S) => M = Sets!DeclareZones(c \cup R, R)
    BY <1>5 DEF Holding
  <2>2. Clean(R \cup {r}) =>
          Sets!DeclareZones(Sets!DeclareZones(c \cup R, R) \cup {r}, {r})
            = Sets!DeclareZones(c \cup (R \cup {r}), R \cup {r})
    BY DeclaredTogether
  <2>. QED  BY <2>1, <2>2
<1>. HIDE DEF N
<1>7. c \subseteq N /\ N \subseteq c \cup S \cup Asked(S)
  BY <1>1, <1>3 DEF Holding
<1>8. N \cap Record = (M \cap Record) \cup {r}
  BY <1>1, <1>3, <1>4
<1>9. N \cap Record = (c \cap Record) \cup S
  BY <1>8 DEF Holding
<1>10. Holding(c, S, N)
  BY <1>6, <1>7, <1>9 DEF Holding
<1>. QED  BY <1>10 DEF N

HoldingNone == \A c \in SUBSET (Record \cup PlainZone) : Holding(c, {}, c)

LEMMA NoRowsYet == HoldingNone
<1>1. ASSUME NEW c \in SUBSET (Record \cup PlainZone)
      PROVE  Holding(c, {}, c)
  <2>1. Asked({}) = {}
    BY DEF Asked
  <2>2. Sets!DeclareZones(c \cup {}, {}) = (c \cup {}) \cup {z \in Asked({}) :
           \A o \in (c \cup {}) \cap (Block \cup PlainZone) : o.name # z.name}
    BY DeclaredSet
  <2>. QED  BY <2>1, <2>2 DEF Holding
<1>. QED  BY <1>1 DEF HoldingNone

Distinct(rows, n) ==
  \A i, j \in 1..n : i < j =>
    /\ rows[i] # rows[j]
    /\ ~ (rows[i].type \in OneType /\ SameName(rows[i], rows[j]))

(* Row by row: what the file holds so far, and which rows are let in.      *)
LEMMA RowsLeave ==
  ASSUME NEW ls \in Seq(Line), NEW n \in Nat, NEW rows \in [1..n -> Record],
         Distinct(rows, n)
  PROVE  LET res == AddRows(ls, rows)
             c == Meaning(ls)
         IN /\ res.why = "ok" =>
                 \E new : /\ res = Ok(new) /\ Reshaped(ls, new)
                          /\ Holding(c, Upto(rows, n), Meaning(new))
            /\ res.why = "taken" => \E r \in Upto(rows, n) : Sets!TakenBy(c, r)
            /\ Clean(Upto(rows, n)) =>
                 (res.why = "ok" <=> \A j \in 1..n : Fresh(c, Upto(rows, j - 1), rows[j]))
<1>. DEFINE c == Meaning(ls)
            R(i) == Upto(rows, i)
<1>0. c \in SUBSET (Record \cup PlainZone) /\ DOMAIN rows = 1..n
  BY MeaningParts
<1>1. PICK F : /\ F[0] = Ok(ls)
               /\ \A i \in 1..n : F[i] = AddRow(F[i - 1], rows[i])
               /\ AddRows(ls, rows) = F[n]
  BY <1>0, RowSteps DEF RowByRow
<1>. DEFINE Left(i) == F[i].why = "ok" =>
                         \E new : /\ F[i] = Ok(new) /\ Reshaped(ls, new)
                                  /\ Holding(c, R(i), Meaning(new))
            LetIn(i) == Clean(R(n)) =>
                          (F[i].why = "ok" <=> \A j \in 1..i : Fresh(c, R(j - 1), rows[j]))
            Turned(i) == F[i].why = "taken" => \E q \in R(i) : Sets!TakenBy(c, q)
            Good == {i \in 0..n : Left(i) /\ Turned(i) /\ LetIn(i)}
<1>2. 0 \in Good
  <2>1. R(0) = {}
    BY UptoNext
  <2>2. Left(0)
    <3>1. Holding(c, {}, c)
      BY <1>0, NoRowsYet DEF HoldingNone
    <3>. QED  BY <1>1, <2>1, <3>1, ReshapedSelf
  <2>3. LetIn(0)
    <3>1. 1..0 = {} /\ F[0].why = "ok"
      BY <1>1 DEF Ok
    <3>. QED  BY <3>1
  <2>4. Turned(0)
    BY <1>1 DEF Ok
  <2>. HIDE DEF Left, LetIn, Turned
  <2>. QED  BY <2>2, <2>3, <2>4
<1>3. ASSUME NEW i \in 0..n-1, Left(i), Turned(i), LetIn(i)
      PROVE  Left(i + 1) /\ Turned(i + 1) /\ LetIn(i + 1)
  <2>. DEFINE r == rows[i + 1]
  <2>1. /\ i + 1 \in 1..n /\ (i + 1) - 1 = i /\ i \in 0..n /\ i + 1 \in 0..n
        /\ 1..(i + 1) = (1..i) \cup {i + 1}
    OBVIOUS
  <2>2. /\ R(i + 1) = R(i) \cup {r} /\ r \in Record /\ R(i) \in SUBSET Record
        /\ R(i + 1) \subseteq R(n) /\ R(n) \in SUBSET Record
    BY <2>1, UptoNext
  <2>3. F[i + 1] = AddRow(F[i], r)
    BY <1>1, <2>1
  <2>4. \A q \in R(i) : q # r /\ ~ (r.type \in OneType /\ SameName(q, r))
    <3>1. ASSUME NEW j \in 1..i
          PROVE  rows[j] # r /\ ~ (r.type \in OneType /\ SameName(rows[j], r))
      <4>1. j \in 1..n /\ j < i + 1
        OBVIOUS
      <4>2. rows[j] # r /\ ~ (rows[j].type \in OneType /\ SameName(rows[j], r))
        BY <2>1, <4>1 DEF Distinct
      <4>. QED  BY <4>2 DEF SameName
    <3>. QED  BY <3>1 DEF Upto
  <2>5. CASE F[i].why # "ok"
    <3>1. F[i + 1] = F[i]
      BY <2>2, <2>3, <2>5, RowAnswers
    <3>2. Left(i + 1)
      BY <2>5, <3>1
    <3>3. LetIn(i + 1)
      BY <1>3, <2>1, <2>5, <3>1
    <3>4. Turned(i + 1)
      <4>. HIDE DEF R
      <4>. QED  BY <1>3, <2>2, <3>1
    <3>. QED  BY <3>2, <3>3, <3>4
  <2>6. CASE F[i].why = "ok"
    <3>1. PICK cur : F[i] = Ok(cur) /\ Reshaped(ls, cur) /\ Holding(c, R(i), Meaning(cur))
      BY <1>3, <2>6
    <3>2. cur \in Seq(Line)
      BY <3>1 DEF Reshaped
    <3>. HIDE DEF r, R, c
    <3>3. /\ F[i + 1].why = "ok"
               <=> ~ Sets!TakenBy(Meaning(cur), r) /\ ~ Sets!Holds(Meaning(cur), r)
          /\ F[i + 1].why = "taken" => Sets!TakenBy(Meaning(cur), r)
          /\ F[i + 1].why = "ok" =>
               \E new : /\ F[i + 1] = Ok(new) /\ Reshaped(cur, new)
                        /\ Meaning(new) = Sets!DeclareZones(Meaning(cur) \cup {r}, {r})
      <4>1. \A q \in Seq(Line), s \in Record :
              /\ AddRow(Ok(q), s).why = "ok"
                   <=> ~ Sets!TakenBy(Meaning(q), s) /\ ~ Sets!Holds(Meaning(q), s)
              /\ AddRow(Ok(q), s).why = "taken" => Sets!TakenBy(Meaning(q), s)
              /\ AddRow(Ok(q), s).why = "ok" =>
                   \E new : /\ AddRow(Ok(q), s) = Ok(new) /\ Reshaped(q, new)
                            /\ Meaning(new) = Sets!DeclareZones(Meaning(q) \cup {s}, {s})
        BY RowAnswers
      <4>2. F[i + 1] = AddRow(Ok(cur), r)
        BY <2>3, <3>1
      <4>. QED  BY <2>2, <3>2, <4>1, <4>2
    <3>4. ASSUME F[i + 1].why = "ok"
          PROVE  \E new : /\ F[i + 1] = Ok(new) /\ Reshaped(ls, new)
                          /\ Holding(c, R(i + 1), Meaning(new))
      <4>1. PICK new : /\ F[i + 1] = Ok(new) /\ Reshaped(cur, new)
                       /\ Meaning(new) = Sets!DeclareZones(Meaning(cur) \cup {r}, {r})
        BY <3>3, <3>4
      <4>2. Reshaped(ls, new)
        BY <3>1, <3>2, <4>1, ReshapedTwice
      <4>3. Holding(c, R(i) \cup {r}, Meaning(new))
        BY <1>0, <2>2, <3>1, <4>1, HoldingNext
      <4>. QED  BY <2>2, <4>1, <4>2, <4>3
    <3>5. ASSUME Clean(R(n))
          PROVE  F[i + 1].why = "ok" <=> Fresh(c, R(i), r)
      <4>1. Clean(R(i) \cup {r})
        BY <2>2, <3>5, CleanBefore
      <4>2. r \in Record \ R(i) /\ \A q \in R(i) : ~ (r.type \in OneType /\ SameName(q, r))
        BY <2>2, <2>4
      <4>3. c \subseteq Meaning(cur) /\ Meaning(cur) \cap Record = (c \cap Record) \cup R(i)
            /\ Meaning(cur) \subseteq c \cup R(i) \cup Asked(R(i))
        BY <3>1 DEF Holding
      <4>4. ~ Sets!TakenBy(Meaning(cur), r) /\ ~ Sets!Holds(Meaning(cur), r)
              <=> Fresh(c, R(i), r)
        BY <1>0, <2>2, <4>1, <4>2, <4>3, FreshRow
      <4>. QED  BY <3>3, <4>4
    <3>6. ASSUME Clean(R(n))
          PROVE  F[i + 1].why = "ok" <=> \A j \in 1..(i + 1) : Fresh(c, R(j - 1), rows[j])
      <4>1. \A j \in 1..i : Fresh(c, R(j - 1), rows[j])
        BY <1>3, <2>6, <3>6
      <4>2. F[i + 1].why = "ok" <=> Fresh(c, R((i + 1) - 1), rows[i + 1])
        BY <2>1, <3>5, <3>6 DEF r
      <4>. QED  BY <2>1, <4>1, <4>2
    <3>7. ASSUME F[i + 1].why = "taken"
          PROVE  Sets!TakenBy(c, r)
      <4>1. Sets!TakenBy(Meaning(cur), r)
        BY <3>3, <3>7
      <4>2. Meaning(cur) \in SUBSET (Record \cup PlainZone)
        BY <3>2, MeaningParts
      <4>3. PICK q \in Meaning(cur) \cap Data : SameName(q, r) /\ q # r
        BY <2>2, <4>1, <4>2, SetJudges
      <4>4. r.type \in OneType
        BY <2>2, <4>1, <4>2, SetJudges
      <4>5. q \in (c \cap Record) \cup R(i)
        BY <3>1, <4>3 DEF Holding, Record
      <4>6. q \in c \cap Data
        BY <2>4, <4>3, <4>4, <4>5
      <4>. QED  BY <1>0, <2>2, <4>3, <4>4, <4>6, SetJudges
    <3>8. Turned(i + 1)
      BY <2>2, <3>7
    <3>. QED  BY <3>4, <3>6, <3>8
  <2>. QED  BY <2>5, <2>6
<1>4. n \in Good
  <2>1. \A i \in 0..n-1 : i \in Good => i + 1 \in Good
    <3>1. \A i \in 0..n-1 : i + 1 \in 0..n
      OBVIOUS
    <3>. HIDE DEF Left, LetIn, Turned
    <3>. QED  BY <1>3, <3>1
  <2>. HIDE DEF Good
  <2>2. 0..n \subseteq Good
    BY <1>2, <2>1, CountingUp
  <2>. QED  BY <2>2
<1>. QED  BY <1>1, <1>4

-----------------------------------------------------------------------------
(* The answers of an operation. *)

(* Lines that mean M were checked before they are handed back.             *)
Ends(ls, res, M) ==
  /\ res.why = "ok" <=> Sets!Consistent(M)
  /\ res.why \in {"ok", "invalid"}
  /\ res.why = "ok" => /\ Reshaped(ls, res.lines) /\ Meaning(res.lines) = M
                       /\ CheckConsistency(res.lines)

LEMMA CheckedAnswers ==
  ASSUME NEW ls \in Seq(Line), NEW new, Reshaped(ls, new)
  PROVE  Ends(ls, Checked(new), Meaning(new))
<1>1. new \in Seq(Line)
  BY DEF Reshaped
<1>2. CheckConsistency(new) <=> Sets!Consistent(Meaning(new))
  BY <1>1, ConsistentMeans
<1>3. Checked(new) = IF CheckConsistency(new) THEN Ok(new) ELSE Refused("invalid")
  BY DEF Checked
<1>. QED  BY <1>2, <1>3 DEF Ok, Refused, Ends

(* The same, with the parent zone of the record declared first.            *)
LEMMA DeclaredAnswers ==
  ASSUME NEW ls \in Seq(Line), NEW mid, Reshaped(ls, mid), NEW r \in Record
  PROVE  Ends(ls, Checked(DeclareZone(mid, r)), Sets!DeclareZones(Meaning(mid), {r}))
<1>. DEFINE new == DeclareZone(mid, r)
<1>1. mid \in Seq(Line)
  BY DEF Reshaped
<1>2. new \in Seq(Line) /\ Meaning(new) = Sets!DeclareZones(Meaning(mid), {r})
      /\ Reshaped(mid, new)
  BY <1>1, DeclareMeans, DeclaredZone
<1>3. Reshaped(ls, new)
  BY <1>2, ReshapedTwice
<1>. HIDE DEF new
<1>4. Ends(ls, Checked(new), Meaning(new))
  BY <1>3, CheckedAnswers
<1>. QED  BY <1>2, <1>4 DEF new

LEMMA FinishAnswers ==
  /\ \A ls, r : Finish(Ok(ls), r) = Checked(DeclareZone(ls, r))
  /\ \A r : /\ Finish(Refused("taken"), r) = Refused("taken")
            /\ Finish(Refused("duplicate"), r) = Refused("duplicate")
            /\ Finish(Refused("notfound"), r) = Refused("notfound")
BY DEF Finish, Then, Ok, Refused

LEMMA ResultOf ==
  ASSUME NEW o, NEW ls
  PROVE  /\ o.kind = "add"      => Result(o, ls) = Finish(AddRecord(ls, o.record), o.record)
         /\ o.kind = "copy"     => Result(o, ls) = Finish(Add(ls, o.record), o.record)
         /\ o.kind = "set"      => Result(o, ls) = Finish(Set(ls, o.record), o.record)
         /\ o.kind = "add_many" => Result(o, ls) = Then(AddRows(ls, o.records), Checked)
         /\ o.kind = "edit"     => Result(o, ls) = EditRecord(ls, o.old, o.record)
         /\ o.kind = "delete"   => Result(o, ls) = Delete(ls, o.record)
BY DEF Result

LEMMA MeaningOf ==
  ASSUME NEW o, NEW c
  PROVE  /\ o.kind \in {"add", "copy"} =>
              Sets!After(o, c) = Sets!DeclareZones(c \cup {o.record}, {o.record})
         /\ o.kind = "add_many" =>
              Sets!After(o, c) = Sets!DeclareZones(c \cup o.records, o.records)
         /\ o.kind = "set" =>
              Sets!After(o, c) = Sets!DeclareZones(
                {l \in c : ~ Sets!SameName(l, o.record)} \cup {o.record}, {o.record})
         /\ o.kind = "edit" =>
              Sets!After(o, c) = Sets!DeclareZones((c \ {o.old}) \cup {o.record}, {o.record})
         /\ o.kind = "delete" => Sets!After(o, c) = c \ {o.record}
BY DEF Sets!After

(* An operation does what RecordOps says, and leaves the rest alone.       *)
Faithful(o, ls) ==
  LET res == Result(o, ls)
      set == Meaning(ls)
  IN /\ res.why = "ok" <=> Sets!Allowed(Meant(o), set)
     /\ res.why = "ok" =>
          /\ Meaning(res.lines) = Sets!After(Meant(o), set)
          /\ Reshaped(ls, res.lines)
          /\ o.kind = "delete" \/ CheckConsistency(res.lines)
     /\ o.kind = "add" => (res.why = "duplicate" <=> Sets!AlreadyInPlace(o, set))

LEMMA FaithfulAdd ==
  ASSUME NEW ls \in Seq(Line), NEW o, o.kind = "add", o.record \in Record
  PROVE  Faithful(o, ls)
<1>. DEFINE c == Meaning(ls)
            r == o.record
            mid == Append(ls, BuildLine(r))
            M == Sets!DeclareZones(c \cup {r}, {r})
<1>1. Meant(o) = o /\ Sets!After(o, c) = M
  BY MeaningOf DEF Meant
<1>2. Sets!Allowed(o, c)
        <=> ~ Sets!TakenBy(c, r) /\ ~ Sets!Holds(c, r) /\ Sets!Consistent(M)
  BY <1>1 DEF Sets!Allowed, Sets!AllowsAdd, Sets!AllowsCopy, Sets!AllowsSet,
              Sets!AllowsBatch, Sets!AllowsEdit, Sets!AllowsDelete
<1>3. Sets!AlreadyInPlace(o, c) <=> ~ Sets!TakenBy(c, r) /\ Sets!Holds(c, r)
  BY DEF Sets!AlreadyInPlace
<1>4. Result(o, ls) = Finish(AddRecord(ls, r), r)
  BY ResultOf
<1>5. Reshaped(ls, mid) /\ Meaning(mid) = c \cup {r}
  BY AppendedRecord
<1>6. CASE Sets!TakenBy(c, r)
  <2>1. Result(o, ls) = Refused("taken")
    BY <1>4, <1>6, AddAnswers, FinishAnswers
  <2>. QED  BY <1>1, <1>2, <1>3, <1>6, <2>1 DEF Faithful, Refused
<1>7. CASE ~ Sets!TakenBy(c, r) /\ Sets!Holds(c, r)
  <2>1. Result(o, ls) = Refused("duplicate")
    BY <1>4, <1>7, AddAnswers, FinishAnswers
  <2>. QED  BY <1>1, <1>2, <1>3, <1>7, <2>1 DEF Faithful, Refused
<1>8. CASE ~ Sets!TakenBy(c, r) /\ ~ Sets!Holds(c, r)
  <2>1. Result(o, ls) = Checked(DeclareZone(mid, r))
    BY <1>4, <1>8, AddAnswers, FinishAnswers
  <2>. HIDE DEF mid, r, c
  <2>2. Ends(ls, Checked(DeclareZone(mid, r)), Sets!DeclareZones(Meaning(mid), {r}))
    BY <1>5, DeclaredAnswers DEF r
  <2>3. Ends(ls, Result(o, ls), M)
    BY <1>5, <2>1, <2>2
  <2>. HIDE DEF M
  <2>. QED  BY <1>1, <1>2, <1>3, <1>8, <2>3 DEF Faithful, Ends, c
<1>. QED  BY <1>6, <1>7, <1>8

LEMMA FaithfulCopy ==
  ASSUME NEW ls \in Seq(Line), NEW o, o.kind = "copy", o.record \in Record
  PROVE  Faithful(o, ls)
<1>. DEFINE c == Meaning(ls)
            r == o.record
            mid == Append(ls, BuildLine(r))
            M == Sets!DeclareZones(c \cup {r}, {r})
<1>1. Meant(o) = o /\ Sets!After(o, c) = M
  BY MeaningOf DEF Meant
<1>2. Sets!Allowed(o, c) <=> ~ Sets!Holds(c, r) /\ Sets!Consistent(M)
  BY <1>1 DEF Sets!Allowed, Sets!AllowsAdd, Sets!AllowsCopy, Sets!AllowsSet,
              Sets!AllowsBatch, Sets!AllowsEdit, Sets!AllowsDelete
<1>3. Result(o, ls) = Finish(Add(ls, r), r)
  BY ResultOf
<1>4. Reshaped(ls, mid) /\ Meaning(mid) = c \cup {r}
  BY AppendedRecord
<1>5. CASE Sets!Holds(c, r)
  <2>1. Result(o, ls) = Refused("duplicate")
    BY <1>3, <1>5, AddAnswers, FinishAnswers
  <2>. QED  BY <1>1, <1>2, <1>5, <2>1 DEF Faithful, Refused
<1>6. CASE ~ Sets!Holds(c, r)
  <2>1. Result(o, ls) = Checked(DeclareZone(mid, r))
    BY <1>3, <1>6, AddAnswers, FinishAnswers
  <2>. HIDE DEF mid, r, c
  <2>2. Ends(ls, Checked(DeclareZone(mid, r)), Sets!DeclareZones(Meaning(mid), {r}))
    BY <1>4, DeclaredAnswers DEF r
  <2>3. Ends(ls, Result(o, ls), M)
    BY <1>4, <2>1, <2>2
  <2>. HIDE DEF M
  <2>. QED  BY <1>1, <1>2, <1>6, <2>3 DEF Faithful, Ends, c
<1>. QED  BY <1>5, <1>6

(* For a type of one value, the lines of the name are its data lines.      *)
LEMMA SameKeys ==
  ASSUME NEW c \in SUBSET (Record \cup PlainZone), NEW r \in Record, r.type \in OneType
  PROVE  {l \in c : ~ Sets!SameName(l, r)} = {o \in c : o \in PlainZone \/ ~ SameName(o, r)}
<1>1. r \in Data
  BY DnsFileAssumption DEF Record, Block, DataType
<1>2. \A l \in c : Sets!SameName(l, r) <=> LineKey(l) = LineKey(r)
  BY DEF Sets!SameName
<1>3. ASSUME NEW l \in c
      PROVE  LineKey(l) = LineKey(r) <=> l \notin PlainZone /\ SameName(l, r)
  <2>1. CASE l \in Data
    BY <1>1, <2>1, KeysApart DEF SameName
  <2>2. CASE l \in PlainZone
    BY <1>1, <2>2, KeysApart
  <2>3. CASE l \in Block
    <3>1. LineKey(l) # LineKey(r)
      BY <1>1, <2>3, KeysApart
    <3>2. l.type # r.type
      BY <1>1, <2>3, DnsFileAssumption DEF Data, Block
    <3>. QED  BY <3>1, <3>2 DEF SameName
  <2>. QED  BY <2>1, <2>2, <2>3 DEF Record
<1>. QED  BY <1>2, <1>3

LEMMA FaithfulSet ==
  ASSUME NEW ls \in Seq(Line), NEW o, o.kind = "set", o.record \in Record,
         o.record.type \in OneType
  PROVE  Faithful(o, ls)
<1>. DEFINE c == Meaning(ls)
            r == o.record
            rest == {l \in c : ~ Sets!SameName(l, r)} \cup {r}
            M == Sets!DeclareZones(rest, {r})
            mid == Set(ls, r).lines
<1>1. Meant(o) = o /\ Sets!After(o, c) = M
  BY MeaningOf DEF Meant
<1>2. Sets!Allowed(o, c) <=> Sets!Consistent(M)
  BY <1>1 DEF Sets!Allowed, Sets!AllowsAdd, Sets!AllowsCopy, Sets!AllowsSet,
              Sets!AllowsBatch, Sets!AllowsEdit, Sets!AllowsDelete
<1>3. c \in SUBSET (Record \cup PlainZone)
  BY MeaningParts
<1>4. Set(ls, r).why = "ok" /\ Reshaped(ls, mid) /\ Meaning(mid) = rest
  BY <1>3, SetLines, SameKeys
<1>5. Result(o, ls) = Checked(DeclareZone(mid, r))
  <2>1. Result(o, ls) = Finish(Set(ls, r), r)
    BY ResultOf
  <2>. QED  BY <1>4, <2>1 DEF Finish, Then
<1>. HIDE DEF mid, r, c, rest
<1>6. Ends(ls, Checked(DeclareZone(mid, r)), Sets!DeclareZones(Meaning(mid), {r}))
  BY <1>4, DeclaredAnswers DEF r
<1>7. Ends(ls, Result(o, ls), M)
  BY <1>4, <1>5, <1>6
<1>. HIDE DEF M
<1>. QED  BY <1>1, <1>2, <1>7 DEF Faithful, Ends, c

LEMMA FaithfulEdit ==
  ASSUME NEW ls \in Seq(Line), NEW o, o.kind = "edit", o.old \in Record, o.record \in Record
  PROVE  Faithful(o, ls)
<1>. DEFINE c == Meaning(ls)
            r == o.record
            rest == (c \ {o.old}) \cup {r}
            M == Sets!DeclareZones(rest, {r})
            mid == Edit(ls, o.old, r).lines
<1>1. Meant(o) = o /\ Sets!After(o, c) = M
  BY MeaningOf DEF Meant
<1>2. Sets!Allowed(o, c) <=> o.old \in c /\ ~ Sets!TakenBy(rest, r) /\ Sets!Consistent(M)
  BY <1>1 DEF Sets!Allowed, Sets!AllowsAdd, Sets!AllowsCopy, Sets!AllowsSet,
              Sets!AllowsBatch, Sets!AllowsEdit, Sets!AllowsDelete
<1>3. Result(o, ls) = EditRecord(ls, o.old, r)
  BY ResultOf
<1>4. HasRecord(ls, o.old) <=> o.old \in c
  BY HoldsMeans
<1>5. CASE o.old \notin c
  <2>1. Result(o, ls) = Refused("notfound")
    BY <1>3, <1>4, <1>5 DEF EditRecord, Edit, Then, Refused
  <2>. QED  BY <1>1, <1>2, <1>5, <2>1 DEF Faithful, Refused
<1>6. CASE o.old \in c
  <2>1. Edit(ls, o.old, r).why = "ok" /\ Reshaped(ls, mid) /\ Meaning(mid) = rest
    BY <1>4, <1>6, EditedLines
  <2>2. Result(o, ls) = IF TakenBy(mid, r) THEN Refused("taken")
                                           ELSE Checked(DeclareZone(mid, r))
    BY <1>3, <2>1 DEF EditRecord, Then
  <2>. HIDE DEF mid, r, c, rest
  <2>3. TakenBy(mid, r) <=> Sets!TakenBy(rest, r)
    <3>1. mid \in Seq(Line)
      BY <2>1 DEF Reshaped
    <3>2. TakenBy(mid, r) <=> Sets!TakenBy(Meaning(mid), r)
      BY <3>1, TakenMeans DEF r
    <3>. QED  BY <2>1, <3>2
  <2>4. CASE Sets!TakenBy(rest, r)
    <3>. HIDE DEF M
    <3>. QED  BY <1>1, <1>2, <2>2, <2>3, <2>4 DEF Faithful, Refused, c
  <2>5. CASE ~ Sets!TakenBy(rest, r)
    <3>1. Ends(ls, Checked(DeclareZone(mid, r)), Sets!DeclareZones(Meaning(mid), {r}))
      BY <2>1, DeclaredAnswers DEF r
    <3>2. Ends(ls, Result(o, ls), M)
      BY <2>1, <2>2, <2>3, <2>5, <3>1
    <3>. HIDE DEF M
    <3>. QED  BY <1>1, <1>2, <1>6, <2>5, <3>2 DEF Faithful, Ends, c
  <2>. QED  BY <2>4, <2>5
<1>. QED  BY <1>5, <1>6

LEMMA FaithfulDelete ==
  ASSUME NEW ls \in Seq(Line), NEW o, o.kind = "delete", o.record \in Record
  PROVE  Faithful(o, ls)
<1>. DEFINE c == Meaning(ls)
            r == o.record
            M == c \ {r}
<1>1. Meant(o) = o /\ Sets!After(o, c) = M
  BY MeaningOf DEF Meant
<1>2. Sets!Allowed(o, c) <=> r \in c
  BY <1>1 DEF Sets!Allowed, Sets!AllowsAdd, Sets!AllowsCopy, Sets!AllowsSet,
              Sets!AllowsBatch, Sets!AllowsEdit, Sets!AllowsDelete
<1>3. Result(o, ls) = Delete(ls, r)
  BY ResultOf
<1>4. HasRecord(ls, r) <=> r \in c
  BY HoldsMeans
<1>5. Delete(ls, r).why = "ok" <=> HasRecord(ls, r)
  BY DEF Delete, Ok, Refused
<1>6. Delete(ls, r).why = "ok" =>
        Reshaped(ls, Delete(ls, r).lines) /\ Meaning(Delete(ls, r).lines) = M
  BY DeletedLines
<1>. HIDE DEF M
<1>. QED  BY <1>1, <1>2, <1>3, <1>4, <1>5, <1>6 DEF Faithful

LEMMA BatchRows ==
  ASSUME NEW rows \in Batches
  PROVE  \E n \in Nat : /\ n >= 1 /\ rows \in [1..n -> Record] /\ Len(rows) = n
                        /\ Distinct(rows, n) /\ Range(rows) = Upto(rows, n)
<1>1. PICK n \in 1..MaxRows : rows \in [1..n -> Record]
  BY DEF Batches
<1>2. n \in Nat /\ n >= 1 /\ DOMAIN rows = 1..n
  BY <1>1, DnsFileAssumption
<1>3. Len(rows) = n
  <2>1. rows \in Seq(Record)
    BY <1>1, <1>2
  <2>. QED  BY <1>2, <2>1
<1>4. Distinct(rows, n)
  BY <1>2 DEF Batches, Distinct
<1>5. Range(rows) = Upto(rows, n)
  BY <1>2 DEF Range, Upto
<1>. QED  BY <1>1, <1>2, <1>3, <1>4, <1>5

(* Rows judged one after the other, or each against all the others.        *)
LEMMA EachAgainstAll ==
  ASSUME NEW c \in SUBSET (Record \cup PlainZone), NEW n \in Nat,
         NEW rows \in [1..n -> Record], Distinct(rows, n)
  PROVE  LET R == Upto(rows, n) IN
           (\A j \in 1..n : Fresh(c, Upto(rows, j - 1), rows[j]))
             <=> /\ R \cap c = {}
                 /\ \A r \in R : ~ Sets!TakenBy(c, r) /\ ~ Sets!Holds((c \cup R) \ {r}, r)
<1>. DEFINE R == Upto(rows, n)
            X(r) == (c \cup R) \ {r}
            Z == Block \cup PlainZone
<1>1. R \in SUBSET Record /\ R = {rows[j] : j \in 1..n}
  BY DEF Upto
<1>2. ASSUME NEW r \in R
      PROVE  /\ Sets!TakenBy(c, r)
                  <=> r.type \in OneType /\ \E o \in c \cap Data : SameName(o, r) /\ o # r
             /\ Sets!Holds(X(r), r)
                  <=> r \in Block /\ \E o \in X(r) \cap Z : Folded[o.name] = Folded[r.name]
  <2>1. X(r) \in SUBSET (Record \cup PlainZone) /\ r \in Record /\ r \notin X(r)
    BY <1>1
  <2>. HIDE DEF R, X
  <2>. QED  BY <2>1, SetJudges
<1>3. \A i, j \in 1..n : i # j => rows[i] # rows[j]
  BY DEF Distinct
<1>4. ASSUME \A j \in 1..n : Fresh(c, Upto(rows, j - 1), rows[j])
      PROVE  R \cap c = {} /\ \A r \in R : ~ Sets!TakenBy(c, r) /\ ~ Sets!Holds(X(r), r)
  <2>1. \A j \in 1..n : rows[j] \notin c /\ ~ Sets!TakenBy(c, rows[j])
    <3>1. \A j \in 1..n : rows[j] \in R
      BY <1>1
    <3>. QED  BY <1>2, <1>4, <3>1 DEF Fresh
  <2>2. ASSUME NEW j \in 1..n, rows[j] \in Block, NEW o \in X(rows[j]) \cap Z
        PROVE  Folded[o.name] # Folded[rows[j].name]
    <3>1. \A p \in (c \cup Upto(rows, j - 1)) \cap Z : Folded[p.name] # Folded[rows[j].name]
      BY <1>4, <2>2 DEF Fresh
    <3>2. CASE o \in c
      BY <2>2, <3>1, <3>2
    <3>3. CASE o \notin c
      <4>1. PICK k \in 1..n : o = rows[k] /\ k # j
        BY <1>1, <2>2, <3>3
      <4>2. CASE k < j
        <5>1. k \in 1..(j - 1)
          BY <4>2
        <5>. QED  BY <2>2, <3>1, <4>1, <5>1 DEF Upto
      <4>3. CASE k > j
        <5>1. j \in 1..(k - 1)
          BY <4>3
        <5>2. rows[j] \in Upto(rows, k - 1)
          BY <5>1 DEF Upto
        <5>3. rows[k] \in Block
          <6>1. rows[k] \in Record
            OBVIOUS
          <6>. QED  BY <1>1, <2>2, <4>1, <6>1, KeysApart DEF Record
        <5>4. Folded[rows[j].name] # Folded[rows[k].name]
          BY <1>4, <2>2, <5>2, <5>3 DEF Fresh
        <5>. QED  BY <4>1, <5>4
      <4>. QED  BY <4>1, <4>2, <4>3
    <3>. QED  BY <3>2, <3>3
  <2>3. \A j \in 1..n : ~ Sets!Holds(X(rows[j]), rows[j])
    <3>1. \A j \in 1..n : rows[j] \in R
      BY <1>1
    <3>. HIDE DEF X, Z, R
    <3>. QED  BY <1>2, <2>2, <3>1
  <2>. HIDE DEF X
  <2>. QED  BY <1>1, <2>1, <2>3
<1>5. ASSUME R \cap c = {}, \A r \in R : ~ Sets!TakenBy(c, r) /\ ~ Sets!Holds(X(r), r),
             NEW j \in 1..n
      PROVE  Fresh(c, Upto(rows, j - 1), rows[j])
  <2>1. rows[j] \in R /\ rows[j] \notin c
    BY <1>1, <1>5
  <2>2. Upto(rows, j - 1) \subseteq X(rows[j])
    <3>1. \A k \in 1..(j - 1) : k \in 1..n /\ k # j
      OBVIOUS
    <3>. QED  BY <1>1, <1>3, <3>1 DEF Upto
  <2>3. c \subseteq X(rows[j])
    BY <2>1
  <2>. HIDE DEF X, R
  <2>. QED  BY <1>2, <1>5, <2>1, <2>2, <2>3 DEF Fresh
<1>. QED  BY <1>4, <1>5

LEMMA FaithfulBatch ==
  ASSUME NEW ls \in Seq(Line), NEW o, o.kind = "add_many", o.records \in Batches
  PROVE  Faithful(o, ls)
<1>. DEFINE c == Meaning(ls)
            rows == o.records
            R == Range(rows)
            M == Sets!DeclareZones(c \cup R, R)
            many == [kind |-> "add_many", records |-> R]
            res == AddRows(ls, rows)
<1>1. PICK n \in Nat : /\ rows \in [1..n -> Record] /\ Distinct(rows, n)
                       /\ R = Upto(rows, n)
  BY BatchRows
<1>2. c \in SUBSET (Record \cup PlainZone) /\ R \in SUBSET Record
  BY <1>1, MeaningParts DEF Upto
<1>3. Meant(o) = many /\ many.kind = "add_many" /\ many.records = R
  BY DEF Meant
<1>4. Sets!After(many, c) = M
  <2>. HIDE DEF R, c
  <2>. QED  BY <1>3, MeaningOf
<1>5. Sets!Allowed(many, c)
        <=> /\ R \cap c = {}
            /\ \A r \in R : ~ Sets!TakenBy(c, r) /\ ~ Sets!Holds((c \cup R) \ {r}, r)
            /\ Sets!Consistent(M)
  <2>. HIDE DEF M
  <2>. QED  BY <1>3, <1>4 DEF Sets!Allowed, Sets!AllowsAdd, Sets!AllowsCopy, Sets!AllowsSet,
                              Sets!AllowsBatch, Sets!AllowsEdit, Sets!AllowsDelete
<1>6. /\ res.why = "ok" =>
           \E new : res = Ok(new) /\ Reshaped(ls, new) /\ Holding(c, R, Meaning(new))
      /\ Clean(R) => (res.why = "ok" <=> \A j \in 1..n : Fresh(c, Upto(rows, j - 1), rows[j]))
  BY <1>1, RowsLeave
<1>7. (\A j \in 1..n : Fresh(c, Upto(rows, j - 1), rows[j]))
        <=> /\ R \cap c = {}
            /\ \A r \in R : ~ Sets!TakenBy(c, r) /\ ~ Sets!Holds((c \cup R) \ {r}, r)
  <2>. DEFINE T == Upto(rows, n)
  <2>1. (\A j \in 1..n : Fresh(c, Upto(rows, j - 1), rows[j]))
          <=> /\ T \cap c = {}
              /\ \A r \in T : ~ Sets!TakenBy(c, r) /\ ~ Sets!Holds((c \cup T) \ {r}, r)
    <3>. HIDE DEF c, rows
    <3>. QED  BY <1>1, <1>2, EachAgainstAll
  <2>. HIDE DEF T, c, rows, R
  <2>. QED  BY <1>1, <2>1 DEF T
<1>8. Result(o, ls) = IF res.why = "ok" THEN Checked(res.lines) ELSE res
  <2>1. Result(o, ls) = Then(AddRows(ls, o.records), Checked)
    BY ResultOf
  <2>. QED  BY <2>1 DEF Then
<1>9. ASSUME NEW new, res = Ok(new), Reshaped(ls, new)
      PROVE  Ends(ls, Result(o, ls), Meaning(new))
  <2>1. Result(o, ls) = Checked(new)
    BY <1>8, <1>9 DEF Ok
  <2>. HIDE DEF res
  <2>. QED  BY <1>9, <2>1, CheckedAnswers
<1>. HIDE DEF res, rows, R
<1>10. R \subseteq M
  BY DEF Sets!DeclareZones
<1>. HIDE DEF M, c, many
<1>11. CASE Clean(R)
  <2>1. CASE res.why = "ok"
    <3>1. PICK new : res = Ok(new) /\ Reshaped(ls, new) /\ Holding(c, R, Meaning(new))
      BY <1>6, <2>1
    <3>2. Meaning(new) = M
      BY <1>11, <3>1 DEF Holding, M
    <3>3. Ends(ls, Result(o, ls), M)
      BY <1>9, <3>1, <3>2
    <3>. QED  BY <1>3, <1>4, <1>5, <1>6, <1>7, <1>11, <2>1, <3>3 DEF Faithful, Ends, c
  <2>2. CASE res.why # "ok"
    BY <1>3, <1>5, <1>6, <1>7, <1>8, <1>11, <2>2 DEF Faithful, c
  <2>. QED  BY <2>1, <2>2
<1>12. CASE ~ Clean(R)
  <2>1. ~ Sets!Consistent(M)
    BY <1>2, <1>10, <1>12, UncleanIsInconsistent
  <2>2. Result(o, ls).why # "ok"
    <3>1. CASE res.why = "ok"
      <4>1. PICK new : res = Ok(new) /\ Reshaped(ls, new) /\ Holding(c, R, Meaning(new))
        BY <1>6, <3>1
      <4>2. R \subseteq Meaning(new)
        BY <4>1 DEF Holding
      <4>3. ~ Sets!Consistent(Meaning(new))
        BY <1>2, <1>12, <4>2, UncleanIsInconsistent
      <4>. QED  BY <1>9, <4>1, <4>3 DEF Ends
    <3>. QED  BY <1>8, <3>1
  <2>. QED  BY <1>3, <1>5, <2>1, <2>2 DEF Faithful, c
<1>. QED  BY <1>11, <1>12

-----------------------------------------------------------------------------
(* Every operation, on every file. *)

LEMMA EveryOperationIsFaithful ==
  ASSUME NEW ls \in Seq(Line), NEW o \in Operation
  PROVE  Faithful(o, ls)
<1>1. CASE o \in [kind : {"add", "copy", "delete"}, record : Record]
  BY <1>1, FaithfulAdd, FaithfulCopy, FaithfulDelete
<1>2. CASE o \in [kind : {"set"}, record : {r \in Record : r.type \in OneType}]
  BY <1>2, FaithfulSet
<1>3. CASE o \in [kind : {"edit"}, old : Record, record : Record]
  BY <1>3, FaithfulEdit
<1>4. CASE o \in [kind : {"add_many"}, records : Batches]
  BY <1>4, FaithfulBatch
<1>. QED  BY <1>1, <1>2, <1>3, <1>4 DEF Operation

(* What a step writes.                                                     *)
Written(o, new) ==
  /\ lines' = EnsureHeader(new)
  /\ Reshaped(lines, new)
  /\ Sets!Allowed(Meant(o), Meaning(lines))
  /\ Meaning(lines') = Sets!After(Meant(o), Meaning(lines))
  /\ lines' \in Seq(Line)
  /\ o.kind = "delete" \/ CheckConsistency(lines')

LEMMA WriteLeaves ==
  ASSUME lines \in Seq(Line), NEW o \in Operation, Write(o)
  PROVE  \E new : Written(o, new)
<1>. DEFINE res == Result(o, lines)
            new == res.lines
<1>1. res.why = "ok" /\ lines' = EnsureHeader(new)
  BY DEF Write
<1>2. Faithful(o, lines)
  BY EveryOperationIsFaithful
<1>3. /\ Sets!Allowed(Meant(o), Meaning(lines))
      /\ Meaning(new) = Sets!After(Meant(o), Meaning(lines))
      /\ Reshaped(lines, new)
      /\ o.kind = "delete" \/ CheckConsistency(new)
  BY <1>1, <1>2 DEF Faithful
<1>. HIDE DEF new
<1>4. new \in Seq(Line)
  BY <1>3 DEF Reshaped
<1>5. EnsureHeader(new) \in Seq(Line) /\ Parse(EnsureHeader(new)) = Parse(new)
      /\ Meaning(EnsureHeader(new)) = Meaning(new)
  BY <1>4, Headed
<1>6. CheckConsistency(new) => CheckConsistency(EnsureHeader(new))
  BY <1>5 DEF CheckConsistency
<1>7. Written(o, new)
  BY <1>1, <1>3, <1>5, <1>6 DEF Written
<1>. QED  BY <1>7

LEMMA StepsAreWrites ==
  ASSUME FileNext
  PROVE  \E o \in Operation : Write(o) /\ (o.kind = "copy" => \E r \in Record : CopyOne(r))
<1>1. ASSUME NEW r \in Record, AddOne(r)
      PROVE  \E o \in Operation : Write(o) /\ o.kind # "copy"
  BY <1>1 DEF AddOne, Operation
<1>2. ASSUME NEW r \in Record, CopyOne(r)
      PROVE  \E o \in Operation : Write(o)
  BY <1>2 DEF CopyOne, Operation
<1>3. ASSUME NEW r \in Record, DeleteOne(r)
      PROVE  \E o \in Operation : Write(o) /\ o.kind # "copy"
  BY <1>3 DEF DeleteOne, Operation
<1>4. ASSUME NEW r \in Record, SetOne(r)
      PROVE  \E o \in Operation : Write(o) /\ o.kind # "copy"
  BY <1>4 DEF SetOne, Operation
<1>5. ASSUME NEW s \in Record, NEW r \in Record, EditOne(s, r)
      PROVE  \E o \in Operation : Write(o) /\ o.kind # "copy"
  BY <1>5 DEF EditOne, Operation
<1>6. ASSUME NEW rs \in Batches, AddSome(rs)
      PROVE  \E o \in Operation : Write(o) /\ o.kind # "copy"
  BY <1>6 DEF AddSome, Operation
<1>. QED  BY <1>1, <1>2, <1>3, <1>4, <1>5, <1>6 DEF FileNext

(* The invariant: lines the parser knows, and no record under a blocked    *)
(* name unless there was one.                                              *)
FileInv == lines \in Seq(Line) /\ NoBlockedNameIsAnswered

LEMMA FileInvHolds == FileSpec => []FileInv
<1>1. FileInit => FileInv
  BY DnsFileAssumption DEF FileInit, FileInv, NoBlockedNameIsAnswered
<1>2. ASSUME FileInv, [FileNext]_lines
      PROVE  FileInv'
  <2>1. CASE UNCHANGED lines
    BY <1>2, <2>1 DEF FileInv, NoBlockedNameIsAnswered, CheckConsistency, Parse
  <2>2. CASE FileNext
    <3>1. lines \in Seq(Line)
      BY <1>2 DEF FileInv
    <3>2. PICK o \in Operation : Write(o)
      BY <2>2, StepsAreWrites
    <3>3. PICK new : Written(o, new)
      BY <3>1, <3>2, WriteLeaves
    <3>4. lines' \in Seq(Line)
      BY <3>3 DEF Written
    <3>5. CheckConsistency(lines) => CheckConsistency(lines')
      <4>1. CASE o.kind # "delete"
        BY <3>3, <4>1 DEF Written
      <4>2. CASE o.kind = "delete"
        <5>1. Meant(o) = o
          BY <4>2 DEF Meant
        <5>2. Meaning(lines') = Meaning(lines) \ {o.record}
          BY <3>3, <4>2, <5>1, MeaningOf DEF Written
        <5>3. Parse(lines) = Meaning(lines) \cap Record /\ Parse(lines') = Meaning(lines') \cap Record
          BY <3>1, <3>4, MeaningParts
        <5>4. Parse(lines') \subseteq Parse(lines)
          BY <5>2, <5>3
        <5>. QED  BY <5>4 DEF CheckConsistency
      <4>. QED  BY <4>1, <4>2
    <3>. QED  BY <1>2, <3>4, <3>5 DEF FileInv, NoBlockedNameIsAnswered
  <2>. QED  BY <1>2, <2>1, <2>2
<1>. QED  BY <1>1, <1>2, PTL DEF FileSpec

(* CheckConsistency, on every path that builds a file: a file in which no  *)
(* record sits under a blocked name is never changed into one where one    *)
(* does.                                                                   *)
THEOREM NoBlockedNameIsEverAnswered == FileSpec => []NoBlockedNameIsAnswered
<1>1. FileInv => NoBlockedNameIsAnswered
  BY DEF FileInv
<1>. QED  BY <1>1, FileInvHolds, PTL

(* Operation.apply, on every file the panel can leave: each operation is   *)
(* accepted, refused and reported as RecordOps says, and what it leaves    *)
(* means what RecordOps says.                                              *)
THEOREM LineEditingIsRecordOps == FileSpec => []AgreesWithRecordOps
<1>1. ASSUME FileInv
      PROVE  AgreesWithRecordOps
  <2>1. lines \in Seq(Line)
    BY <1>1 DEF FileInv
  <2>2. \A o \in Operation : Faithful(o, lines)
    BY <2>1, EveryOperationIsFaithful
  <2>. QED  BY <2>2 DEF Faithful, AgreesWithRecordOps
<1>. QED  BY <1>1, FileInvHolds, PTL

(* Delete, Set, Edit, EnsureZone, EnsureHeader: every write keeps the      *)
(* operator's own lines in their order, and the records inside the clause. *)
THEOREM EveryWriteKeepsTheShape == FileSpec => FileKeepsItsShape
<1>. DEFINE Keeps == /\ IsPrefix(Foreign(lines), Foreign(lines'))
                     /\ StandsAlone(lines) => SitInTheClause(lines')
<1>1. ASSUME FileInv, FileNext
      PROVE  Keeps
  <2>1. lines \in Seq(Line)
    BY <1>1 DEF FileInv
  <2>2. PICK o \in Operation : Write(o)
    BY <1>1, StepsAreWrites
  <2>3. PICK new : Written(o, new)
    BY <2>1, <2>2, WriteLeaves
  <2>4. Reshaped(lines, new) /\ new \in Seq(Line) /\ lines' = EnsureHeader(new)
    BY <2>3 DEF Written, Reshaped
  <2>5. /\ Foreign(EnsureHeader(new)) = Foreign(new)
        /\ StandsAlone(new) => SitInTheClause(EnsureHeader(new))
    BY <2>4, Headed
  <2>6. StandsAlone(lines) => StandsAlone(new)
    BY <2>4 DEF Reshaped, StandsAlone
  <2>. QED  BY <2>4, <2>5, <2>6 DEF Reshaped
<1>2. FileInv /\ [FileNext]_lines => [Keeps]_lines
  BY <1>1
<1>. HIDE DEF Keeps
<1>3. FileSpec => [][Keeps]_lines
  BY <1>2, FileInvHolds, PTL DEF FileSpec
<1>. QED  BY <1>3 DEF FileKeepsItsShape, Keeps

-----------------------------------------------------------------------------
(* Values of a name. *)

(* Zone lines answer for no name.                                          *)
LEMMA ZonesTakeNothing ==
  ASSUME NEW X \in SUBSET (Record \cup PlainZone), NEW R \in SUBSET Record
  PROVE  LET N == Sets!DeclareZones(X, R) IN
           /\ N \in SUBSET (Record \cup PlainZone) /\ N \cap Record = X \cap Record
           /\ \A r \in Record : Sets!TakenBy(N, r) <=> Sets!TakenBy(X, r)
<1>. DEFINE N == Sets!DeclareZones(X, R)
<1>1. N = X \cup {z \in Asked(R) : \A o \in X \cap (Block \cup PlainZone) : o.name # z.name}
  BY DeclaredSet
<1>2. Asked(R) \subseteq PlainZone /\ \A z \in PlainZone : z \notin Record
  BY AskedZones, KeysApart
<1>. HIDE DEF N
<1>3. N \in SUBSET (Record \cup PlainZone) /\ N \cap Record = X \cap Record
  BY <1>1, <1>2
<1>4. N \cap Data = X \cap Data
  BY <1>3 DEF Record
<1>5. \A r \in Record : Sets!TakenBy(N, r) <=> Sets!TakenBy(X, r)
  BY <1>3, <1>4, SetJudges
<1>. QED  BY <1>3, <1>5 DEF N

LEMMA OnlyACopyAddsAValue ==
  ASSUME NEW c \in SUBSET (Record \cup PlainZone), NEW o \in Operation,
         o.kind # "copy", Sets!Allowed(Meant(o), c),
         NEW r \in Record, r \in Sets!After(Meant(o), c), r \notin c
  PROVE  ~ Sets!TakenBy(Sets!After(Meant(o), c), r)
<1>. DEFINE new == o.record
<1>1. ASSUME NEW X \in SUBSET (Record \cup PlainZone), NEW R \in SUBSET Record,
             Sets!After(Meant(o), c) = Sets!DeclareZones(X, R)
      PROVE  r \in X /\ (Sets!TakenBy(Sets!After(Meant(o), c), r) <=> Sets!TakenBy(X, r))
  BY <1>1, ZonesTakeNothing
<1>2. CASE o.kind = "add"
  <2>1. new \in Record /\ Meant(o) = o
    BY <1>2 DEF Operation, Meant
  <2>2. c \cup {new} \in SUBSET (Record \cup PlainZone) /\ {new} \in SUBSET Record
    BY <2>1
  <2>3. Sets!After(Meant(o), c) = Sets!DeclareZones(c \cup {new}, {new})
    BY <1>2, <2>1, MeaningOf
  <2>4. r = new
    BY <1>1, <2>2, <2>3
  <2>5. ~ Sets!TakenBy(c, new)
    BY <1>2, <2>1 DEF Sets!Allowed, Sets!AllowsAdd, Sets!AllowsCopy, Sets!AllowsSet,
                      Sets!AllowsBatch, Sets!AllowsEdit, Sets!AllowsDelete
  <2>6. ~ Sets!TakenBy(c \cup {new}, r)
    BY <2>4, <2>5 DEF Sets!TakenBy
  <2>. QED  BY <1>1, <2>2, <2>3, <2>6
<1>3. CASE o.kind = "set"
  <2>. DEFINE X == {l \in c : ~ Sets!SameName(l, new)} \cup {new}
  <2>1. new \in Record /\ new.type \in OneType /\ Meant(o) = o
    BY <1>3 DEF Operation, Meant
  <2>2. X \in SUBSET (Record \cup PlainZone) /\ {new} \in SUBSET Record
    BY <2>1
  <2>3. Sets!After(Meant(o), c) = Sets!DeclareZones(X, {new})
    BY <1>3, <2>1, MeaningOf
  <2>4. r \in X /\ (Sets!TakenBy(Sets!After(Meant(o), c), r) <=> Sets!TakenBy(X, r))
    <3>. HIDE DEF X, new
    <3>. QED  BY <1>1, <2>2, <2>3
  <2>5. r = new
    BY <2>4
  <2>6. ~ Sets!TakenBy(X, r)
    BY <2>5 DEF Sets!TakenBy
  <2>. QED  BY <2>4, <2>6
<1>4. CASE o.kind = "edit"
  <2>. DEFINE X == (c \ {o.old}) \cup {new}
  <2>1. new \in Record /\ Meant(o) = o
    BY <1>4 DEF Operation, Meant
  <2>2. X \in SUBSET (Record \cup PlainZone) /\ {new} \in SUBSET Record
    BY <2>1
  <2>3. Sets!After(Meant(o), c) = Sets!DeclareZones(X, {new})
    BY <1>4, <2>1, MeaningOf
  <2>4. r \in X /\ (Sets!TakenBy(Sets!After(Meant(o), c), r) <=> Sets!TakenBy(X, r))
    <3>. HIDE DEF X, new
    <3>. QED  BY <1>1, <2>2, <2>3
  <2>5. r = new
    BY <2>4
  <2>6. ~ Sets!TakenBy(X, new)
    BY <1>4, <2>1 DEF Sets!Allowed, Sets!AllowsAdd, Sets!AllowsCopy, Sets!AllowsSet,
                      Sets!AllowsBatch, Sets!AllowsEdit, Sets!AllowsDelete
  <2>. QED  BY <2>4, <2>5, <2>6
<1>5. CASE o.kind = "add_many"
  <2>. DEFINE R == Range(o.records)
              X == c \cup R
              many == Meant(o)
  <2>1. o.records \in Batches
    BY <1>5 DEF Operation
  <2>2. PICK n \in Nat : o.records \in [1..n -> Record] /\ Distinct(o.records, n)
                         /\ R = Upto(o.records, n)
    BY <2>1, BatchRows
  <2>3. many.kind = "add_many" /\ many.records = R
    BY <1>5 DEF Meant
  <2>4. R \in SUBSET Record /\ X \in SUBSET (Record \cup PlainZone)
    BY <2>2 DEF Upto
  <2>. HIDE DEF many
  <2>5. Sets!After(many, c) = Sets!DeclareZones(X, R)
    <3>. HIDE DEF R
    <3>. QED  BY <2>3, MeaningOf
  <2>6. r \in X /\ (Sets!TakenBy(Sets!After(many, c), r) <=> Sets!TakenBy(X, r))
    <3>. HIDE DEF X, R
    <3>. QED  BY <1>1, <2>4, <2>5 DEF many
  <2>7. ~ Sets!TakenBy(c, r)
    <3>1. \A q \in R : ~ Sets!TakenBy(c, q)
      <4>. HIDE DEF R
      <4>1. Sets!Allowed(many, c)
        BY DEF many
      <4>. QED  BY <2>3, <4>1 DEF Sets!Allowed, Sets!AllowsAdd, Sets!AllowsCopy, Sets!AllowsSet,
                              Sets!AllowsBatch, Sets!AllowsEdit, Sets!AllowsDelete
    <3>. QED  BY <2>6, <3>1
  <2>8. \A q \in R : ~ (r.type \in OneType /\ SameName(q, r) /\ q # r)
    <3>1. \A i, j \in 1..n : i # j =>
            ~ (o.records[j].type \in OneType /\ SameName(o.records[i], o.records[j]))
      <4>1. ASSUME NEW i \in 1..n, NEW j \in 1..n, i # j,
                   o.records[j].type \in OneType, SameName(o.records[i], o.records[j])
            PROVE  FALSE
        <5>1. CASE i < j
          BY <2>2, <4>1, <5>1 DEF Distinct, SameName
        <5>2. CASE j < i
          BY <2>2, <4>1, <5>2 DEF Distinct, SameName
        <5>. QED  BY <4>1, <5>1, <5>2
      <4>. QED  BY <4>1
    <3>2. r \in R
      BY <2>6
    <3>. QED  BY <2>2, <3>1, <3>2 DEF Upto
  <2>9. ~ Sets!TakenBy(X, r)
    <3>1. ASSUME Sets!TakenBy(X, r)
          PROVE  FALSE
      <4>1. r.type \in OneType /\ \E q \in X \cap Data : SameName(q, r) /\ q # r
        <5>. HIDE DEF X
        <5>. QED  BY <2>4, <3>1, SetJudges
      <4>2. PICK q \in c \cap Data : SameName(q, r) /\ q # r
        BY <2>8, <4>1
      <4>. QED  BY <2>7, <4>1, <4>2, SetJudges
    <3>. QED  BY <3>1
  <2>. QED  BY <2>6, <2>9 DEF many
<1>6. CASE o.kind = "delete"
  <2>1. Meant(o) = o /\ Sets!After(o, c) = c \ {new}
    BY <1>6, MeaningOf DEF Meant
  <2>. QED  BY <2>1
<1>7. o.kind \in {"add", "copy", "set", "edit", "add_many", "delete"}
  BY DEF Operation
<1>. QED  BY <1>2, <1>3, <1>4, <1>5, <1>6, <1>7

(* TakenBy, on every path that builds a file: a step that gives a name of  *)
(* one value a second one is a copy.                                       *)
THEOREM OnlyACopyGivesASecondValue == FileSpec => SecondValueNeedsACopy
<1>. DEFINE Second == \E r \in Parse(lines') \ Parse(lines) : TakenBy(lines', r)
            Copied == \E r \in Record : CopyOne(r)
<1>1. ASSUME FileInv, FileNext, Second
      PROVE  Copied
  <2>1. lines \in Seq(Line)
    BY <1>1 DEF FileInv
  <2>2. PICK o \in Operation : Write(o) /\ (o.kind = "copy" => \E r \in Record : CopyOne(r))
    BY <1>1, StepsAreWrites
  <2>3. PICK new : Written(o, new)
    BY <2>1, <2>2, WriteLeaves
  <2>4. lines' \in Seq(Line)
    BY <2>3 DEF Written
  <2>5. PICK r \in Parse(lines') \ Parse(lines) : TakenBy(lines', r)
    BY <1>1
  <2>6. /\ Parse(lines) = Meaning(lines) \cap Record /\ Parse(lines') = Meaning(lines') \cap Record
        /\ Meaning(lines) \in SUBSET (Record \cup PlainZone)
    BY <2>1, <2>4, MeaningParts
  <2>7. r \in Record /\ r \in Meaning(lines') /\ r \notin Meaning(lines)
    BY <2>5, <2>6
  <2>8. Sets!TakenBy(Meaning(lines'), r)
    BY <2>4, <2>5, <2>7, TakenMeans
  <2>9. CASE o.kind = "copy"
    BY <2>2, <2>9
  <2>10. CASE o.kind # "copy"
    <3>1. /\ Meaning(lines') = Sets!After(Meant(o), Meaning(lines))
          /\ Sets!Allowed(Meant(o), Meaning(lines))
      BY <2>3 DEF Written
    <3>2. ~ Sets!TakenBy(Sets!After(Meant(o), Meaning(lines)), r)
      BY <2>6, <2>7, <2>10, <3>1, OnlyACopyAddsAValue
    <3>. QED  BY <2>8, <3>1, <3>2
  <2>. QED  BY <2>9, <2>10
<1>2. FileInv /\ [FileNext]_lines => [Second => Copied]_lines
  BY <1>1
<1>. HIDE DEF Second, Copied
<1>3. FileSpec => [][Second => Copied]_lines
  BY <1>2, FileInvHolds, PTL DEF FileSpec
<1>. QED  BY <1>3 DEF SecondValueNeedsACopy, Second, Copied

-----------------------------------------------------------------------------
(* The question before an addition. *)

LEMMA SubmittedIs ==
  ASSUME NEW rows \in Batches
  PROVE  /\ Submitted(rows) \in Operation /\ Range(rows) \in SUBSET Record /\ Range(rows) # {}
         /\ \/ /\ Submitted(rows).kind = "add"
               /\ Range(rows) = {Submitted(rows).record}
            \/ Submitted(rows).kind = "add_many" /\ Submitted(rows).records = rows
<1>1. PICK n \in Nat : /\ n >= 1 /\ rows \in [1..n -> Record] /\ Len(rows) = n
                       /\ Range(rows) = Upto(rows, n)
  BY BatchRows
<1>2. 1 \in 1..n
  BY <1>1
<1>3. Range(rows) \in SUBSET Record /\ rows[1] \in Range(rows)
  BY <1>1, <1>2 DEF Upto
<1>4. CASE n = 1
  <2>1. Submitted(rows) = [kind |-> "add", record |-> rows[1]]
    BY <1>1, <1>4 DEF Submitted
  <2>2. Range(rows) = {rows[1]}
    BY <1>1, <1>4 DEF Upto
  <2>. QED  BY <1>3, <2>1, <2>2 DEF Operation
<1>5. CASE n # 1
  <2>1. Submitted(rows) = [kind |-> "add_many", records |-> rows]
    BY <1>1, <1>5 DEF Submitted
  <2>. QED  BY <1>3, <2>1 DEF Operation
<1>. QED  BY <1>4, <1>5

(* What is written met nothing, and what met a second value had one for a  *)
(* row of its own.                                                         *)
LEMMA WhyRefused ==
  ASSUME NEW ls \in Seq(Line), NEW rows \in Batches
  PROVE  LET why == Result(Submitted(rows), ls).why
             c == Meaning(ls)
         IN /\ why = "ok" => \A r \in Range(rows) : ~ Sets!TakenBy(c, r) /\ r \notin c
            /\ why = "taken" => \E r \in Range(rows) : Sets!TakenBy(c, r)
<1>. DEFINE c == Meaning(ls)
            o == Submitted(rows)
            res == Result(o, ls)
<1>1. Faithful(o, ls) /\ o \in Operation
  BY SubmittedIs, EveryOperationIsFaithful
<1>2. CASE o.kind = "add" /\ Range(rows) = {o.record}
  <2>. DEFINE r == o.record
              mid == Append(ls, BuildLine(r))
  <2>1. r \in Record /\ Meant(o) = o
    BY <1>1, <1>2, SubmittedIs DEF Meant
  <2>2. Sets!Allowed(o, c) => ~ Sets!TakenBy(c, r) /\ r \notin c
    BY <1>2 DEF Sets!Allowed, Sets!AllowsAdd, Sets!AllowsCopy, Sets!AllowsSet, Sets!Holds,
                Sets!AllowsBatch, Sets!AllowsEdit, Sets!AllowsDelete
  <2>3. res.why = "ok" => Sets!Allowed(o, c)
    BY <1>1, <2>1 DEF Faithful
  <2>4. ASSUME res.why = "taken"
        PROVE  Sets!TakenBy(c, r)
    <3>1. res = Finish(AddRecord(ls, r), r)
      BY <1>2, ResultOf
    <3>2. CASE ~ Sets!TakenBy(c, r) /\ Sets!Holds(c, r)
      <4>1. res = Refused("duplicate")
        BY <2>1, <3>1, <3>2, AddAnswers, FinishAnswers
      <4>. QED  BY <2>4, <4>1 DEF Refused
    <3>3. CASE ~ Sets!TakenBy(c, r) /\ ~ Sets!Holds(c, r)
      <4>1. res = Checked(DeclareZone(mid, r))
        BY <2>1, <3>1, <3>3, AddAnswers, FinishAnswers
      <4>. QED  BY <2>4, <4>1 DEF Checked, Ok, Refused
    <3>. QED  BY <3>2, <3>3
  <2>. QED  BY <1>2, <2>2, <2>3, <2>4
<1>3. CASE o.kind = "add_many" /\ o.records = rows
  <2>. DEFINE R == Range(rows)
              many == Meant(o)
              sum == AddRows(ls, rows)
  <2>1. many.kind = "add_many" /\ many.records = R
    BY <1>3 DEF Meant
  <2>2. res.why = "ok" => Sets!Allowed(many, c)
    BY <1>1 DEF Faithful
  <2>3. Sets!Allowed(many, c) => \A r \in R : ~ Sets!TakenBy(c, r) /\ r \notin c
    <3>. HIDE DEF R, many
    <3>. QED  BY <2>1 DEF Sets!Allowed, Sets!AllowsAdd, Sets!AllowsCopy, Sets!AllowsSet,
                          Sets!AllowsBatch, Sets!AllowsEdit, Sets!AllowsDelete
  <2>4. PICK n \in Nat : rows \in [1..n -> Record] /\ Distinct(rows, n) /\ R = Upto(rows, n)
    BY BatchRows
  <2>5. sum.why = "taken" => \E r \in Upto(rows, n) : Sets!TakenBy(c, r)
    BY <2>4, RowsLeave
  <2>6. res.why = "taken" => sum.why = "taken"
    <3>1. res = Then(AddRows(ls, o.records), Checked)
      BY <1>3, ResultOf
    <3>2. res = IF sum.why = "ok" THEN Checked(sum.lines) ELSE sum
      BY <1>3, <3>1 DEF Then
    <3>. HIDE DEF res, sum
    <3>. QED  BY <3>2 DEF Checked, Ok, Refused
  <2>. QED  BY <2>2, <2>3, <2>4, <2>5, <2>6
<1>. QED  BY <1>2, <1>3, SubmittedIs

LEMMA RunsIntoMeans ==
  ASSUME NEW ls \in Seq(Line), NEW r \in Record
  PROVE  /\ RunsInto(ls, r) = "exists" <=> r \in Parse(ls)
         /\ RunsInto(ls, r) = "taken" <=> r \notin Parse(ls) /\ Sets!TakenBy(Meaning(ls), r)
         /\ r \in Parse(ls) <=> r \in Meaning(ls)
<1>1. Parse(ls) = Meaning(ls) \cap Record
  BY MeaningParts
<1>2. TakenBy(ls, r) <=> Sets!TakenBy(Meaning(ls), r)
  BY TakenMeans
<1>3. ASSUME r \notin Parse(ls), r.type \in OneType
      PROVE  (\E o \in Parse(ls) : SameName(o, r)) <=> TakenBy(ls, r)
  <2>1. r \in Data
    BY <1>3, DnsFileAssumption DEF Record, Block, DataType
  <2>2. \A o \in Parse(ls) : SameName(o, r) => o \in Data
    BY <1>1, <1>3, DnsFileAssumption DEF Record, Block, DataType, SameName
  <2>3. \A o \in Data : SameName(o, r) /\ o.value = r.value => o = r
    BY <2>1 DEF Data, SameName
  <2>. QED  BY <1>3, <2>2, <2>3 DEF TakenBy
<1>4. RunsInto(ls, r) = IF r \in Parse(ls) THEN "exists"
        ELSE IF r.type \in OneType /\ \E o \in Parse(ls) : SameName(o, r) THEN "taken"
        ELSE "nothing"
  BY DEF RunsInto
<1>5. TakenBy(ls, r) => r.type \in OneType
  BY DEF TakenBy
<1>. QED  BY <1>1, <1>2, <1>3, <1>4, <1>5

LEMMA ConflictIs ==
  ASSUME NEW held, NEW r
  PROVE  /\ Conflict(held, r) = "taken" <=> \E ls \in held : RunsInto(ls, r) = "taken"
         /\ Conflict(held, r) = "everywhere" => \A ls \in held : RunsInto(ls, r) = "exists"
<1>. DEFINE kinds == {RunsInto(ls, r) : ls \in held}
<1>1. CASE "taken" \in kinds
  <2>1. Conflict(held, r) = "taken"
    BY <1>1 DEF Conflict
  <2>. QED  BY <1>1, <2>1
<1>2. CASE "taken" \notin kinds /\ kinds = {"exists"}
  <2>1. Conflict(held, r) = "everywhere"
    BY <1>2 DEF Conflict
  <2>. QED  BY <1>2, <2>1
<1>3. CASE "taken" \notin kinds /\ kinds # {"exists"}
  <2>1. Conflict(held, r) = "nothing"
    BY <1>3 DEF Conflict
  <2>. QED  BY <1>3, <2>1
<1>. QED  BY <1>1, <1>2, <1>3

LEMMA QuestionIs ==
  ASSUME NEW held, NEW rows
  PROVE  /\ Question(held, rows) = "choice" => NameTaken(held, rows)
         /\ Question(held, rows) = "complete" => AlreadyEverywhere(held, rows)
         /\ Question(held, rows) = "write" => ~ NameTaken(held, rows)
<1>1. CASE NameTaken(held, rows)
  <2>1. Question(held, rows) = "choice"
    BY <1>1 DEF Question
  <2>. QED  BY <1>1, <2>1
<1>2. CASE ~ NameTaken(held, rows) /\ AlreadyEverywhere(held, rows)
  <2>1. Question(held, rows) = "complete"
    BY <1>2 DEF Question
  <2>. QED  BY <1>2, <2>1
<1>3. CASE ~ NameTaken(held, rows) /\ ~ AlreadyEverywhere(held, rows)
  <2>1. Question(held, rows) = "write"
    BY <1>3 DEF Question
  <2>. QED  BY <1>3, <2>1
<1>. QED  BY <1>1, <1>2, <1>3

(* The answer to a choice leaves one value for the name.                   *)
LEMMA SetLeavesOne ==
  ASSUME NEW ls \in Seq(Line), NEW r \in Record, r.type \in OneType,
         Result([kind |-> "set", record |-> r], ls).why = "ok"
  PROVE  {o \in Parse(Result([kind |-> "set", record |-> r], ls).lines) : SameName(o, r)} = {r}
<1>. DEFINE op == [kind |-> "set", record |-> r]
            new == Result(op, ls).lines
            X == {o \in Meaning(ls) : o \in PlainZone \/ ~ SameName(o, r)} \cup {r}
<1>1. op \in Operation /\ Meant(op) = op
  BY DEF Operation, Meant
<1>2. Faithful(op, ls)
  BY <1>1, EveryOperationIsFaithful
<1>3. Meaning(new) = Sets!After(op, Meaning(ls)) /\ new \in Seq(Line)
  BY <1>1, <1>2 DEF Faithful, Reshaped
<1>4. Meaning(ls) \in SUBSET (Record \cup PlainZone)
  BY MeaningParts
<1>5. Sets!After(op, Meaning(ls)) = Sets!DeclareZones(X, {r})
  <2>1. Sets!After(op, Meaning(ls))
          = Sets!DeclareZones({l \in Meaning(ls) : ~ Sets!SameName(l, r)} \cup {r}, {r})
    <3>1. op.kind = "set" /\ op.record = r
      OBVIOUS
    <3>2. \A o, c : o.kind = "set" =>
            Sets!After(o, c) = Sets!DeclareZones(
              {l \in c : ~ Sets!SameName(l, o.record)} \cup {o.record}, {o.record})
      BY MeaningOf
    <3>. HIDE DEF op
    <3>3. Sets!After(op, Meaning(ls)) = Sets!DeclareZones(
              {l \in Meaning(ls) : ~ Sets!SameName(l, op.record)} \cup {op.record}, {op.record})
      BY <3>1, <3>2
    <3>. QED  BY <3>1, <3>3
  <2>. QED  BY <1>4, <2>1, SameKeys
<1>6. X \in SUBSET (Record \cup PlainZone) /\ {r} \in SUBSET Record
  BY <1>4
<1>. HIDE DEF new, X, op
<1>7. Meaning(new) \cap Record = X \cap Record
  BY <1>3, <1>5, <1>6, ZonesTakeNothing
<1>8. Parse(new) = Meaning(new) \cap Record
  BY <1>3, MeaningParts
<1>9. \A z \in PlainZone : z \notin Record
  BY KeysApart
<1>10. {o \in Parse(new) : SameName(o, r)} = {r}
  BY <1>7, <1>8, <1>9 DEF X, SameName
<1>. QED  BY <1>10 DEF new, op

(* Conflicts and checkConflicts: what the pages ask before an addition, of *)
(* what the servers hold, foresees what Operation.apply answers there.     *)
THEOREM TheQuestionIsRight == FileSpec => []QuestionForeseesTheWrite
<1>1. ASSUME FileInv
      PROVE  QuestionForeseesTheWrite
  <2>1. lines \in Seq(Line)
    BY <1>1 DEF FileInv
  <2>2. ASSUME NEW other \in FirstFiles, NEW rows \in Batches
        PROVE  LET held == {lines, other}
                   asked == Question(held, rows)
                   why == [ls \in held |-> Result(Submitted(rows), ls).why]
               IN /\ asked = "choice" => \E ls \in held : why[ls] # "ok"
                  /\ asked = "complete" => \A ls \in held : why[ls] # "ok"
                  /\ asked = "write" =>
                       \A ls \in held : why[ls] = "taken" => Range(rows) \cap Parse(ls) # {}
    <3>. DEFINE held == {lines, other}
                asked == Question(held, rows)
                why == [ls \in held |-> Result(Submitted(rows), ls).why]
    <3>1. \A ls \in held : ls \in Seq(Line)
      BY <2>1, DnsFileAssumption
    <3>2. Range(rows) \in SUBSET Record /\ Range(rows) # {}
      BY SubmittedIs
    <3>3. \A ls \in held : why[ls] = Result(Submitted(rows), ls).why
      OBVIOUS
    <3>. HIDE DEF why, held
    <3>4. ASSUME NEW ls \in held
          PROVE  /\ why[ls] = "ok" => \A r \in Range(rows) :
                      ~ Sets!TakenBy(Meaning(ls), r) /\ r \notin Meaning(ls)
                 /\ why[ls] = "taken" => \E r \in Range(rows) : Sets!TakenBy(Meaning(ls), r)
      BY <3>1, <3>3, WhyRefused
    <3>5. ASSUME NEW ls \in held, NEW r \in Range(rows)
          PROVE  /\ RunsInto(ls, r) = "exists" <=> r \in Parse(ls)
                 /\ RunsInto(ls, r) = "taken" <=> r \notin Parse(ls) /\ Sets!TakenBy(Meaning(ls), r)
                 /\ r \in Parse(ls) <=> r \in Meaning(ls)
      <4>1. ls \in Seq(Line) /\ r \in Record
        BY <3>1, <3>2
      <4>. QED  BY <4>1, RunsIntoMeans
    <3>6. ASSUME asked = "choice"
          PROVE  \E ls \in held : why[ls] # "ok"
      <4>1. PICK r \in Range(rows) : Conflict(held, r) = "taken"
        BY <3>6, QuestionIs DEF NameTaken
      <4>2. PICK ls \in held : RunsInto(ls, r) = "taken"
        BY <4>1, ConflictIs
      <4>. QED  BY <3>4, <3>5, <4>2
    <3>7. ASSUME asked = "complete", NEW ls \in held
          PROVE  why[ls] # "ok"
      <4>1. PICK r \in Range(rows) : TRUE
        BY <3>2
      <4>2. Conflict(held, r) = "everywhere"
        BY <3>7, QuestionIs DEF AlreadyEverywhere
      <4>3. RunsInto(ls, r) = "exists"
        BY <4>2, ConflictIs
      <4>. QED  BY <3>4, <3>5, <4>3
    <3>8. ASSUME asked = "write", NEW ls \in held, why[ls] = "taken"
          PROVE  Range(rows) \cap Parse(ls) # {}
      <4>1. PICK r \in Range(rows) : Sets!TakenBy(Meaning(ls), r)
        BY <3>4, <3>8
      <4>2. Conflict(held, r) # "taken"
        BY <3>8, QuestionIs DEF NameTaken
      <4>3. RunsInto(ls, r) # "taken"
        BY <4>2, ConflictIs
      <4>. QED  BY <3>5, <4>1, <4>3
    <3>. HIDE DEF asked
    <3>9. /\ asked = "choice" => \E ls \in held : why[ls] # "ok"
          /\ asked = "complete" => \A ls \in held : why[ls] # "ok"
          /\ asked = "write" =>
               \A ls \in held : why[ls] = "taken" => Range(rows) \cap Parse(ls) # {}
      BY <3>6, <3>7, <3>8
    <3>. QED  BY <3>9 DEF asked, held, why
  <2>3. ASSUME NEW r \in {x \in Record : x.type \in OneType}
        PROVE  LET set == Result([kind |-> "set", record |-> r], lines) IN
               set.why = "ok" => {o \in Parse(set.lines) : SameName(o, r)} = {r}
    BY <2>1, SetLeavesOne
  <2>. QED  BY <2>2, <2>3 DEF QuestionForeseesTheWrite
<1>. QED  BY <1>1, FileInvHolds, PTL

-----------------------------------------------------------------------------
(* The constants of RecordOps, read off the lines of a file, are what it   *)
(* assumes them to be: ParentZone, CoversName, sameName and declaresName   *)
(* make the relation between a block and the records under it, and keep    *)
(* the name of a record apart from the name of a zone.                     *)
THEOREM LinesFitRecordOps == Sets!RecordShape
<1>. DEFINE L == Record \cup PlainZone
            P == [r \in Data |-> IF ParentZone[r.name] = NoName THEN {}
                                 ELSE {ZoneLine(ParentZone[r.name], "transparent")}]
<1>1. Record \cap PlainZone = {} /\ Block \subseteq Record /\ Record \ Block = Data
  BY KeysApart DEF Record
<1>2. [l \in L |-> LineKey(l)] \in [L -> {LineKey(l) : l \in L}]
  OBVIOUS
<1>3. \A r \in {x \in Record : x.type \in OneType} : r \in Data /\ r \notin Block
  <2>1. \A r \in {x \in Record : x.type \in OneType} : r \in Data
    BY DnsFileAssumption DEF Record, Block, DataType
  <2>. QED  BY <2>1, KeysApart
<1>4. \A a, b \in Block \cup PlainZone : a.name = b.name => LineKey(a) = LineKey(b)
  BY KeysApart
<1>5. \A r \in Data, l \in Block \cup PlainZone : LineKey(r) # LineKey(l)
  BY KeysApart
<1>6. P \in [Data -> SUBSET PlainZone]
  <2>1. ASSUME NEW r \in Data, ParentZone[r.name] # NoName
        PROVE  ZoneLine(ParentZone[r.name], "transparent") \in PlainZone
    <3>1. ParentZone[r.name] \in Name
      BY <2>1, DnsFileAssumption DEF Data
    <3>. QED  BY <3>1, PlainLines
  <2>. QED  BY <2>1
<1>7. ASSUME NEW b \in Block, NEW r \in Data, NEW z \in P[r], LineKey(b) = LineKey(z)
      PROVE  CoversName(b.name, r.name)
  <2>1. ParentZone[r.name] # NoName /\ z = ZoneLine(ParentZone[r.name], "transparent")
    BY <1>7
  <2>2. z \in PlainZone /\ z.name = ParentZone[r.name] /\ r.name \in Name
    BY <1>6, <1>7, <2>1 DEF ZoneLine, Data
  <2>3. Folded[b.name] = Folded[z.name]
    BY <1>7, <2>2, KeysApart
  <2>. QED  BY <2>1, <2>2, <2>3, DnsFileAssumption DEF CoversName
<1>8. [b \in Block |-> {r \in Data : CoversName(b.name, r.name)}] \in [Block -> SUBSET Data]
  OBVIOUS
<1>. QED  BY <1>1, <1>2, <1>3, <1>4, <1>5, <1>6, <1>7, <1>8 DEF Sets!RecordShape, Sets!Line
=============================================================================
