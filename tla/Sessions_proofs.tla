--------------------------- MODULE Sessions_proofs ---------------------------
(***************************************************************************)
(* Theorems about Sessions for every set of browsers, accounts and         *)
(* requests, and every value of the intervals and bounds.                  *)
(***************************************************************************)
EXTENDS Sessions, FiniteSetTheorems, TLAPS

-----------------------------------------------------------------------------
(* The inductive invariant, in the parts the theorems need. *)

SigningIn == {"admit", "count", "verify", "policy", "start"}
Loading   == {"load", "find", "destroy", "rotate", "touch", "signOut", "revoke"}
Place     == {"idle", "answer"} \cup SigningIn \cup Loading

Carried == Identifier \cup {None}

AnswerType == [does : {"keep", "clear", "set"}, id : Carried]

RequestType ==
  [at : Place, no : 0..MaxSends, ask : Asks \cup {NoRequest.ask},
   browser : Browser \cup {None}, cookie : Carried, began : 0..MaxClock,
   now : 0..MaxClock, id : Carried, answer : AnswerType]

FullType ==
  /\ TypeOK
  /\ req \in [Slot -> RequestType]
  /\ \A r \in Slot : req[r].at \in {"rotate", "touch", "destroy"} => req[r].id \in Identifier

(* A session has one row. *)
OneRow == \A x, y \in rows : x.id.session = y.id.session => x = y

(* Number of the session a login that is under way will make. *)
Promised(r) == Cardinality(FirstRows) + req[r].no

(* The numbers of the logins under way are their own, and unused. *)
FreshInv ==
  /\ \A x \in rows : x.id.session <= Cardinality(FirstRows) + sends
  /\ \A r \in Slot : req[r].at \in SigningIn =>
       /\ req[r].no \in 1..sends
       /\ Promised(r) \notin Numbers(rows)
       /\ \A q \in Slot \ {r} : req[q].at \in SigningIn => req[q].no # req[r].no

(* An attempt that is still to be counted came not long ago, but from a    *)
(* browser that was slow before, and the time a request works with is one  *)
(* of the ticks it took.                                                   *)
ClockInv ==
  \A r \in Slot : ~ At(r, "idle") =>
    /\ req[r].at \in {"admit", "count"} /\ <<req[r].browser, "attempt">> \notin slow
         => clock <= req[r].began + Latency
    /\ ~ (req[r].at \in {"load", "admit", "answer"}) => req[r].began <= req[r].now

(* Nothing that still counts has been pruned. *)
RecordedInv ==
  /\ IsFiniteSet(admitted)
  /\ \A x \in admitted : x.at >= clock - Window => x \in attempts

IInv ==
  FullType /\ OneRow /\ FreshInv /\ ClockInv /\ RecordedInv /\ WindowIsBounded

(* One request has gone to a place, the others are where they were. *)
Gone(r, p) ==
  /\ req' \in [Slot -> RequestType]
  /\ \A q \in Slot \ {r} : req'[q] = req[q]
  /\ req'[r].at = p /\ req'[r].browser = req[r].browser

(* It counts its time from where it did. *)
SameStart(r) == req'[r].began = req[r].began

-----------------------------------------------------------------------------
(* The forms in which the actions say so. *)
Reads(r, p, n)       == req' = [req EXCEPT ![r].at = p, ![r].now = n]
Finds(r, p, i)       == req' = [req EXCEPT ![r].at = p, ![r].id = i]
HandsOn(r, p, i, a)  == req' = [req EXCEPT ![r].at = p, ![r].id = i, ![r].answer = a]
Opens(r, i) ==
  req' = [req EXCEPT ![r] = [NoRequest EXCEPT !.at = "answer", !.answer = SetTo(i),
                               !.browser = req[r].browser, !.began = clock]]

(* What is left of a request that is answered. *)
LEMMA AnswerShape ==
  ASSUME req \in [Slot -> RequestType], NEW r \in Slot,
         NEW a \in AnswerType, Answer(r, a)
  PROVE  Gone(r, "answer") /\ SameStart(r) /\ req'[r].answer = a /\ req'[r].now = 0
<1>. DEFINE left == [NoRequest EXCEPT !.at = "answer", !.answer = a,
                       !.browser = req[r].browser, !.began = req[r].began]
<1>1. NoRequest \in RequestType
  <2>1. NoRequest.ask = [kind |-> "page"]
    BY DEF NoRequest
  <2>. QED  BY <2>1, SessionsAssumption DEF NoRequest, RequestType, Place, AnswerType, Carried, Keep
<1>2. left \in RequestType
  BY <1>1 DEF RequestType, Place
<1>3. req' = [req EXCEPT ![r] = left]
  BY DEF Answer
<1>4. left.now = 0
  BY <1>1 DEF RequestType, NoRequest
<1>. QED  BY <1>1, <1>2, <1>3, <1>4 DEF RequestType, Gone, SameStart

(* What is left of a login that has made a session.                        *)
LEMMA OpenShape ==
  ASSUME req \in [Slot -> RequestType], NEW r \in Slot, clock \in 0..MaxClock,
         NEW i \in Identifier, Opens(r, i)
  PROVE  Gone(r, "answer") /\ req'[r].began = clock /\ req'[r].answer = SetTo(i) /\ req'[r].now = 0
<1>. DEFINE left == [NoRequest EXCEPT !.at = "answer", !.answer = SetTo(i),
                       !.browser = req[r].browser, !.began = clock]
<1>1. NoRequest \in RequestType
  <2>1. NoRequest.ask = [kind |-> "page"]
    BY DEF NoRequest
  <2>. QED  BY <2>1, SessionsAssumption DEF NoRequest, RequestType, Place, AnswerType, Carried, Keep
<1>2. SetTo(i) \in AnswerType
  BY DEF SetTo, AnswerType, Carried
<1>3. left \in RequestType
  BY <1>1, <1>2 DEF RequestType, Place
<1>4. req' = [req EXCEPT ![r] = left]
  BY DEF Opens
<1>5. left.now = 0
  BY <1>1 DEF RequestType, NoRequest
<1>6. left.began = clock /\ left.answer = SetTo(i) /\ left.at = "answer" /\ left.browser = req[r].browser
  BY <1>1 DEF RequestType
<1>. HIDE DEF left
<1>. QED  BY <1>3, <1>4, <1>5, <1>6 DEF Gone

(* A request moves on.                                                     *)
LEMMA GotoShape ==
  ASSUME req \in [Slot -> RequestType], NEW r \in Slot, NEW p \in Place, Goto(r, p)
  PROVE  /\ Gone(r, p) /\ SameStart(r)
         /\ req'[r].no = req[r].no /\ req'[r].now = req[r].now /\ req'[r].id = req[r].id
<1>1. req[r] \in RequestType
  OBVIOUS
<1>2. [req[r] EXCEPT !.at = p] \in RequestType
  BY <1>1 DEF RequestType
<1>. QED  BY <1>1, <1>2 DEF RequestType, Gone, SameStart, Goto

(* A request moves on with the time it has read.                           *)
LEMMA ClockShape ==
  ASSUME req \in [Slot -> RequestType], NEW r \in Slot, NEW p \in Place, NEW n \in 0..MaxClock,
         Reads(r, p, n)
  PROVE  /\ Gone(r, p) /\ SameStart(r) /\ req'[r].now = n
         /\ req'[r].no = req[r].no /\ req'[r].id = req[r].id
<1>1. req[r] \in RequestType
  OBVIOUS
<1>2. [req[r] EXCEPT !.at = p, !.now = n] \in RequestType
  BY <1>1 DEF RequestType
<1>. QED  BY <1>1, <1>2 DEF RequestType, Gone, SameStart, Reads

(* A request moves on with the session it has found.                       *)
LEMMA FindShape ==
  ASSUME req \in [Slot -> RequestType], NEW r \in Slot, NEW p \in Place, NEW i \in Carried,
         Finds(r, p, i)
  PROVE  /\ Gone(r, p) /\ SameStart(r) /\ req'[r].id = i
         /\ req'[r].no = req[r].no /\ req'[r].now = req[r].now
<1>1. req[r] \in RequestType
  OBVIOUS
<1>2. [req[r] EXCEPT !.at = p, !.id = i] \in RequestType
  BY <1>1 DEF RequestType
<1>. QED  BY <1>1, <1>2 DEF RequestType, Gone, SameStart, Finds

(* A request moves on to its handler.                                      *)
LEMMA HandleShape ==
  ASSUME req \in [Slot -> RequestType], NEW r \in Slot, NEW p \in Place, NEW i \in Carried,
         NEW a \in AnswerType,
         HandsOn(r, p, i, a)
  PROVE  /\ Gone(r, p) /\ SameStart(r) /\ req'[r].id = i
         /\ req'[r].no = req[r].no /\ req'[r].now = req[r].now
<1>1. req[r] \in RequestType
  OBVIOUS
<1>2. [req[r] EXCEPT !.at = p, !.id = i, !.answer = a] \in RequestType
  BY <1>1 DEF RequestType
<1>. QED  BY <1>1, <1>2 DEF RequestType, Gone, SameStart, HandsOn

-----------------------------------------------------------------------------
(* What every step the server takes for a request does to that request.    *)
Moves(r) ==
  /\ Gone(r, req'[r].at)
  /\ SameStart(r) \/ (At(r, "start") /\ req'[r].at = "answer" /\ req'[r].began = clock)
  /\ req[r].at \notin {"idle", "answer"} /\ req'[r].at # "idle"
  /\ req'[r].at \in {"admit", "count"} => req[r].at = "admit"
  /\ req'[r].now \in 0..clock
  /\ req'[r].at \in SigningIn => req[r].at \in SigningIn /\ req'[r].no = req[r].no
  /\ req'[r].at \in {"rotate", "touch", "destroy"} => req'[r].id \in Identifier
  /\ req'[r].at \notin {"load", "admit", "answer"}
       => req'[r].now = clock \/ (req'[r].now = req[r].now /\ req[r].at \notin {"load", "admit"})
  /\ req'[r].at = "answer" => req'[r].answer \in AnswerType

LEMMA ServeMoves ==
  ASSUME FullType, NEW r \in Slot, Serve(r)
  PROVE  Moves(r) /\ UNCHANGED <<clock, jar, sends, slow>>
<1>0. /\ TypeOK /\ req \in [Slot -> RequestType] /\ req[r] \in RequestType
      /\ clock \in 0..MaxClock
      /\ req[r].at \in {"rotate", "touch", "destroy"} => req[r].id \in Identifier
      /\ req[r].now \in 0..clock
  BY DEF FullType, TypeOK
<1>1. /\ Keep \in AnswerType /\ Clear \in AnswerType /\ req[r].answer \in AnswerType
      /\ \A i \in Identifier : SetTo(i) \in AnswerType
      /\ Identifier \subseteq Carried /\ req[r].id \in Carried
  BY <1>0 DEF Keep, Clear, SetTo, AnswerType, Carried, RequestType
<1>2. ASSUME NEW a \in AnswerType, Answer(r, a), req[r].at \notin {"idle", "answer"}
      PROVE  Moves(r)
  <2>1. Gone(r, "answer") /\ SameStart(r) /\ req'[r].answer = a /\ req'[r].now = 0
    BY <1>0, <1>2, AnswerShape
  <2>. QED  BY <1>0, <1>2, <2>1 DEF Moves, Gone, SigningIn
<1>3. ASSUME NEW a \in AnswerType, NEW i \in Carried, Handle(r, i, a), req[r].at \in {"rotate", "touch"}
      PROVE  Moves(r)
  <2>1. CASE Answer(r, a)
    BY <1>2, <1>3, <2>1
  <2>2. ASSUME NEW p \in {"signOut", "revoke"},
               req' = [req EXCEPT ![r].at = p, ![r].id = i, ![r].answer = a]
        PROVE  Moves(r)
    <3>1. p \in Place
      BY DEF Place, Loading
    <3>2. HandsOn(r, p, i, a)
      BY <2>2 DEF HandsOn
    <3>3. Gone(r, p) /\ SameStart(r) /\ req'[r].now = req[r].now
      BY <1>0, <1>3, <3>1, <3>2, HandleShape
    <3>. QED  BY <1>0, <1>3, <3>3 DEF Moves, Gone, SigningIn
  <2>. QED  BY <1>3, <2>1, <2>2 DEF Handle
<1>4. \A x \in rows : x \in Row /\ x.id \in Identifier
  BY <1>0 DEF TypeOK, Row
<1>5. CASE ReadClock(r)
  <2>1. ASSUME NEW p \in {"find", "count"}, req' = [req EXCEPT ![r].at = p, ![r].now = clock],
               \/ At(r, "load") /\ p = "find"
               \/ At(r, "admit") /\ p = "count"
        PROVE  Moves(r)
    <3>1. p \in Place
      BY DEF Place, Loading, SigningIn
    <3>2. Reads(r, p, clock)
      BY <2>1 DEF Reads
    <3>3. Gone(r, p) /\ SameStart(r) /\ req'[r].now = clock /\ req'[r].no = req[r].no
      BY <1>0, <3>1, <3>2, ClockShape
    <3>. QED  BY <1>0, <2>1, <3>3 DEF Moves, Gone, SigningIn, At
  <2>. QED  BY <1>5, <2>1 DEF ReadClock
<1>6. CASE Find(r)
  <2>1. ASSUME NEW x \in rows, req' = [req EXCEPT ![r].at = Verdict(r, x), ![r].id = x.id]
        PROVE  Moves(r)
    <3>1. Verdict(r, x) \in {"destroy", "rotate", "touch"} /\ x.id \in Identifier /\ At(r, "find")
      BY <1>4, <1>6 DEF Verdict, Find
    <3>2. Verdict(r, x) \in Place /\ x.id \in Carried
      BY <1>1, <3>1 DEF Place, Loading
    <3>3. Finds(r, Verdict(r, x), x.id)
      BY <2>1 DEF Finds
    <3>4. Gone(r, Verdict(r, x)) /\ SameStart(r) /\ req'[r].now = req[r].now /\ req'[r].id = x.id
      BY <1>0, <3>2, <3>3, FindShape
    <3>. QED  BY <1>0, <3>1, <3>4 DEF Moves, Gone, SigningIn, At
  <2>2. \A x \in Named(req[r].cookie, req[r].now) : x \in rows
    BY DEF Named
  <2>. QED  BY <1>1, <1>2, <1>6, <2>1, <2>2 DEF Find, At
<1>7. CASE Destroy(r)
  BY <1>1, <1>2, <1>7 DEF Destroy, At
<1>8. CASE Rotate(r)
  <2>1. \A x \in WithId(req[r].id) : Rotated(x, req[r].now).id \in Identifier
    BY <1>4 DEF WithId, Rotated, Row, Identifier
  <2>. QED  BY <1>1, <1>3, <1>8, <2>1 DEF Rotate, At
<1>9. CASE Touch(r)
  BY <1>1, <1>2, <1>3, <1>9 DEF Touch, Done, At
<1>10. CASE SignOut(r)
  BY <1>1, <1>2, <1>10 DEF SignOut, At
<1>11. CASE Revoke(r)
  BY <1>1, <1>2, <1>11 DEF Revoke, Done, At
<1>12. ASSUME NEW p \in {"verify", "policy", "start"}, Goto(r, p), req[r].at \in SigningIn \ {"admit"}
       PROVE  Moves(r)
  <2>1. p \in Place
    BY DEF Place, SigningIn
  <2>2. Gone(r, p) /\ SameStart(r) /\ req'[r].now = req[r].now /\ req'[r].no = req[r].no
    BY <1>0, <1>12, <2>1, GotoShape DEF Goto
  <2>. QED  BY <1>0, <1>12, <2>2 DEF Moves, Gone, SigningIn
<1>13. CASE Admit(r)
  BY <1>1, <1>2, <1>12, <1>13 DEF Admit, Done, At, SigningIn
<1>14. CASE Authenticate(r)
  BY <1>1, <1>2, <1>12, <1>14 DEF Authenticate, Done, At, SigningIn
<1>15. CASE ApplyPolicy(r)
  BY <1>1, <1>2, <1>12, <1>15 DEF ApplyPolicy, Done, At, SigningIn
<1>16. CASE StartSession(r)
  <2>1. Promised(r) \in Nat
    BY <1>0, FS_CardinalityType, SessionsAssumption DEF Promised, RequestType
  <2>2. [session |-> Promised(r), serial |-> 0] \in Identifier
    BY <2>1 DEF Identifier
  <2>3. \E i \in Identifier : Opens(r, i)
    BY <1>16, <2>2 DEF StartSession, Promised, Opens
  <2>4. Gone(r, "answer") /\ req'[r].began = clock /\ req'[r].now = 0 /\ req'[r].answer \in AnswerType
    BY <1>0, <1>1, <2>3, OpenShape
  <2>5. req[r].at = "start"
    BY <1>16 DEF StartSession, At
  <2>. QED  BY <1>0, <1>16, <2>4, <2>5 DEF StartSession, Moves, Gone, SigningIn, At
<1>17. CASE StatementFails(r)
  BY <1>1, <1>2, <1>17 DEF StatementFails, Done, At
<1>. QED
  BY <1>5, <1>6, <1>7, <1>8, <1>9, <1>10, <1>11, <1>13, <1>14, <1>15, <1>16, <1>17
  DEF Serve, ReadClock, Find, Destroy, Rotate, Touch, SignOut, Revoke, Admit,
      Authenticate, ApplyPolicy, StartSession, StatementFails

-----------------------------------------------------------------------------
(* What a step does to the sessions.                                       *)
RowsKept ==
  /\ rows' \subseteq Row /\ OneRow'
  /\ Numbers(rows') \subseteq Numbers(rows)

RowAdded(r) ==
  /\ At(r, "start") /\ req'[r].at = "answer"
  /\ rows' \subseteq Row /\ OneRow'
  /\ Numbers(rows') = Numbers(rows) \cup {Promised(r)}

LEMMA RowsLeft ==
  ASSUME OneRow, rows \subseteq Row, rows' \subseteq rows
  PROVE  RowsKept
BY DEF RowsKept, OneRow, Numbers

(* A row that is put in the place of one keeps the number of its session.  *)
LEMMA RowsReplaced ==
  ASSUME OneRow, rows \subseteq Row, NEW olds \in SUBSET rows, NEW f \in [olds -> Row],
         \A x \in olds : f[x].id.session = x.id.session,
         rows' = (rows \ olds) \cup {f[x] : x \in olds}
  PROVE  RowsKept
<1>1. rows' \subseteq Row
  OBVIOUS
<1>2. ASSUME NEW x \in rows'
      PROVE  \E o \in rows : o.id.session = x.id.session /\ x = IF o \in olds THEN f[o] ELSE o
  OBVIOUS
<1>3. OneRow'
  <2>1. SUFFICES ASSUME NEW x \in rows', NEW y \in rows', x.id.session = y.id.session
                 PROVE  x = y
    BY DEF OneRow
  <2>2. PICK o \in rows : o.id.session = x.id.session /\ x = IF o \in olds THEN f[o] ELSE o
    BY <1>2
  <2>3. PICK u \in rows : u.id.session = y.id.session /\ y = IF u \in olds THEN f[u] ELSE u
    BY <1>2
  <2>4. o = u
    BY <2>1, <2>2, <2>3 DEF OneRow
  <2>. QED  BY <2>2, <2>3, <2>4
<1>4. Numbers(rows') \subseteq Numbers(rows)
  BY <1>2 DEF Numbers
<1>. QED  BY <1>1, <1>3, <1>4 DEF RowsKept

LEMMA ServeRows ==
  ASSUME IInv, NEW r \in Slot, Serve(r)
  PROVE  RowsKept \/ RowAdded(r)
<1>0. /\ TypeOK /\ OneRow /\ FreshInv /\ rows \subseteq Row /\ req[r] \in RequestType
      /\ clock \in 0..MaxClock
  BY DEF IInv, FullType, TypeOK
<1>1. /\ req[r].now \in Time /\ clock \in Time /\ 0 \in Time
      /\ MaxClock \in Nat
  BY <1>0, SessionsAssumption DEF RequestType, Time
<1>2. CASE rows' \subseteq rows
  BY <1>0, <1>2, RowsLeft
<1>3. ASSUME NEW x \in rows
      PROVE  /\ x \in Row /\ x.id \in Identifier
             /\ Rotated(x, req[r].now) \in Row
             /\ Rotated(x, req[r].now).id.session = x.id.session
             /\ [x EXCEPT !.lastActive = req[r].now] \in Row
             /\ [x EXCEPT !.lastActive = req[r].now].id.session = x.id.session
  <2>1. x \in Row /\ x.id \in Identifier
    BY <1>0 DEF Row
  <2>2. [x.id EXCEPT !.serial = @ + 1] \in Identifier /\ [x.id EXCEPT !.serial = @ + 1].session = x.id.session
    BY <2>1 DEF Identifier
  <2>3. Rotated(x, req[r].now)
          = [x EXCEPT !.id = [x.id EXCEPT !.serial = @ + 1], !.previous = x.id,
               !.rotatedAt = req[r].now, !.regeneratedAt = req[r].now, !.lastActive = req[r].now]
    BY <2>1 DEF Rotated, Row
  <2>4. Rotated(x, req[r].now) \in Row /\ Rotated(x, req[r].now).id = [x.id EXCEPT !.serial = @ + 1]
    BY <1>1, <2>1, <2>2, <2>3 DEF Row
  <2>. QED  BY <1>1, <2>1, <2>2, <2>4 DEF Row
<1>4. CASE Rotate(r)
  <2>. DEFINE olds == WithId(req[r].id)
              f == [x \in olds |-> Rotated(x, req[r].now)]
  <2>1. olds \in SUBSET rows
    BY DEF WithId
  <2>2. f \in [olds -> Row] /\ \A x \in olds : f[x].id.session = x.id.session
    BY <1>3, <2>1
  <2>3. rows' = (rows \ olds) \cup {f[x] : x \in olds}
    BY <1>4 DEF Rotate
  <2>. HIDE DEF olds, f
  <2>. QED  BY <1>0, <2>1, <2>2, <2>3, RowsReplaced
<1>5. CASE Touch(r)
  <2>. DEFINE olds == WithId(req[r].id)
              f == [x \in olds |-> [x EXCEPT !.lastActive = req[r].now]]
  <2>1. olds \in SUBSET rows
    BY DEF WithId
  <2>2. f \in [olds -> Row] /\ \A x \in olds : f[x].id.session = x.id.session
    BY <1>3, <2>1
  <2>3. rows' = (rows \ olds) \cup {f[x] : x \in olds}
    BY <1>5 DEF Touch
  <2>. HIDE DEF olds, f
  <2>. QED  BY <1>0, <2>1, <2>2, <2>3, RowsReplaced
<1>6. CASE StartSession(r)
  <2>. DEFINE new == [id |-> [session |-> Promised(r), serial |-> 0], previous |-> None,
                      account |-> AccountOf[req[r].browser], rotatedAt |-> 0,
                      regeneratedAt |-> clock, lastActive |-> clock, createdAt |-> clock]
  <2>1. At(r, "start") /\ rows' = rows \cup {new}
    BY <1>6 DEF StartSession, Promised
  <2>2. Promised(r) \in Nat
    BY <1>0, FS_CardinalityType, SessionsAssumption DEF Promised, RequestType
  <2>3. AccountOf[req[r].browser] \in Account
    BY <1>0, <2>1, SessionsAssumption DEF TypeOK, At
  <2>4. new \in Row /\ new.id.session = Promised(r)
    BY <1>1, <2>2, <2>3 DEF Row, Identifier
  <2>5. Promised(r) \notin Numbers(rows)
    BY <1>0, <2>1 DEF FreshInv, At, SigningIn
  <2>8. req'[r].at = "answer"
    BY <1>0, <1>6 DEF StartSession, NoRequest, IInv, FullType
  <2>. HIDE DEF new
  <2>6. OneRow'
    BY <1>0, <2>1, <2>4, <2>5 DEF OneRow, Numbers
  <2>7. Numbers(rows') = Numbers(rows) \cup {Promised(r)}
    BY <2>1, <2>4 DEF Numbers
  <2>. QED  BY <1>0, <2>1, <2>4, <2>6, <2>7, <2>8 DEF RowAdded
<1>. QED
  BY <1>2, <1>4, <1>5, <1>6
  DEF Serve, ReadClock, Find, Destroy, SignOut, Revoke, Admit, Authenticate, ApplyPolicy, StatementFails

-----------------------------------------------------------------------------
(* The two steps of a browser. *)
LEMMA DeliverMoves ==
  ASSUME FullType, NEW r \in Slot, Deliver(r)
  PROVE  /\ req' \in [Slot -> RequestType]
         /\ \A q \in Slot \ {r} : req'[q] = req[q]
         /\ req'[r] = NoRequest
         /\ jar' \in [Browser -> Carried]
<1>0. /\ TypeOK /\ req \in [Slot -> RequestType] /\ req[r] \in RequestType
      /\ jar \in [Browser -> Carried]
  BY DEF FullType, TypeOK, Carried
<1>1. NoRequest \in RequestType
  <2>1. NoRequest.ask = [kind |-> "page"]
    BY DEF NoRequest
  <2>. QED  BY <2>1, SessionsAssumption DEF NoRequest, RequestType, Place, AnswerType, Carried, Keep
<1>2. req[r].answer.id \in Carried
  BY <1>0 DEF RequestType, AnswerType
<1>. QED  BY <1>0, <1>1, <1>2 DEF Deliver

LEMMA SendMoves ==
  ASSUME FullType, NEW r \in Slot, NEW b \in Browser, NEW a \in Asks, Send(r, b, a)
  PROVE  /\ req' \in [Slot -> RequestType]
         /\ \A q \in Slot \ {r} : req'[q] = req[q]
         /\ req'[r].at \in {"admit", "load"} /\ req'[r].browser = b
         /\ req'[r].began = clock /\ req'[r].now = 0
         /\ req'[r].at = "admit" => req'[r].no = sends + 1
         /\ sends' = sends + 1 /\ sends' \in 0..MaxSends
<1>0. /\ TypeOK /\ req \in [Slot -> RequestType] /\ clock \in 0..MaxClock
      /\ sends \in 0..MaxSends /\ sends < MaxSends /\ MaxSends \in Nat /\ MaxClock \in Nat
      /\ jar[b] \in Carried
  BY SessionsAssumption DEF FullType, TypeOK, Carried, Send
<1>. DEFINE at == IF a.kind = "signIn" THEN "admit" ELSE "load"
            no == IF a.kind = "signIn" THEN sends + 1 ELSE 0
            new == [NoRequest EXCEPT !.at = at, !.no = no, !.ask = a, !.browser = b,
                                     !.cookie = jar[b], !.began = clock]
<1>1. NoRequest \in RequestType
  <2>1. NoRequest.ask = [kind |-> "page"]
    BY DEF NoRequest
  <2>. QED  BY <2>1, SessionsAssumption DEF NoRequest, RequestType, Place, AnswerType, Carried, Keep
<1>2. at \in Place /\ no \in 0..MaxSends
  BY <1>0 DEF Place, SigningIn, Loading
<1>3. req' = [req EXCEPT ![r] = new] /\ sends' = sends + 1
  BY DEF Send
<1>4. new \in RequestType
  BY <1>0, <1>1, <1>2 DEF RequestType
<1>5. /\ new.at = at /\ new.no = no /\ new.browser = b /\ new.began = clock /\ new.now = NoRequest.now
  BY <1>1 DEF RequestType
<1>6. NoRequest.now = 0
  BY DEF NoRequest
<1>. QED  BY <1>0, <1>3, <1>4, <1>5, <1>6

-----------------------------------------------------------------------------
(* A login makes a session with a number that none had and none will have. *)
LEMMA FreshStep ==
  ASSUME IInv, [Next]_vars
  PROVE  FreshInv'
<1>0. /\ FullType /\ OneRow /\ FreshInv /\ rows \subseteq Row /\ req \in [Slot -> RequestType]
      /\ sends \in Nat /\ Cardinality(FirstRows) \in Nat
      /\ \A x \in rows : x.id.session \in Nat
  <2>1. FullType /\ OneRow /\ FreshInv
    BY DEF IInv
  <2>2. rows \subseteq Row /\ req \in [Slot -> RequestType] /\ sends \in 0..MaxSends /\ MaxSends \in Nat
    BY <2>1, SessionsAssumption DEF FullType, TypeOK
  <2>3. Cardinality(FirstRows) \in Nat
    BY FS_CardinalityType, SessionsAssumption
  <2>4. \A x \in Row : x.id.session \in Nat
    BY DEF Row, Identifier
  <2>. QED  BY <2>1, <2>2, <2>3, <2>4
<1>1. ASSUME NEW r \in Slot, Serve(r)
      PROVE  FreshInv'
  <2>1. Moves(r) /\ sends' = sends
    BY <1>0, <1>1, ServeMoves
  <2>2. RowsKept \/ RowAdded(r)
    BY <1>1, ServeRows
  <2>3. Numbers(rows') \subseteq Numbers(rows) \cup
          (IF At(r, "start") /\ req'[r].at = "answer" THEN {Promised(r)} ELSE {})
    BY <2>2 DEF RowsKept, RowAdded
  <2>4. At(r, "start") => req[r].at \in SigningIn
    BY DEF At, SigningIn
  <2>5. ASSUME NEW x \in rows'
        PROVE  x.id.session <= Cardinality(FirstRows) + sends'
    <3>1. x.id.session \in Numbers(rows) \/ (At(r, "start") /\ x.id.session = Promised(r))
      BY <2>3 DEF Numbers
    <3>2. CASE x.id.session \in Numbers(rows)
      BY <1>0, <2>1, <3>2 DEF FreshInv, Numbers
    <3>3. CASE At(r, "start") /\ x.id.session = Promised(r)
      <4>1. req[r].no \in 1..sends
        BY <1>0, <2>4, <3>3 DEF FreshInv
      <4>. QED  BY <1>0, <2>1, <3>3, <4>1 DEF Promised
    <3>. QED  BY <3>1, <3>2, <3>3
  <2>6. \A q \in Slot : req'[q].at \in SigningIn => req[q].at \in SigningIn /\ req'[q].no = req[q].no
    BY <2>1 DEF Moves, Gone
  <2>7. ASSUME NEW q \in Slot, req'[q].at \in SigningIn
        PROVE  /\ req'[q].no \in 1..sends'
               /\ Promised(q)' \notin Numbers(rows')
               /\ \A u \in Slot \ {q} : req'[u].at \in SigningIn => req'[u].no # req'[q].no
    <3>1. req[q].at \in SigningIn /\ req'[q].no = req[q].no /\ req[q].no \in 1..sends
      BY <1>0, <2>6, <2>7 DEF FreshInv
    <3>2. Promised(q)' = Promised(q) /\ Promised(q) \notin Numbers(rows)
      BY <1>0, <3>1 DEF FreshInv, Promised
    <3>3. At(r, "start") /\ req'[r].at = "answer" => Promised(q) # Promised(r)
      <4>1. SUFFICES ASSUME At(r, "start"), req'[r].at = "answer" PROVE Promised(q) # Promised(r)
        OBVIOUS
      <4>2. q # r
        BY <2>7, <4>1 DEF SigningIn
      <4>3. req[q].no # req[r].no /\ req[r].no \in 1..sends
        BY <1>0, <2>4, <3>1, <4>1, <4>2 DEF FreshInv
      <4>. QED  BY <1>0, <3>1, <4>3 DEF Promised
    <3>4. \A u \in Slot \ {q} : req'[u].at \in SigningIn => req'[u].no # req'[q].no
      BY <1>0, <2>6, <3>1 DEF FreshInv
    <3>. QED  BY <2>1, <2>3, <3>1, <3>2, <3>3, <3>4
  <2>. QED  BY <2>5, <2>7 DEF FreshInv, Promised
<1>2. ASSUME NEW r \in Slot, Deliver(r)
      PROVE  FreshInv'
  <2>1. /\ \A q \in Slot \ {r} : req'[q] = req[q]
        /\ req'[r].at = "idle"
    BY <1>0, <1>2, DeliverMoves DEF NoRequest
  <2>2. rows' = rows /\ sends' = sends
    BY <1>2 DEF Deliver
  <2>. QED  BY <1>0, <2>1, <2>2 DEF FreshInv, Promised, SigningIn
<1>3. ASSUME NEW r \in Slot, NEW b \in Browser, NEW a \in Asks, Send(r, b, a)
      PROVE  FreshInv'
  <2>1. /\ \A q \in Slot \ {r} : req'[q] = req[q]
        /\ req'[r].at \in {"admit", "load"}
        /\ req'[r].at = "admit" => req'[r].no = sends + 1
        /\ sends' = sends + 1
    BY <1>0, <1>3, SendMoves
  <2>2. rows' = rows
    BY <1>3 DEF Send
  <2>3. \A x \in rows' : x.id.session <= Cardinality(FirstRows) + sends'
    BY <1>0, <2>1, <2>2 DEF FreshInv
  <2>4. \A n \in Numbers(rows') : n \in Nat /\ n <= Cardinality(FirstRows) + sends
    BY <1>0, <2>2 DEF FreshInv, Numbers
  <2>5. \A q \in Slot \ {r} : req'[q].at \in SigningIn =>
          /\ req'[q].no \in 1..sends /\ Promised(q)' \notin Numbers(rows')
          /\ \A u \in Slot \ {q, r} : req'[u].at \in SigningIn => req'[u].no # req'[q].no
    BY <1>0, <2>1, <2>2 DEF FreshInv, Promised
  <2>6. req'[r].at \in SigningIn => req'[r].no = sends + 1
    BY <2>1 DEF SigningIn
  <2>7. req'[r].at \in SigningIn => Promised(r)' \notin Numbers(rows')
    BY <1>0, <2>4, <2>6 DEF Promised
  <2>8. ASSUME NEW q \in Slot, req'[q].at \in SigningIn
        PROVE  /\ req'[q].no \in 1..sends'
               /\ Promised(q)' \notin Numbers(rows')
               /\ \A u \in Slot \ {q} : req'[u].at \in SigningIn => req'[u].no # req'[q].no
    <3>1. CASE q = r
      BY <1>0, <2>1, <2>5, <2>6, <2>7, <2>8, <3>1
    <3>2. CASE q # r
      BY <1>0, <2>1, <2>5, <2>6, <2>8, <3>2
    <3>. QED  BY <3>1, <3>2
  <2>. QED  BY <2>3, <2>8 DEF FreshInv, Promised
<1>4. CASE Cleanup
  BY <1>0, <1>4 DEF Cleanup, FreshInv, Promised, Numbers
<1>5. CASE Tick
  BY <1>0, <1>5 DEF Tick, FreshInv, Promised
<1>6. CASE UNCHANGED vars
  BY <1>0, <1>6 DEF vars, FreshInv, Promised
<1>. QED  BY <1>1, <1>2, <1>3, <1>4, <1>5, <1>6 DEF Next

-----------------------------------------------------------------------------
(* Who was slow stays known, and only the clock makes a browser slow.      *)
LEMMA SlowStep ==
  ASSUME FullType, [Next]_vars
  PROVE  /\ slow \subseteq slow'
         /\ slow' \subseteq Browser \X {"attempt", "session"}
         /\ Tick \/ slow' = slow
<1>0. FullType /\ slow \subseteq Browser \X {"attempt", "session"}
  BY DEF FullType, TypeOK
<1>1. ASSUME NEW r \in Slot, Serve(r)
      PROVE  slow' = slow
  BY <1>0, <1>1, ServeMoves
<1>2. CASE Tick
  <2>1. \A r \in Slot : Hurries(r) => req[r].browser \in Browser
    BY <1>0 DEF FullType, TypeOK, Hurries, At
  <2>. QED  BY <1>0, <1>2, <2>1 DEF Tick, Errand
<1>3. ASSUME NEW r \in Slot, Deliver(r)
      PROVE  slow' = slow
  BY <1>3 DEF Deliver
<1>4. ASSUME NEW r \in Slot, NEW b \in Browser, NEW a \in Asks, Send(r, b, a)
      PROVE  slow' = slow
  BY <1>4 DEF Send
<1>5. CASE Cleanup \/ UNCHANGED vars
  BY <1>0, <1>5 DEF Cleanup, vars
<1>. QED  BY <1>0, <1>1, <1>2, <1>3, <1>4, <1>5 DEF Next

(* The time a request works with is not before it began.                   *)
LEMMA ReadAfterItBegan ==
  ASSUME ClockInv, NEW r \in Slot, req[r].at \notin {"idle", "load", "admit", "answer"}
  PROVE  req[r].began <= req[r].now
<1>. DEFINE early == <<req[r].browser, "attempt">> \notin slow
<1>1. /\ req[r].at \in {"admit", "count"} /\ early => clock <= req[r].began + Latency
      /\ ~ (req[r].at \in {"load", "admit", "answer"}) => req[r].began <= req[r].now
  BY Zenon DEF ClockInv, At
<1>. HIDE DEF early
<1>. QED  BY <1>1

(* A request works with a tick between its first and the present one.      *)
LEMMA TimesStep ==
  ASSUME IInv, [Next]_vars
  PROVE  ClockInv'
<1>0. /\ FullType /\ TypeOK /\ ClockInv /\ req \in [Slot -> RequestType] /\ Latency \in Nat /\ clock \in Nat
      /\ \A q \in Slot : req[q].began \in 0..clock /\ req[q].now \in 0..clock
  BY SessionsAssumption DEF IInv, FullType, TypeOK
<1>1. ASSUME NEW r \in Slot, Serve(r)
      PROVE  ClockInv'
  <2>1. Moves(r) /\ clock' = clock /\ slow' = slow
    BY <1>0, <1>1, ServeMoves
  <2>2. ASSUME req'[r].at \in {"admit", "count"}, <<req'[r].browser, "attempt">> \notin slow
        PROVE  clock <= req'[r].began + Latency
    BY <1>0, <2>1, <2>2 DEF Moves, Gone, SameStart, ClockInv, At
  <2>3. ASSUME ~ (req'[r].at \in {"load", "admit", "answer"})
        PROVE  req'[r].began <= req'[r].now
    <3>1. req'[r].began = req[r].began
      BY <2>1, <2>3 DEF Moves, SameStart
    <3>2. CASE req'[r].now = clock
      BY <1>0, <3>1, <3>2
    <3>3. CASE req'[r].now = req[r].now /\ req[r].at \notin {"idle", "load", "admit", "answer"}
      BY <1>0, <3>1, <3>3, ReadAfterItBegan
    <3>. QED  BY <2>1, <2>3, <3>2, <3>3 DEF Moves
  <2>4. \A q \in Slot \ {r} : req'[q] = req[q]
    BY <2>1 DEF Moves, Gone
  <2>. QED  BY <1>0, <2>1, <2>2, <2>3, <2>4 DEF ClockInv, At
<1>2. ASSUME NEW r \in Slot, Deliver(r)
      PROVE  ClockInv'
  <2>1. (\A q \in Slot \ {r} : req'[q] = req[q]) /\ req'[r].at = "idle" /\ clock' = clock /\ slow' = slow
    BY <1>0, <1>2, DeliverMoves DEF NoRequest, Deliver
  <2>. QED  BY <1>0, <2>1 DEF ClockInv, At
<1>3. ASSUME NEW r \in Slot, NEW b \in Browser, NEW a \in Asks, Send(r, b, a)
      PROVE  ClockInv'
  <2>1. /\ \A q \in Slot \ {r} : req'[q] = req[q]
        /\ req'[r].at \in {"admit", "load"} /\ req'[r].began = clock
    BY <1>0, <1>3, SendMoves
  <2>2. clock' = clock /\ slow' = slow
    BY <1>3 DEF Send
  <2>. QED  BY <1>0, <2>1, <2>2 DEF ClockInv, At
<1>4. CASE Cleanup
  BY <1>0, <1>4 DEF Cleanup, ClockInv, At
<1>5. CASE Tick
  <2>1. clock' = clock + 1 /\ req' = req
    BY <1>5 DEF Tick
  <2>2. ASSUME NEW r \in Slot, req[r].at \in {"admit", "count"}, <<req[r].browser, "attempt">> \notin slow'
        PROVE  clock + 1 <= req[r].began + Latency
    <3>1. ~ (clock >= req[r].began + Latency)
      BY <1>5, <2>2 DEF Tick, Hurries, Errand
    <3>. QED  BY <1>0, <3>1
  <2>. QED  BY <1>0, <2>1, <2>2 DEF ClockInv, At
<1>6. CASE UNCHANGED vars
  BY <1>0, <1>6 DEF vars, ClockInv, At
<1>. QED  BY <1>1, <1>2, <1>3, <1>4, <1>5, <1>6 DEF Next

-----------------------------------------------------------------------------
(* What a step does to the attempts. *)
Attempt == [browser : Browser, at : 0..MaxClock, no : 1..MaxSends]

(* The attempt of a request, and those of its browser that still count.    *)
This(r) == [browser |-> req[r].browser, at |-> req[r].now, no |-> req[r].no]
Mine(r) == {x \in Since(attempts, req[r].now) : x.browser = req[r].browser}

LetsThrough(r) ==
  /\ At(r, "count") /\ This(r) \in Attempt /\ req[r].now <= clock
  /\ <<req[r].browser, "attempt">> \notin slow => clock <= req[r].now + Latency
  /\ Cardinality(Mine(r)) < MaxTries
  /\ attempts' = Since(attempts, req[r].now) \cup {This(r)}
  /\ admitted' = admitted \cup {This(r)}

Prunes ==
  /\ admitted' = admitted
  /\ attempts' = attempts \/ \E t \in 0..clock : attempts' = Since(attempts, t)

LEMMA ServeTries ==
  ASSUME IInv, NEW r \in Slot, Serve(r)
  PROVE  Prunes \/ LetsThrough(r)
<1>0. /\ TypeOK /\ FreshInv /\ ClockInv /\ req[r] \in RequestType
      /\ clock \in 0..MaxClock /\ sends \in 0..MaxSends /\ MaxSends \in Nat /\ MaxClock \in Nat /\ Latency \in Nat
      /\ req[r].began \in 0..clock /\ req[r].now \in 0..clock
  <2>1. TypeOK /\ FreshInv /\ ClockInv /\ req \in [Slot -> RequestType]
    BY DEF IInv, FullType
  <2>. QED  BY <2>1, SessionsAssumption DEF TypeOK
<1>1. CASE Admit(r)
  <2>1. At(r, "count")
    BY <1>1 DEF Admit
  <2>2. CASE attempts' = Since(attempts, req[r].now) /\ UNCHANGED admitted
    BY <1>0, <2>2 DEF Prunes
  <2>3. CASE /\ Cardinality(Mine(r)) < MaxTries
             /\ attempts' = Since(attempts, req[r].now) \cup {This(r)}
             /\ admitted' = admitted \cup {This(r)}
    <3>1. req[r].no \in 1..MaxSends
      BY <1>0, <2>1 DEF FreshInv, SigningIn, At
    <3>2. req[r].browser \in Browser
      BY <1>0, <2>1 DEF TypeOK, At
    <3>3. /\ req[r].began <= req[r].now
          /\ <<req[r].browser, "attempt">> \notin slow => clock <= req[r].began + Latency
      BY <1>0, <2>1 DEF ClockInv, At
    <3>4. This(r) \in Attempt
      BY <1>0, <3>1, <3>2 DEF This, Attempt
    <3>. QED  BY <1>0, <2>1, <2>3, <3>3, <3>4 DEF LetsThrough
  <2>. QED  BY <1>1, <2>2, <2>3 DEF Admit, Mine, This
<1>2. CASE UNCHANGED <<attempts, admitted>>
  BY <1>2 DEF Prunes
<1>. QED
  BY <1>1, <1>2
  DEF Serve, ReadClock, Find, Destroy, Rotate, Touch, SignOut, Revoke, Authenticate,
      ApplyPolicy, StartSession, StatementFails

LEMMA StepTries ==
  ASSUME IInv, [Next]_vars
  PROVE  Prunes \/ \E r \in Slot : LetsThrough(r) /\ clock' = clock
<1>0. FullType /\ clock \in Nat
  BY DEF IInv, FullType, TypeOK
<1>1. CASE \E r \in Slot : Serve(r)
  BY <1>0, <1>1, ServeTries, ServeMoves
<1>2. CASE Cleanup
  BY <1>0, <1>2 DEF Cleanup, Prunes
<1>3. CASE UNCHANGED <<attempts, admitted>>
  BY <1>3 DEF Prunes
<1>4. CASE Tick \/ UNCHANGED vars
  BY <1>3, <1>4 DEF Tick, vars
<1>5. ASSUME NEW r \in Slot, Deliver(r)
      PROVE  UNCHANGED <<attempts, admitted>>
  BY <1>5 DEF Deliver
<1>6. ASSUME NEW r \in Slot, NEW b \in Browser, NEW a \in Asks, Send(r, b, a)
      PROVE  UNCHANGED <<attempts, admitted>>
  BY <1>6 DEF Send
<1>. QED  BY <1>1, <1>2, <1>3, <1>4, <1>5, <1>6 DEF Next

(* What is recorded was let through. *)
LEMMA AttemptsStep ==
  ASSUME IInv, [Next]_vars
  PROVE  attempts' \subseteq admitted' /\ admitted' \subseteq Attempt
<1>1. attempts \subseteq admitted /\ admitted \subseteq Attempt
  BY DEF IInv, FullType, TypeOK, Attempt
<1>2. CASE Prunes
  BY <1>1, <1>2 DEF Prunes, Since
<1>3. CASE \E r \in Slot : LetsThrough(r)
  BY <1>1, <1>3 DEF LetsThrough, Since
<1>. QED  BY <1>2, <1>3, StepTries

LEMMA ClockGoesOn ==
  ASSUME IInv, [Next]_vars
  PROVE  /\ clock \in Nat /\ clock' \in 0..MaxClock /\ clock <= clock'
<1>0. FullType /\ clock \in 0..MaxClock /\ MaxClock \in Nat
  BY SessionsAssumption DEF IInv, FullType, TypeOK
<1>1. ASSUME NEW r \in Slot, Serve(r)
      PROVE  clock' = clock
  BY <1>0, <1>1, ServeMoves
<1>2. ASSUME NEW r \in Slot, Deliver(r)
      PROVE  clock' = clock
  BY <1>2 DEF Deliver
<1>3. ASSUME NEW r \in Slot, NEW b \in Browser, NEW a \in Asks, Send(r, b, a)
      PROVE  clock' = clock
  BY <1>3 DEF Send
<1>4. CASE Tick
  BY <1>0, <1>4 DEF Tick
<1>5. CASE Cleanup
  BY <1>0, <1>5 DEF Cleanup
<1>6. CASE UNCHANGED vars
  BY <1>0, <1>6 DEF vars
<1>. QED  BY <1>0, <1>1, <1>2, <1>3, <1>4, <1>5, <1>6 DEF Next

(* Pruning leaves what the present window still counts.                    *)
LEMMA RecordedStep ==
  ASSUME IInv, [Next]_vars
  PROVE  RecordedInv'
<1>0. /\ RecordedInv /\ Window \in Nat /\ clock \in Nat /\ clock' \in Nat /\ clock <= clock'
      /\ \A x \in admitted : x.at \in Nat
  BY ClockGoesOn, SessionsAssumption DEF IInv, FullType, TypeOK
<1>1. CASE Prunes
  <2>1. IsFiniteSet(admitted')
    BY <1>0, <1>1 DEF Prunes, RecordedInv
  <2>2. ASSUME NEW x \in admitted', x.at >= clock' - Window
        PROVE  x \in attempts'
    <3>1. x \in admitted /\ x \in attempts /\ x.at \in Nat /\ x.at >= clock - Window
      BY <1>0, <1>1, <2>2 DEF Prunes, RecordedInv
    <3>2. \A t \in 0..clock : x \in Since(attempts, t)
      BY <1>0, <3>1 DEF Since
    <3>. QED  BY <1>1, <3>1, <3>2 DEF Prunes
  <2>. QED  BY <2>1, <2>2 DEF RecordedInv
<1>2. ASSUME NEW r \in Slot, LetsThrough(r), clock' = clock
      PROVE  RecordedInv'
  <2>1. req[r].now <= clock /\ req[r].now \in Nat /\ This(r).at = req[r].now
    BY <1>2 DEF LetsThrough, This, Attempt
  <2>2. IsFiniteSet(admitted')
    BY <1>0, <1>2, FS_AddElement DEF LetsThrough, RecordedInv
  <2>3. ASSUME NEW x \in admitted, x.at >= clock' - Window
        PROVE  x \in attempts'
    <3>1. x \in attempts /\ x.at \in Nat /\ x.at >= clock - Window
      BY <1>0, <1>2, <2>3 DEF RecordedInv
    <3>2. x \in Since(attempts, req[r].now)
      BY <1>0, <2>1, <3>1 DEF Since
    <3>. QED  BY <1>2, <3>2 DEF LetsThrough
  <2>. QED  BY <1>2, <2>2, <2>3 DEF RecordedInv, LetsThrough
<1>. QED  BY <1>1, <1>2, StepTries

(* Whoever is let through was counted with all the others of the window.   *)
LEMMA WindowStep ==
  ASSUME IInv, [Next]_vars
  PROVE  WindowIsBounded'
<1>. DEFINE Stretch(b, t) == {x \in admitted : x.browser = b /\ x.at \in t .. t + Window - Latency}
<1>0. /\ RecordedInv /\ WindowIsBounded /\ Window \in Nat /\ Latency \in Nat /\ MaxTries \in Nat /\ clock \in Nat
      /\ attempts \subseteq admitted
      /\ \A x \in admitted : x.at \in Nat
      /\ slow \subseteq slow'
  BY ClockGoesOn, SlowStep, SessionsAssumption DEF IInv, FullType, TypeOK
<1>1. CASE admitted' = admitted
  BY <1>0, <1>1 DEF WindowIsBounded
<1>2. ASSUME NEW r \in Slot, LetsThrough(r), NEW b \in Browser, NEW t \in 0..MaxClock,
             <<b, "attempt">> \notin slow
      PROVE  Cardinality(Stretch(b, t)') <= MaxTries
  <2>1. /\ req[r].now \in Nat /\ req[r].now <= clock
        /\ <<req[r].browser, "attempt">> \notin slow => clock <= req[r].now + Latency
        /\ This(r).at = req[r].now /\ This(r).browser = req[r].browser
        /\ admitted' = admitted \cup {This(r)} /\ Cardinality(Mine(r)) < MaxTries
    BY <1>2 DEF LetsThrough, This, Attempt
  <2>2. CASE This(r) \notin Stretch(b, t)'
    <3>1. Stretch(b, t)' = Stretch(b, t)
      BY <2>1, <2>2
    <3>. QED  BY <1>0, <1>2, <3>1 DEF WindowIsBounded
  <2>3. CASE This(r) \in Stretch(b, t)'
    <3>1. b = req[r].browser /\ t <= req[r].now /\ req[r].now <= t + Window - Latency
      BY <1>0, <2>1, <2>3
    <3>2. Stretch(b, t) \subseteq Mine(r)
      <4>1. SUFFICES ASSUME NEW x \in Stretch(b, t) PROVE x \in Mine(r)
        OBVIOUS
      <4>2. x \in admitted /\ x.browser = b /\ x.at \in Nat /\ t <= x.at
        BY <1>0
      <4>3. x.at >= clock - Window /\ x.at >= req[r].now - Window
        BY <1>0, <1>2, <2>1, <3>1, <4>2
      <4>4. x \in attempts
        BY <1>0, <4>2, <4>3 DEF RecordedInv
      <4>. QED  BY <3>1, <4>2, <4>3, <4>4 DEF Mine, Since
    <3>3. IsFiniteSet(Mine(r)) /\ IsFiniteSet(Stretch(b, t))
      <4>1. Mine(r) \subseteq admitted /\ Stretch(b, t) \subseteq admitted
        BY <1>0 DEF Mine, Since
      <4>. QED  BY <1>0, <4>1, FS_Subset DEF RecordedInv
    <3>4. Stretch(b, t)' = Stretch(b, t) \cup {This(r)}
      BY <2>1, <2>3
    <3>5. /\ Cardinality(Stretch(b, t)) \in Nat /\ Cardinality(Mine(r)) \in Nat
          /\ Cardinality(Stretch(b, t)) <= Cardinality(Mine(r))
      BY <3>2, <3>3, FS_Subset, FS_CardinalityType
    <3>6. \/ Cardinality(Stretch(b, t) \cup {This(r)}) = Cardinality(Stretch(b, t))
          \/ Cardinality(Stretch(b, t) \cup {This(r)}) = Cardinality(Stretch(b, t)) + 1
      BY <3>3, FS_AddElement
    <3>. HIDE DEF Stretch
    <3>. QED  BY <1>0, <2>1, <3>4, <3>5, <3>6
  <2>. QED  BY <2>2, <2>3
<1>3. CASE \E r \in Slot : LetsThrough(r)
  BY <1>0, <1>2, <1>3 DEF WindowIsBounded
<1>. QED  BY <1>1, <1>3, StepTries DEF Prunes

-----------------------------------------------------------------------------
(* The types. *)
LEMMA TypeStep ==
  ASSUME IInv, [Next]_vars
  PROVE  FullType'
<1>0. /\ FullType /\ TypeOK /\ OneRow /\ req \in [Slot -> RequestType] /\ rows \subseteq Row
      /\ clock \in Nat /\ jar \in [Browser -> Carried]
      /\ sends \in 0..MaxSends /\ faults \in 0..MaxFaults /\ MaxFaults \in Nat
  <2>1. FullType /\ TypeOK /\ OneRow /\ req \in [Slot -> RequestType]
    BY DEF IInv, FullType
  <2>. QED  BY <2>1, SessionsAssumption DEF TypeOK, Carried
<1>old. ASSUME NEW q \in Slot
      PROVE  /\ req[q].began \in 0..clock /\ req[q].now \in 0..clock
             /\ req[q].at # "idle" => req[q].browser \in Browser
             /\ req[q].at \in {"rotate", "touch", "destroy"} => req[q].id \in Identifier
  BY <1>0 DEF TypeOK, FullType, At
<1>. DEFINE Kept(q) == /\ req'[q].began \in 0..clock' /\ req'[q].now \in 0..clock'
                       /\ req'[q].at # "idle" => req'[q].browser \in Browser
                       /\ req'[q].at \in {"rotate", "touch", "destroy"} => req'[q].id \in Identifier
<1>1. clock' \in 0..MaxClock /\ clock <= clock' /\ clock' \in Nat
  BY ClockGoesOn, SessionsAssumption
<1>2. attempts' \subseteq admitted' /\ admitted' \subseteq Attempt
  BY AttemptsStep
<1>3. ASSUME NEW q \in Slot, req'[q] = req[q]
      PROVE  Kept(q)
  <2>1. 0..clock \subseteq 0..clock'
    BY <1>0, <1>1
  <2>2. req[q].began \in 0..clock' /\ req[q].now \in 0..clock'
    BY <1>old, <2>1
  <2>. QED  BY <1>old, <1>3, <2>2
<1>4. ASSUME /\ req' \in [Slot -> RequestType] /\ \A q \in Slot : Kept(q)
             /\ rows' \subseteq Row /\ jar' \in [Browser -> Carried]
             /\ sends' \in 0..MaxSends /\ faults' \in 0..MaxFaults
      PROVE  FullType'
  <2>1. \A q \in Slot : /\ req'[q].ask \in Asks \cup {NoRequest.ask}
                         /\ {req'[q].cookie, req'[q].id, req'[q].answer.id} \subseteq Identifier \cup {None}
    BY <1>4 DEF RequestType, AnswerType, Carried
  <2>. QED  BY <1>0, <1>1, <1>2, <1>4, <2>1, SlowStep DEF FullType, TypeOK, At, Attempt, Carried
<1>5. ASSUME NEW r \in Slot, Serve(r)
      PROVE  FullType'
  <2>1. Moves(r) /\ clock' = clock /\ jar' = jar /\ sends' = sends
    BY <1>0, <1>5, ServeMoves
  <2>2. /\ req' \in [Slot -> RequestType] /\ \A q \in Slot \ {r} : req'[q] = req[q]
        /\ req'[r].began \in {req[r].began, clock} /\ req'[r].browser = req[r].browser
        /\ req[r].at # "idle"
    BY <2>1 DEF Moves, Gone, SameStart
  <2>3. Kept(r)
    <3>1. req'[r].began \in 0..clock' /\ req'[r].browser \in Browser
      BY <1>0, <1>old, <2>1, <2>2
    <3>2. req'[r].now \in 0..clock' /\ (req'[r].at \in {"rotate", "touch", "destroy"} => req'[r].id \in Identifier)
      BY <2>1 DEF Moves
    <3>. QED  BY <3>1, <3>2
  <2>4. rows' \subseteq Row
    BY <1>5, ServeRows DEF RowsKept, RowAdded
  <2>5. faults' \in 0..MaxFaults
    BY <1>0, <1>5
    DEF Serve, ReadClock, Find, Destroy, Rotate, Touch, SignOut, Revoke, Admit, Authenticate,
        ApplyPolicy, StartSession, StatementFails
  <2>. HIDE DEF Kept
  <2>. QED  BY <1>0, <1>3, <1>4, <2>1, <2>2, <2>3, <2>4, <2>5
<1>6. ASSUME NEW r \in Slot, Deliver(r)
      PROVE  FullType'
  <2>1. /\ req' \in [Slot -> RequestType] /\ \A q \in Slot \ {r} : req'[q] = req[q]
        /\ req'[r] = NoRequest /\ jar' \in [Browser -> Carried]
    BY <1>0, <1>6, DeliverMoves
  <2>2. rows' = rows /\ sends' = sends /\ faults' = faults
    BY <1>6 DEF Deliver
  <2>3. Kept(r)
    BY <1>1, <2>1 DEF NoRequest
  <2>. HIDE DEF Kept
  <2>. QED  BY <1>0, <1>3, <1>4, <2>1, <2>2, <2>3
<1>7. ASSUME NEW r \in Slot, NEW b \in Browser, NEW a \in Asks, Send(r, b, a)
      PROVE  FullType'
  <2>1. /\ req' \in [Slot -> RequestType] /\ \A q \in Slot \ {r} : req'[q] = req[q]
        /\ req'[r].at \in {"admit", "load"} /\ req'[r].browser = b
        /\ req'[r].began = clock /\ req'[r].now = 0 /\ sends' \in 0..MaxSends
    BY <1>0, <1>7, SendMoves
  <2>2. rows' = rows /\ jar' = jar /\ faults' = faults
    BY <1>7 DEF Send
  <2>3. Kept(r)
    BY <1>0, <1>1, <2>1
  <2>. HIDE DEF Kept
  <2>. QED  BY <1>0, <1>3, <1>4, <2>1, <2>2, <2>3
<1>8. CASE Cleanup \/ Tick \/ UNCHANGED vars
  <2>1. req' = req /\ jar' = jar /\ sends' = sends /\ faults' = faults
    BY <1>8 DEF Cleanup, Tick, vars
  <2>2. rows' \subseteq rows
    BY <1>8 DEF Cleanup, Tick, vars
  <2>. HIDE DEF Kept
  <2>. QED  BY <1>0, <1>3, <1>4, <2>1, <2>2
<1>. QED  BY <1>5, <1>6, <1>7, <1>8 DEF Next

(* What a step does to the sessions.                                       *)
LEMMA StepRows ==
  ASSUME IInv, [Next]_vars
  PROVE  RowsKept \/ \E r \in Slot : RowAdded(r)
<1>0. OneRow /\ rows \subseteq Row
  BY DEF IInv, FullType, TypeOK
<1>1. CASE \E r \in Slot : Serve(r)
  BY <1>1, ServeRows
<1>2. CASE Cleanup
  BY <1>0, <1>2, RowsLeft DEF Cleanup
<1>3. ASSUME UNCHANGED rows
      PROVE  RowsKept
  BY <1>0, <1>3, RowsLeft
<1>4. CASE Tick \/ UNCHANGED vars
  BY <1>3, <1>4 DEF Tick, vars
<1>5. ASSUME NEW r \in Slot, Deliver(r)
      PROVE  RowsKept
  BY <1>3, <1>5 DEF Deliver
<1>6. ASSUME NEW r \in Slot, NEW b \in Browser, NEW a \in Asks, Send(r, b, a)
      PROVE  RowsKept
  BY <1>3, <1>6 DEF Send
<1>. QED  BY <1>1, <1>2, <1>4, <1>5, <1>6 DEF Next

-----------------------------------------------------------------------------
LEMMA InitInv ==
  ASSUME Init
  PROVE  IInv
<1>0. /\ MaxClock \in Nat /\ MaxSends \in Nat /\ MaxFaults \in Nat /\ MaxTries \in Nat /\ Latency \in Nat
      /\ FirstRows \subseteq Row
  BY SessionsAssumption
<1>1. NoRequest \in RequestType
  <2>1. NoRequest.ask = [kind |-> "page"]
    BY DEF NoRequest
  <2>. QED  BY <1>0, <2>1 DEF NoRequest, RequestType, Place, AnswerType, Carried, Keep
<1>2. \A r \in Slot : req[r] = NoRequest /\ req[r].at = "idle" /\ req[r].began = 0 /\ req[r].now = 0
  BY DEF Init, NoRequest
<1>3. FullType
  <2>1. req \in [Slot -> RequestType]
    BY <1>1 DEF Init
  <2>2. jar \in [Browser -> Identifier \cup {None}]
    <3>1. {x.id : x \in FirstRows} \subseteq Identifier
      BY <1>0 DEF Row
    <3>. QED  BY <3>1, SessionsAssumption DEF Init
  <2>3. \A r \in Slot : /\ req[r].ask \in Asks \cup {NoRequest.ask}
                         /\ {req[r].cookie, req[r].id, req[r].answer.id} \subseteq Identifier \cup {None}
    BY <2>1 DEF RequestType, AnswerType, Carried
  <2>4. /\ clock = 0 /\ rows = FirstRows /\ attempts = {} /\ admitted = {} /\ sends = 0 /\ faults = 0
        /\ slow = {}
    BY DEF Init
  <2>5. TypeOK
    BY <1>0, <1>2, <2>2, <2>3, <2>4 DEF TypeOK, At
  <2>. QED  BY <1>2, <2>1, <2>5 DEF FullType
<1>4. OneRow
  BY SessionsAssumption DEF Init, OneRow
<1>5. FreshInv
  <2>1. Cardinality(FirstRows) \in Nat
    BY FS_CardinalityType, SessionsAssumption
  <2>. QED  BY <1>2, <2>1, SessionsAssumption DEF Init, FreshInv, SigningIn
<1>6. ClockInv
  BY <1>2 DEF ClockInv, At
<1>7. RecordedInv
  BY FS_EmptySet DEF Init, RecordedInv
<1>8. WindowIsBounded
  <2>1. \A b, t : {x \in admitted : x.browser = b /\ x.at \in t .. t + Window - Latency} = {}
    BY DEF Init
  <2>2. Cardinality({}) = 0 /\ 0 <= MaxTries
    BY <1>0, FS_EmptySet
  <2>. QED  BY <2>1, <2>2 DEF WindowIsBounded
<1>. QED  BY <1>3, <1>4, <1>5, <1>6, <1>7, <1>8 DEF IInv

LEMMA NextInv ==
  ASSUME IInv, [Next]_vars
  PROVE  IInv'
<1>1. OneRow'
  BY StepRows DEF RowsKept, RowAdded
<1>. QED  BY <1>1, TypeStep, FreshStep, TimesStep, RecordedStep, WindowStep DEF IInv

(* Every state the program reaches satisfies the invariant.                *)
THEOREM Invariance == Spec => []IInv
<1>1. Init => IInv
  BY InitInv
<1>2. IInv /\ [Next]_vars => IInv'
  BY NextInv
<1>. QED  BY <1>1, <1>2, PTL DEF Spec

(* However many logins of one address are counted at once, the attempts    *)
(* let through in a window, less the time a request takes, are no more     *)
(* than allowed (auth/ratelimit.go Allow, store/loginattempt.go Record).   *)
THEOREM AttemptsAreBounded == Spec => []WindowIsBounded
<1>1. IInv => WindowIsBounded
  BY DEF IInv
<1>. QED  BY <1>1, Invariance, PTL

(* Whatever requests were in the middle of loading it, a session that      *)
(* ended is never there again, and no session has two rows                 *)
(* (store/session.go Regenerate, Touch).                                   *)
THEOREM SessionsStayEnded == Spec => EndedStaysEnded
<1>1. ASSUME IInv, [Next]_vars
      PROVE  /\ Numbers(rows') \ Numbers(rows) # {} => \E r \in Slot : At(r, "start")
             /\ \A x, y \in rows' : x.id.session = y.id.session => x = y
  <2>1. OneRow'
    BY <1>1, StepRows DEF RowsKept, RowAdded
  <2>2. Numbers(rows') \ Numbers(rows) # {} => \E r \in Slot : At(r, "start")
    BY <1>1, StepRows DEF RowsKept, RowAdded
  <2>. QED  BY <2>1, <2>2 DEF OneRow
<1>. QED  BY <1>1, Invariance, PTL DEF Spec, EndedStaysEnded

-----------------------------------------------------------------------------
(* Who carries an identifier of a session: an inductive invariant of its   *)
(* own.  A request is slow by a threshold of less than half of both        *)
(* intervals, and at first a cookie is in one browser only.                *)
Patient ==
  /\ RotateInterval > 2 * Latency /\ Grace > 2 * Latency
  /\ \A b, c \in Browser : FirstJar[b] = FirstJar[c] /\ FirstJar[b] # None => b = c

(* A browser that was never slow in what concerns its session.             *)
Prompt(b) == <<b, "session">> \notin slow

Finding   == {"load", "find", "rotate"}
Answering == {"signOut", "revoke", "answer"}
Answers   == {Keep, Clear} \cup {SetTo(i) : i \in Identifier}

(* A request that looks for its session has a cookie, and an answer is     *)
(* decided once the session is found.                                      *)
Shaped(r) ==
  /\ req[r].at \in Finding => req[r].cookie \in Identifier
  /\ req[r].at = "rotate" => req[r].id = req[r].cookie
  /\ req[r].answer \in Answers
  /\ req[r].at \notin Answering => req[r].answer = Keep

InJar(b, n)  == jar[b] # None /\ jar[b].session = n
Brings(r, n) == req[r].at \in Finding /\ req[r].cookie.session = n
Takes(r, n)  == req[r].answer.does = "set" /\ req[r].answer.id.session = n
Carries(b, n) ==
  InJar(b, n) \/ \E r \in Slot : req[r].browser = b /\ (Brings(r, n) \/ Takes(r, n))

(* One browser carries a session, and none one that is still to be made.   *)
CarriedInv ==
  \A b \in Browser, n \in Nat : Carries(b, n) =>
    /\ n <= Cardinality(FirstRows) + sends
    /\ \A r \in Slot : req[r].at \in SigningIn => n # Promised(r)
    /\ \A c \in Browser : Carries(c, n) => b = c

InTime(r) == clock <= req[r].began + Latency

(* A prompt browser's requests look for their session in time, and what is *)
(* answered with a new cookie is.                                          *)
PromptInv ==
  \A r \in Slot :
    /\ req[r].at \in Finding \/ req[r].answer.does = "set"
    /\ Prompt(req[r].browser)
    => InTime(r)

(* The answer to the request that rotated a session is on its way.         *)
Pending(r, b, x) ==
  /\ req[r].browser = b /\ req[r].began <= x.rotatedAt /\ InTime(r)
  /\ req[r].at \in Answering
  /\ req[r].answer = SetTo(x.id) \/ (req[r].at = "answer" /\ req[r].answer = Clear)

(* What a prompt browser carries of a session names it, if only for the    *)
(* grace.                                                                  *)
JarNames(b, x) ==
  InJar(b, x.id.session) /\ Prompt(b) =>
    \/ jar[b] = x.id
    \/ /\ jar[b] = x.previous /\ x.regeneratedAt = x.rotatedAt
       /\ \E r \in Slot : Pending(r, b, x)

CookieNames(r, x) ==
  Brings(r, x.id.session) /\ Prompt(req[r].browser) =>
    \/ req[r].cookie = x.id
    \/ /\ req[r].cookie = x.previous /\ x.regeneratedAt = x.rotatedAt
       /\ req[r].began <= x.rotatedAt + Latency

AnswerNames(r, x) ==
  Takes(r, x.id.session) /\ Prompt(req[r].browser) =>
    req[r].answer.id = x.id /\ req[r].began <= x.regeneratedAt

(* A rotation is due for the row it was found due for. *)
RotationDue(r, x) ==
  At(r, "rotate") /\ req[r].id = x.id /\ Prompt(req[r].browser) =>
    req[r].now - x.regeneratedAt >= RotateInterval

WellNamed(x) ==
  /\ \A b \in Browser : JarNames(b, x)
  /\ \A r \in Slot : CookieNames(r, x) /\ AnswerNames(r, x) /\ RotationDue(r, x)

NamesInv == \A x \in rows : WellNamed(x)

OverlapInv ==
  Patient /\ IInv /\ (\A r \in Slot : Shaped(r)) /\ PromptInv /\ CarriedInv /\ NamesInv

-----------------------------------------------------------------------------
(* What a step of the server does to what is carried. *)

SameNames ==
  \A y \in rows' : \E x \in rows :
    /\ y.id = x.id /\ y.previous = x.previous
    /\ y.rotatedAt = x.rotatedAt /\ y.regeneratedAt = x.regeneratedAt

Quiet(r) ==
  /\ req[r].at \notin {"idle", "answer"}
  /\ SameNames /\ SameStart(r)
  /\ req'[r].at \in Finding => req[r].at \in Finding /\ req'[r].cookie = req[r].cookie
  /\ req'[r].at = "rotate" =>
       /\ req'[r].id = req[r].cookie
       /\ \E x \in rows : x.id = req[r].cookie /\ req'[r].now - x.regeneratedAt >= RotateInterval
  /\ req'[r].answer \in {Keep, Clear, req[r].answer}
  /\ req'[r].at \notin Answering => req'[r].answer = req[r].answer
  /\ req[r].at \in Answering => req'[r].at = "answer" /\ req'[r].answer \in {req[r].answer, Clear}

Rotates(r) ==
  \E x \in rows, y \in Row :
    /\ At(r, "rotate") /\ x.id = req[r].id /\ SameStart(r)
    /\ rows' = (rows \ {x}) \cup {y}
    /\ y.id.session = x.id.session /\ y.id # x.id /\ y.previous = x.id
    /\ y.rotatedAt = req[r].now /\ y.regeneratedAt = req[r].now
    /\ req'[r].at \in Answering /\ req'[r].answer = SetTo(y.id)

Starts(r) ==
  \E y \in Row :
    /\ At(r, "start")
    /\ rows' = rows \cup {y}
    /\ y.id.session = Promised(r) /\ y.regeneratedAt = clock
    /\ req'[r].at = "answer" /\ req'[r].answer = SetTo(y.id) /\ req'[r].began = clock

LEMMA FewerRows == ASSUME rows' \subseteq rows PROVE SameNames
BY DEF SameNames

LEMMA ServeCarries ==
  ASSUME OverlapInv, NEW r \in Slot, Serve(r)
  PROVE  Quiet(r) \/ Rotates(r) \/ Starts(r)
<1>0. /\ IInv /\ FullType /\ TypeOK /\ OneRow /\ rows \subseteq Row
      /\ req \in [Slot -> RequestType] /\ req[r] \in RequestType
      /\ clock \in 0..MaxClock /\ MaxClock \in Nat /\ req[r].now \in 0..MaxClock
      /\ Shaped(r)
  BY SessionsAssumption DEF OverlapInv, IInv, FullType, TypeOK, RequestType
<1>1. /\ Keep \in AnswerType /\ Clear \in AnswerType /\ req[r].answer \in AnswerType
      /\ \A i \in Identifier : SetTo(i) \in AnswerType
  BY <1>0 DEF Keep, Clear, SetTo, AnswerType, Carried, RequestType
<1>2. ASSUME NEW a \in {Keep, Clear, req[r].answer}, Answer(r, a), SameNames,
             req[r].at \notin {"idle", "answer"},
             req[r].at \in Answering => a \in {req[r].answer, Clear}
      PROVE  Quiet(r)
  <2>1. req'[r].at = "answer" /\ req'[r].answer = a /\ SameStart(r)
    BY <1>0, <1>1, <1>2, AnswerShape DEF Gone
  <2>. QED  BY <1>2, <2>1 DEF Quiet, Finding, Answering
<1>3. ASSUME NEW a \in AnswerType, NEW i, Handle(r, i, a)
      PROVE  req'[r].at \in Answering /\ req'[r].answer = a /\ SameStart(r)
  <2>1. CASE Answer(r, a)
    BY <1>0, <2>1, AnswerShape DEF Gone, Answering
  <2>2. CASE /\ req[r].ask.kind \in {"signOut", "revoke"}
             /\ req' = [req EXCEPT ![r].at = req[r].ask.kind, ![r].id = i, ![r].answer = a]
    BY <1>0, <2>2 DEF RequestType, Answering, SameStart
  <2>. QED  BY <1>3, <2>1, <2>2 DEF Handle
<1>4. ASSUME NEW p, Goto(r, p), SameNames, p \notin Finding \cup Answering,
             req[r].at \notin {"idle"} \cup Answering
      PROVE  Quiet(r)
  <2>1. req'[r].at = p /\ req'[r].answer = req[r].answer /\ SameStart(r)
    BY <1>0, <1>4 DEF Goto, RequestType, SameStart
  <2>. QED  BY <1>4, <2>1 DEF Quiet, Finding, Answering
<1>5. CASE ReadClock(r)
  <2>1. SameNames
    BY <1>5, FewerRows DEF ReadClock
  <2>2. CASE At(r, "load") /\ req' = [req EXCEPT ![r].at = "find", ![r].now = clock]
    <3>1. /\ req'[r].at = "find" /\ req'[r].answer = req[r].answer
          /\ req'[r].cookie = req[r].cookie /\ req[r].at = "load" /\ SameStart(r)
      BY <1>0, <2>2 DEF RequestType, At, SameStart
    <3>. QED  BY <2>1, <3>1 DEF Quiet, Finding, Answering
  <2>3. CASE At(r, "admit") /\ req' = [req EXCEPT ![r].at = "count", ![r].now = clock]
    <3>1. req'[r].at = "count" /\ req'[r].answer = req[r].answer /\ req[r].at = "admit" /\ SameStart(r)
      BY <1>0, <2>3 DEF RequestType, At, SameStart
    <3>. QED  BY <2>1, <3>1 DEF Quiet, Finding, Answering
  <2>. QED  BY <1>5, <2>2, <2>3 DEF ReadClock
<1>6. CASE Find(r)
  <2>1. SameNames /\ req[r].at = "find"
    BY <1>6, FewerRows DEF Find, At
  <2>2. ASSUME NEW x \in Named(req[r].cookie, req[r].now),
               req' = [req EXCEPT ![r].at = Verdict(r, x), ![r].id = x.id]
        PROVE  Quiet(r)
    <3>1. /\ req'[r].at = Verdict(r, x) /\ req'[r].id = x.id
          /\ req'[r].answer = req[r].answer /\ req'[r].cookie = req[r].cookie /\ req'[r].now = req[r].now
          /\ SameStart(r)
      BY <1>0, <2>2 DEF RequestType, SameStart
    <3>2. Verdict(r, x) \in {"destroy", "rotate", "touch"}
      BY DEF Verdict
    <3>3. Verdict(r, x) = "rotate" => x.id = req[r].cookie /\ req[r].now - x.regeneratedAt >= RotateInterval
      BY DEF Verdict
    <3>4. x \in rows
      BY DEF Named
    <3>. QED  BY <2>1, <3>1, <3>2, <3>3, <3>4 DEF Quiet, Finding, Answering
  <2>3. CASE Answer(r, Clear)
    BY <1>2, <2>1, <2>3
  <2>. QED  BY <1>6, <2>2, <2>3 DEF Find
<1>7. CASE Destroy(r)
  BY <1>2, <1>7, FewerRows DEF Destroy, At
<1>8. CASE Rotate(r)
  <2>1. At(r, "rotate") /\ req[r].at = "rotate" /\ req[r].answer = Keep
    BY <1>0, <1>8 DEF Rotate, At, Shaped, Answering
  <2>2. CASE WithId(req[r].id) = {}
    <3>1. rows' = rows /\ Handle(r, req[r].id, Keep)
      BY <1>8, <2>2 DEF Rotate
    <3>2. req'[r].at \in Answering /\ req'[r].answer = Keep /\ SameStart(r)
      BY <1>1, <1>3, <3>1
    <3>. QED  BY <2>1, <3>1, <3>2, FewerRows DEF Quiet, Finding, Answering
  <2>3. ASSUME NEW x \in WithId(req[r].id)
        PROVE  Rotates(r)
    <3>1. x \in rows /\ x \in Row /\ x.id = req[r].id /\ x.id \in Identifier
      BY <1>0 DEF WithId, Row
    <3>2. WithId(req[r].id) = {x}
      BY <1>0, <3>1 DEF WithId, OneRow
    <3>. DEFINE y == Rotated(x, req[r].now)
    <3>3. [x.id EXCEPT !.serial = @ + 1] \in Identifier
          /\ [x.id EXCEPT !.serial = @ + 1].session = x.id.session
          /\ [x.id EXCEPT !.serial = @ + 1].serial # x.id.serial
      BY <3>1 DEF Identifier
    <3>4. y = [x EXCEPT !.id = [x.id EXCEPT !.serial = @ + 1], !.previous = x.id,
                 !.rotatedAt = req[r].now, !.regeneratedAt = req[r].now, !.lastActive = req[r].now]
      BY <3>1 DEF Rotated, Row
    <3>5. req[r].now \in Time
      BY <1>0 DEF Time
    <3>6. /\ y \in Row /\ y.id = [x.id EXCEPT !.serial = @ + 1] /\ y.previous = x.id
          /\ y.rotatedAt = req[r].now /\ y.regeneratedAt = req[r].now
      <4>. HIDE DEF y
      <4>. QED  BY <3>1, <3>3, <3>4, <3>5 DEF Row
    <3>7. rows' = (rows \ {x}) \cup {y} /\ Handle(r, y.id, SetTo(y.id))
      BY <1>8, <3>2 DEF Rotate
    <3>. HIDE DEF y
    <3>8. y.id \in Identifier
      BY <3>3, <3>6
    <3>9. req'[r].at \in Answering /\ req'[r].answer = SetTo(y.id) /\ SameStart(r)
      BY <1>1, <1>3, <3>7, <3>8
    <3>. QED  BY <2>1, <3>1, <3>3, <3>6, <3>7, <3>9 DEF Rotates
  <2>. QED  BY <2>2, <2>3
<1>9. CASE Touch(r)
  <2>1. req[r].at = "touch"
    BY <1>9 DEF Touch, At
  <2>2. SameNames
    <3>1. rows' = (rows \ WithId(req[r].id)) \cup {[x EXCEPT !.lastActive = req[r].now] : x \in WithId(req[r].id)}
      BY <1>9 DEF Touch
    <3>2. \A x \in rows : LET y == [x EXCEPT !.lastActive = req[r].now] IN
            /\ y.id = x.id /\ y.previous = x.previous
            /\ y.rotatedAt = x.rotatedAt /\ y.regeneratedAt = x.regeneratedAt
      BY <1>0 DEF Row
    <3>3. ASSUME NEW y \in rows'
          PROVE  \E x \in rows : y = x \/ y = [x EXCEPT !.lastActive = req[r].now]
      BY <3>1 DEF WithId
    <3>. QED  BY <3>2, <3>3 DEF SameNames
  <2>3. CASE Handle(r, req[r].id, Keep)
    <3>1. req'[r].at \in Answering /\ req'[r].answer = Keep /\ SameStart(r)
      BY <1>1, <1>3, <2>3
    <3>. QED  BY <2>1, <2>2, <3>1 DEF Quiet, Finding, Answering
  <2>4. CASE Done(r)
    BY <1>2, <2>1, <2>2, <2>4 DEF Done
  <2>. QED  BY <1>9, <2>3, <2>4 DEF Touch
<1>10. CASE SignOut(r)
  BY <1>2, <1>10, FewerRows DEF SignOut, At
<1>11. CASE Revoke(r)
  BY <1>2, <1>11, FewerRows DEF Revoke, Done, At
<1>12. CASE Admit(r) \/ Authenticate(r) \/ ApplyPolicy(r)
  <2>1. SameNames /\ req[r].at \in {"count", "verify", "policy"}
    BY <1>12, FewerRows DEF Admit, Authenticate, ApplyPolicy, At
  <2>2. Done(r) \/ \E p \in {"verify", "policy", "start"} : Goto(r, p)
    BY <1>12 DEF Admit, Authenticate, ApplyPolicy
  <2>3. CASE Done(r)
    BY <1>2, <2>1, <2>3 DEF Done
  <2>4. CASE \E p \in {"verify", "policy", "start"} : Goto(r, p)
    BY <1>4, <2>1, <2>4 DEF Finding, Answering
  <2>. QED  BY <2>2, <2>3, <2>4
<1>13. CASE StartSession(r)
  <2>. DEFINE new == [id |-> [session |-> Promised(r), serial |-> 0], previous |-> None,
                      account |-> AccountOf[req[r].browser], rotatedAt |-> 0,
                      regeneratedAt |-> clock, lastActive |-> clock, createdAt |-> clock]
  <2>1. At(r, "start") /\ rows' = rows \cup {new} /\ Opens(r, new.id)
    BY <1>13 DEF StartSession, Promised, Opens
  <2>2. Promised(r) \in Nat
    BY <1>0, FS_CardinalityType, SessionsAssumption DEF Promised, RequestType
  <2>3. AccountOf[req[r].browser] \in Account
    BY <1>0, <2>1, SessionsAssumption DEF TypeOK, At
  <2>4. new \in Row /\ new.id.session = Promised(r) /\ new.regeneratedAt = clock /\ new.id \in Identifier
    BY <1>0, <2>2, <2>3 DEF Row, Identifier, Time
  <2>. HIDE DEF new
  <2>5. req'[r].at = "answer" /\ req'[r].answer = SetTo(new.id) /\ req'[r].began = clock
    BY <1>0, <2>1, <2>4, OpenShape DEF Gone
  <2>. QED  BY <2>1, <2>4, <2>5 DEF Starts
<1>14. CASE StatementFails(r)
  <2>1. SameNames
    BY <1>14, FewerRows DEF StatementFails
  <2>2. CASE \E p \in {"find", "destroy", "signOut"} : At(r, p) /\ Answer(r, Clear)
    BY <1>2, <2>1, <2>2 DEF At
  <2>3. CASE \E p \in {"rotate", "touch", "revoke", "count", "start"} : At(r, p) /\ Done(r)
    BY <1>2, <2>1, <2>3 DEF At, Done
  <2>. QED  BY <1>14, <2>2, <2>3 DEF StatementFails
<1>. QED
  BY <1>5, <1>6, <1>7, <1>8, <1>9, <1>10, <1>11, <1>12, <1>13, <1>14 DEF Serve

-----------------------------------------------------------------------------
(* The steps, in what they mean for what is carried. *)

Others(r) == \A q \in Slot \ {r} : req'[q] = req[q]

Served(r) ==
  /\ req[r].at # "idle" /\ req[r].browser \in Browser
  /\ Others(r) /\ req'[r].browser = req[r].browser
  /\ req'[r].at \in SigningIn => req[r].at \in SigningIn /\ req'[r].no = req[r].no
  /\ UNCHANGED <<clock, jar, sends, slow>>
  /\ Quiet(r) \/ Rotates(r) \/ Starts(r)

Delivers(r) ==
  /\ req[r].at = "answer" /\ req[r].browser \in Browser
  /\ Others(r) /\ req'[r] = NoRequest
  /\ jar' = [jar EXCEPT ![req[r].browser] = IF req[r].answer = Keep THEN @ ELSE req[r].answer.id]
  /\ UNCHANGED <<clock, rows, sends, slow>>

Sends(r, b) ==
  /\ req[r].at = "idle" /\ Others(r)
  /\ req'[r].at \in {"load", "admit"} /\ req'[r].browser = b /\ req'[r].began = clock
  /\ req'[r].cookie = jar[b] /\ req'[r].answer = Keep
  /\ req'[r].at = "load" => jar[b] # None
  /\ req'[r].at = "admit" => req'[r].no = sends + 1
  /\ sends' = sends + 1
  /\ UNCHANGED <<clock, rows, jar, slow>>

(* Time may go on: what is no longer in time makes its browser slow.       *)
Goes ==
  /\ UNCHANGED <<req, jar, sends>> /\ rows' \subseteq rows /\ slow \subseteq slow'
  /\ \A r \in Slot :
       InTime(r) /\ Hurries(r) /\ Errand(r) = "session" /\ Prompt(req[r].browser)' => InTime(r)'

LEMMA AnswersDiffer ==
  /\ Keep # Clear /\ Keep.does # "set" /\ Clear.does # "set" /\ Clear.id = None
  /\ \A i : SetTo(i).does = "set" /\ SetTo(i).id = i /\ SetTo(i) # Keep /\ SetTo(i) # Clear
  /\ \A i, j : SetTo(i) = SetTo(j) => i = j
<1>1. Keep.does = "keep" /\ Clear.does = "clear" /\ Clear.id = None
  BY DEF Keep, Clear
<1>2. \A i : SetTo(i).does = "set" /\ SetTo(i).id = i
  BY DEF SetTo
<1>. QED  BY <1>1, <1>2

LEMMA StepForms ==
  ASSUME OverlapInv, [Next]_vars
  PROVE  \/ \E r \in Slot : Served(r) \/ Delivers(r) \/ \E b \in Browser : Sends(r, b)
         \/ Goes
<1>0. /\ IInv /\ FullType /\ TypeOK /\ req \in [Slot -> RequestType]
      /\ \A r \in Slot : /\ Shaped(r) /\ req[r].answer \in Answers
                         /\ req[r].at # "idle" => req[r].browser \in Browser
  BY DEF OverlapInv, IInv, FullType, TypeOK, At, Shaped
<1>1. ASSUME NEW r \in Slot, Serve(r)
      PROVE  Served(r)
  <2>1. Moves(r) /\ UNCHANGED <<clock, jar, sends, slow>>
    BY <1>0, <1>1, ServeMoves
  <2>. QED  BY <1>0, <1>1, <2>1, ServeCarries DEF Served, Moves, Gone, Others
<1>2. ASSUME NEW r \in Slot, Deliver(r)
      PROVE  Delivers(r)
  <2>1. Others(r) /\ req'[r] = NoRequest
    BY <1>0, <1>2, DeliverMoves DEF Others
  <2>2. req[r].at = "answer" /\ req[r].browser \in Browser
    BY <1>0, <1>2 DEF Deliver, At
  <2>3. req[r].answer.does = "keep" <=> req[r].answer = Keep
    BY <1>0 DEF Answers, Keep, Clear, SetTo
  <2>. QED  BY <1>2, <2>1, <2>2, <2>3 DEF Delivers, Deliver
<1>3. ASSUME NEW r \in Slot, NEW b \in Browser, NEW a \in Asks, Send(r, b, a)
      PROVE  Sends(r, b)
  <2>1. /\ \A q \in Slot \ {r} : req'[q] = req[q]
        /\ req'[r].at \in {"admit", "load"} /\ req'[r].browser = b /\ req'[r].began = clock
        /\ req'[r].at = "admit" => req'[r].no = sends + 1
        /\ sends' = sends + 1
    BY <1>0, <1>3, SendMoves
  <2>. DEFINE at == IF a.kind = "signIn" THEN "admit" ELSE "load"
              no == IF a.kind = "signIn" THEN sends + 1 ELSE 0
              new == [NoRequest EXCEPT !.at = at, !.no = no, !.ask = a, !.browser = b,
                                       !.cookie = jar[b], !.began = clock]
  <2>2. req'[r] = new
    BY <1>0, <1>3 DEF Send
  <2>3. new.cookie = jar[b] /\ new.answer = Keep /\ new.at = at
    BY DEF NoRequest
  <2>4. a.kind = "signIn" \/ jar[b] # None
    BY <1>3 DEF Send
  <2>. HIDE DEF new
  <2>5. req'[r].at = "load" => jar[b] # None
    BY <2>2, <2>3, <2>4
  <2>6. UNCHANGED <<clock, rows, jar, slow>> /\ req[r].at = "idle"
    BY <1>3 DEF Send, At
  <2>. QED  BY <2>1, <2>2, <2>3, <2>5, <2>6 DEF Sends, Others
<1>4. CASE Cleanup \/ UNCHANGED vars
  BY <1>4 DEF Cleanup, vars, Goes, InTime
<1>5. CASE Tick
  <2>1. UNCHANGED <<req, jar, sends, rows>> /\ clock' = clock + 1
    BY <1>5 DEF Tick
  <2>2. slow' = slow \cup {<<req[r].browser, Errand(r)>> :
                             r \in {q \in Slot : Hurries(q) /\ clock >= req[q].began + Latency}}
    BY <1>5 DEF Tick
  <2>3. ASSUME NEW r \in Slot, InTime(r), Hurries(r), Errand(r) = "session", Prompt(req[r].browser)'
        PROVE  InTime(r)'
    <3>1. ~ (clock >= req[r].began + Latency)
      BY <2>1, <2>2, <2>3 DEF Prompt
    <3>2. clock \in Nat /\ req[r].began \in Nat /\ Latency \in Nat
      BY <1>0, SessionsAssumption DEF TypeOK, RequestType
    <3>. QED  BY <2>1, <3>1, <3>2 DEF InTime
  <2>. QED  BY <2>1, <2>2, <2>3 DEF Goes
<1>. QED  BY <1>1, <1>2, <1>3, <1>4, <1>5 DEF Next

LEMMA ShapedStep ==
  ASSUME OverlapInv, [Next]_vars, NEW q \in Slot
  PROVE  Shaped(q)'
<1>0. /\ Shaped(q) /\ jar \in [Browser -> Carried]
  BY DEF OverlapInv, IInv, FullType, TypeOK, Carried
<1>1. ASSUME req'[q] = req[q]
      PROVE  Shaped(q)'
  BY <1>0, <1>1 DEF Shaped
<1>2. CASE Served(q)
  <2>1. CASE Quiet(q)
    <3>1. req'[q].answer \in Answers
      BY <1>0, <2>1 DEF Quiet, Shaped, Answers
    <3>2. req'[q].at \notin Answering => req'[q].answer = Keep
      BY <1>0, <2>1 DEF Quiet, Shaped, Answering
    <3>3. req'[q].at \in Finding => req'[q].cookie \in Identifier
      BY <1>0, <2>1 DEF Quiet, Shaped
    <3>4. req'[q].at = "rotate" => req'[q].id = req'[q].cookie
      BY <2>1 DEF Quiet, Finding
    <3>. QED  BY <3>1, <3>2, <3>3, <3>4 DEF Shaped
  <2>2. CASE Rotates(q) \/ Starts(q)
    <3>1. PICK y \in Row : req'[q].at \in Answering /\ req'[q].answer = SetTo(y.id)
      BY <2>2 DEF Rotates, Starts, Answering
    <3>2. y.id \in Identifier
      BY DEF Row
    <3>. QED  BY <3>1, <3>2 DEF Shaped, Answers, Answering, Finding
  <2>. QED  BY <1>2, <2>1, <2>2 DEF Served
<1>3. CASE Delivers(q)
  BY <1>3 DEF Delivers, NoRequest, Shaped, Finding, Answers, Answering
<1>4. ASSUME NEW b \in Browser, Sends(q, b)
      PROVE  Shaped(q)'
  BY <1>0, <1>4 DEF Sends, Shaped, Finding, Answers, Answering, Carried
<1>5. CASE Goes
  BY <1>1, <1>5 DEF Goes
<1>6. CASE \E r \in Slot \ {q} : Served(r) \/ Delivers(r) \/ \E b \in Browser : Sends(r, b)
  BY <1>1, <1>6 DEF Served, Delivers, Sends, Others
<1>. QED  BY <1>2, <1>3, <1>4, <1>5, <1>6, StepForms

-----------------------------------------------------------------------------
(* Only a login hands out a number nobody carried. *)
LEMMA ServedCarry ==
  ASSUME OverlapInv, NEW r \in Slot, Served(r), NEW b \in Browser, NEW n \in Nat, Carries(b, n)'
  PROVE  Carries(b, n) \/ (Starts(r) /\ n = Promised(r) /\ b = req[r].browser)
<1>0. Shaped(r) /\ \A q \in Slot \ {r} : req'[q] = req[q]
  BY DEF OverlapInv, Served, Others
<1>1. CASE InJar(b, n)'
  BY <1>1 DEF InJar, Served, Carries
<1>2. ASSUME NEW q \in Slot \ {r}, req'[q].browser = b, Brings(q, n)' \/ Takes(q, n)'
      PROVE  Carries(b, n)
  BY <1>0, <1>2 DEF Brings, Takes, Carries
<1>3. CASE req'[r].browser = b /\ Brings(r, n)'
  <2>1. req[r].browser = b /\ Brings(r, n)
    <3>1. Quiet(r)
      BY <1>3 DEF Served, Rotates, Starts, Brings, Finding, Answering
    <3>. QED  BY <1>3, <3>1 DEF Served, Quiet, Brings
  <2>. QED  BY <2>1 DEF Carries
<1>4. CASE req'[r].browser = b /\ Takes(r, n)'
  <2>0. req[r].browser = b
    BY <1>4 DEF Served
  <2>1. CASE Quiet(r)
    <3>1. Takes(r, n)
      BY <1>4, <2>1, AnswersDiffer DEF Quiet, Takes
    <3>. QED  BY <2>0, <3>1 DEF Carries
  <2>2. CASE Rotates(r)
    <3>1. PICK x \in rows, y \in Row :
            /\ At(r, "rotate") /\ x.id = req[r].id /\ y.id.session = x.id.session
            /\ req'[r].answer = SetTo(y.id)
      BY <2>2 DEF Rotates
    <3>2. req[r].id = req[r].cookie
      BY <1>0, <3>1 DEF Shaped, At
    <3>3. Brings(r, n)
      BY <1>4, <3>1, <3>2, AnswersDiffer DEF Brings, Takes, At, Finding
    <3>. QED  BY <2>0, <3>3 DEF Carries
  <2>3. CASE Starts(r)
    BY <1>4, <2>0, <2>3, AnswersDiffer DEF Starts, Takes
  <2>. QED  BY <1>4, <2>1, <2>2, <2>3 DEF Served
<1>. QED  BY <1>1, <1>2, <1>3, <1>4 DEF Carries

LEMMA OthersCarry ==
  ASSUME OverlapInv, NEW b \in Browser, NEW n \in Nat, Carries(b, n)',
         \/ \E r \in Slot : Delivers(r) \/ \E c \in Browser : Sends(r, c)
         \/ Goes
  PROVE  Carries(b, n)
<1>0. jar \in [Browser -> Carried] /\ \A r \in Slot : Shaped(r)
  BY DEF OverlapInv, IInv, FullType, TypeOK, Carried
<1>1. ASSUME NEW r \in Slot, Delivers(r)
      PROVE  Carries(b, n)
  <2>1. ASSUME NEW q \in Slot, req'[q].browser = b, Brings(q, n)' \/ Takes(q, n)'
        PROVE  Carries(b, n)
    <3>1. q # r
      BY <1>1, <2>1 DEF Delivers, NoRequest, Brings, Takes, Finding, Keep
    <3>. QED  BY <1>1, <2>1, <3>1 DEF Delivers, Others, Brings, Takes, Carries
  <2>2. ASSUME InJar(b, n)', ~ InJar(b, n)
        PROVE  Carries(b, n)
    <3>1. b = req[r].browser /\ req[r].answer # Keep /\ jar'[b] = req[r].answer.id
      BY <1>0, <1>1, <2>2 DEF Delivers, InJar
    <3>2. PICK i \in Identifier : req[r].answer = SetTo(i)
      BY <1>0, <2>2, <3>1, AnswersDiffer DEF Shaped, Answers, InJar
    <3>3. Takes(r, n)
      BY <2>2, <3>1, <3>2, AnswersDiffer DEF Takes, InJar
    <3>. QED  BY <3>1, <3>3 DEF Carries
  <2>. QED  BY <2>1, <2>2 DEF Carries
<1>2. ASSUME NEW r \in Slot, NEW c \in Browser, Sends(r, c)
      PROVE  Carries(b, n)
  <2>1. ASSUME NEW q \in Slot, req'[q].browser = b, Brings(q, n)' \/ Takes(q, n)'
        PROVE  Carries(b, n)
    <3>1. CASE q # r
      BY <1>2, <2>1, <3>1 DEF Sends, Others, Brings, Takes, Carries
    <3>2. CASE q = r
      <4>1. b = c /\ Brings(r, n)'
        BY <1>2, <2>1, <3>2, AnswersDiffer DEF Sends, Takes
      <4>2. InJar(b, n)
        BY <1>2, <4>1 DEF Sends, Brings, InJar, Finding
      <4>. QED  BY <4>2 DEF Carries
    <3>. QED  BY <3>1, <3>2
  <2>. QED  BY <1>2, <2>1 DEF Sends, InJar, Carries
<1>3. CASE Goes
  BY <1>3 DEF Goes, Carries, InJar, Brings, Takes
<1>. QED  BY <1>1, <1>2, <1>3

LEMMA CarriedStep ==
  ASSUME OverlapInv, [Next]_vars
  PROVE  CarriedInv'
<1>0. /\ IInv /\ CarriedInv /\ FreshInv /\ FreshInv' /\ sends \in Nat /\ Cardinality(FirstRows) \in Nat
  BY FreshStep, FS_CardinalityType, SessionsAssumption DEF OverlapInv, IInv, FullType, TypeOK
<1>1. ASSUME NEW b \in Browser, NEW n \in Nat, Carries(b, n)',
             NEW r \in Slot, Served(r)
      PROVE  /\ n <= Cardinality(FirstRows) + sends'
             /\ \A q \in Slot : req'[q].at \in SigningIn => n # Promised(q)'
             /\ \A c \in Browser : Carries(c, n)' => b = c
  <2>0. /\ sends' = sends
        /\ \A q \in Slot : req'[q].at \in SigningIn =>
             req[q].at \in SigningIn /\ req'[q].no = req[q].no /\ Promised(q)' = Promised(q)
    BY <1>1 DEF Served, Others, Promised
  <2>1. CASE Carries(b, n)
    <3>1. ~ (Starts(r) /\ n = Promised(r))
      BY <1>0, <2>1 DEF CarriedInv, Starts, At, SigningIn
    <3>. QED  BY <1>0, <1>1, <2>0, <2>1, <3>1, ServedCarry DEF CarriedInv
  <2>2. CASE Starts(r) /\ n = Promised(r) /\ b = req[r].browser
    <3>1. req[r].at \in SigningIn /\ req[r].no \in 1..sends /\ req'[r].at \notin SigningIn
      BY <1>0, <2>2 DEF FreshInv, Starts, At, SigningIn
    <3>2. ASSUME NEW q \in Slot, req'[q].at \in SigningIn
          PROVE  n # Promised(q)'
      <4>1. q # r /\ req[q].at \in SigningIn
        BY <2>0, <3>1, <3>2
      <4>2. req[q].no # req[r].no /\ req[q].no \in 1..sends
        BY <1>0, <3>1, <4>1 DEF FreshInv
      <4>. QED  BY <1>0, <2>0, <2>2, <3>1, <3>2, <4>2 DEF Promised
    <3>3. \A c \in Browser : ~ Carries(c, n)
      BY <1>0, <2>2, <3>1 DEF CarriedInv
    <3>4. n <= Cardinality(FirstRows) + sends
      BY <1>0, <2>2, <3>1 DEF Promised
    <3>. QED  BY <1>1, <2>0, <2>2, <3>2, <3>3, <3>4, ServedCarry
  <2>. QED  BY <1>1, <2>1, <2>2, ServedCarry
<1>2. ASSUME NEW b \in Browser, NEW n \in Nat, Carries(b, n)',
             \/ \E r \in Slot : Delivers(r) \/ \E c \in Browser : Sends(r, c)
             \/ Goes
      PROVE  /\ n <= Cardinality(FirstRows) + sends'
             /\ \A q \in Slot : req'[q].at \in SigningIn => n # Promised(q)'
             /\ \A c \in Browser : Carries(c, n)' => b = c
  <2>1. Carries(b, n) /\ \A c \in Browser : Carries(c, n)' => Carries(c, n)
    BY <1>2, OthersCarry
  <2>2. n <= Cardinality(FirstRows) + sends
    BY <1>0, <2>1 DEF CarriedInv
  <2>3. sends' \in {sends, sends + 1}
    BY <1>2 DEF Delivers, Sends, Goes
  <2>4. ASSUME NEW q \in Slot, req'[q].at \in SigningIn
        PROVE  n # Promised(q)'
    <3>1. CASE req[q].at \in SigningIn /\ req'[q].no = req[q].no
      BY <1>0, <2>1, <3>1 DEF CarriedInv, Promised
    <3>2. CASE req'[q].no = sends + 1
      BY <1>0, <2>2, <3>2 DEF Promised
    <3>. QED  BY <1>2, <2>4, <3>1, <3>2 DEF Delivers, Sends, Goes, Others, NoRequest, SigningIn
  <2>. QED  BY <1>0, <2>1, <2>2, <2>3, <2>4 DEF CarriedInv
<1>. QED  BY <1>1, <1>2, StepForms DEF CarriedInv

-----------------------------------------------------------------------------
(* What is carried goes on naming the row it is of. *)
LEMMA TimesKnown ==
  ASSUME OverlapInv
  PROVE  /\ clock \in Nat /\ Latency \in Nat /\ RotateInterval \in Nat
         /\ \A x \in rows : x \in Row /\ x.rotatedAt \in Int /\ x.regeneratedAt \in Int /\ x.id.session \in Nat
         /\ \A q \in Slot :
              /\ req[q].began \in Nat /\ req[q].now \in Nat /\ req[q].began <= clock /\ req[q].now <= clock
              /\ req[q].at # "idle" => req[q].browser \in Browser
              /\ req[q].at = "rotate" => req[q].began <= req[q].now
<1>0. /\ FullType /\ TypeOK /\ ClockInv
  BY DEF OverlapInv, IInv, FullType
<1>1. clock \in Nat /\ Latency \in Nat /\ RotateInterval \in Nat /\ MaxClock \in Nat
  BY <1>0, SessionsAssumption DEF TypeOK
<1>2. \A x \in rows : x \in Row /\ x.rotatedAt \in Int /\ x.regeneratedAt \in Int /\ x.id.session \in Nat
  BY <1>0, <1>1 DEF TypeOK, Row, Time, Identifier
<1>3. \A q \in Slot : req[q].began \in 0..clock /\ req[q].now \in 0..clock
  BY <1>0 DEF TypeOK
<1>4. ASSUME NEW q \in Slot
      PROVE  /\ req[q].at # "idle" => req[q].browser \in Browser
             /\ req[q].at = "rotate" => req[q].began <= req[q].now
  BY <1>0, ReadAfterItBegan DEF TypeOK, At
<1>. QED  BY <1>1, <1>2, <1>3, <1>4

LEMMA QuietNames ==
  ASSUME OverlapInv, NEW r \in Slot, Served(r), Quiet(r), NEW y \in rows'
  PROVE  WellNamed(y)'
<1>1. PICK x \in rows : /\ y.id = x.id /\ y.previous = x.previous
                        /\ y.rotatedAt = x.rotatedAt /\ y.regeneratedAt = x.regeneratedAt
  BY DEF Quiet, SameNames
<1>0. /\ Shaped(r) /\ OneRow /\ req[r].at \notin {"idle", "answer"}
      /\ \A q \in Slot \ {r} : req'[q] = req[q]
      /\ jar' = jar /\ slow' = slow /\ clock' = clock
      /\ req'[r].browser = req[r].browser /\ req'[r].began = req[r].began
  BY DEF OverlapInv, IInv, Served, Others, Quiet, SameStart
<1>old. /\ \A b \in Browser : JarNames(b, x)
        /\ \A q \in Slot : CookieNames(q, x) /\ AnswerNames(q, x) /\ RotationDue(q, x)
  BY DEF OverlapInv, NamesInv, WellNamed
<1>2. ASSUME NEW b \in Browser
      PROVE  JarNames(b, y)'
  <2>1. ASSUME NEW q \in Slot, Pending(q, b, x)
        PROVE  Pending(q, b, y)'
    <3>1. CASE q # r
      BY <1>0, <1>1, <2>1, <3>1 DEF Pending, InTime
    <3>2. CASE q = r
      BY <1>0, <1>1, <2>1, <3>2 DEF Pending, InTime, Quiet, Answering
    <3>. QED  BY <3>1, <3>2
  <2>. QED  BY <1>0, <1>1, <1>old, <2>1 DEF JarNames, InJar, Prompt
<1>3. ASSUME NEW q \in Slot
      PROVE  CookieNames(q, y)'
  <2>1. CASE q # r
    BY <1>0, <1>1, <1>old, <2>1 DEF CookieNames, Brings, Prompt
  <2>2. CASE q = r
    BY <1>0, <1>1, <1>old, <2>2 DEF CookieNames, Brings, Quiet, Prompt
  <2>. QED  BY <2>1, <2>2
<1>4. ASSUME NEW q \in Slot
      PROVE  AnswerNames(q, y)'
  <2>1. CASE q # r
    BY <1>0, <1>1, <1>old, <2>1 DEF AnswerNames, Takes, Prompt
  <2>2. CASE q = r
    <3>1. Takes(r, x.id.session)' => req'[r].answer = req[r].answer
      BY AnswersDiffer DEF Takes, Quiet
    <3>. QED  BY <1>0, <1>1, <1>old, <2>2, <3>1 DEF AnswerNames, Takes, Prompt
  <2>. QED  BY <2>1, <2>2
<1>5. ASSUME NEW q \in Slot
      PROVE  RotationDue(q, y)'
  <2>1. CASE q # r
    BY <1>0, <1>1, <1>old, <2>1 DEF RotationDue, At, Prompt
  <2>2. CASE q = r
    <3>1. SUFFICES ASSUME req'[r].at = "rotate", req'[r].id = y.id
                   PROVE  req'[r].now - y.regeneratedAt >= RotateInterval
      BY <2>2 DEF RotationDue, At
    <3>2. PICK z \in rows : z.id = req[r].cookie /\ req'[r].now - z.regeneratedAt >= RotateInterval
      BY <3>1 DEF Quiet
    <3>3. z = x
      BY <1>0, <1>1, <3>1, <3>2 DEF Quiet, OneRow
    <3>. QED  BY <1>1, <3>2, <3>3
  <2>. QED  BY <2>1, <2>2
<1>. QED  BY <1>2, <1>3, <1>4, <1>5 DEF WellNamed

(* Whoever carries a session is the browser that rotates it.               *)
LEMMA OneCarrier ==
  ASSUME OverlapInv, NEW r \in Slot, At(r, "rotate"), NEW x \in rows, x.id = req[r].id
  PROVE  /\ \A b \in Browser : InJar(b, x.id.session) => req[r].browser = b
         /\ \A q \in Slot : Brings(q, x.id.session) \/ Takes(q, x.id.session)
              => req[r].browser = req[q].browser
<1>0. /\ x.id.session \in Nat /\ req[r].browser \in Browser /\ CarriedInv
      /\ \A q \in Slot : Shaped(q) /\ (req[q].at # "idle" => req[q].browser \in Browser)
  BY TimesKnown DEF At, OverlapInv
<1>1. Carries(req[r].browser, x.id.session)
  BY <1>0 DEF Carries, Brings, Finding, At, Shaped
<1>2. \A b \in Browser : Carries(b, x.id.session) => req[r].browser = b
  BY <1>0, <1>1 DEF CarriedInv
<1>3. ASSUME NEW q \in Slot, Brings(q, x.id.session) \/ Takes(q, x.id.session)
      PROVE  req[r].browser = req[q].browser
  <2>1. req[q].browser \in Browser
    BY <1>0, <1>3, AnswersDiffer DEF Brings, Takes, Shaped, Finding, Answering
  <2>. QED  BY <1>2, <1>3, <2>1 DEF Carries
<1>. QED  BY <1>2, <1>3 DEF Carries

(* When a rotation is due in a prompt browser, what that one sent before   *)
(* the last rotation has been answered, and every answer has arrived.      *)
LEMMA RotationIsLate ==
  ASSUME OverlapInv, NEW r \in Slot, At(r, "rotate"), NEW x \in rows, x.id = req[r].id,
         Prompt(req[r].browser)
  PROVE  /\ \A b \in Browser : InJar(b, x.id.session) => jar[b] = x.id /\ req[r].browser = b
         /\ \A q \in Slot : Brings(q, x.id.session) => req[q].cookie = x.id
         /\ \A q \in Slot : ~ Takes(q, x.id.session)
         /\ Brings(r, x.id.session)
<1>0. /\ clock \in Nat /\ Latency \in Nat /\ RotateInterval \in Nat /\ x.regeneratedAt \in Int
      /\ x.id.session \in Nat /\ req[r].now \in Nat /\ req[r].now <= clock
      /\ \A q \in Slot : req[q].began \in Nat
  BY TimesKnown
<1>1. /\ RotateInterval > 2 * Latency /\ CarriedInv /\ PromptInv
      /\ \A b \in Browser : JarNames(b, x)
      /\ \A q \in Slot : Shaped(q) /\ CookieNames(q, x) /\ AnswerNames(q, x) /\ RotationDue(q, x)
  BY DEF OverlapInv, Patient, NamesInv, WellNamed
<1>2. req[r].now - x.regeneratedAt >= RotateInterval
  BY <1>1 DEF RotationDue
<1>3. \A q \in Slot : InTime(q) => ~ (req[q].began <= x.regeneratedAt + Latency)
  BY <1>0, <1>1, <1>2 DEF InTime
<1>4. \A q \in Slot : InTime(q) => ~ (req[q].began <= x.regeneratedAt)
  BY <1>0, <1>3
<1>5. Brings(r, x.id.session)
  BY <1>1 DEF Brings, Finding, At, Shaped
<1>one. /\ \A b \in Browser : InJar(b, x.id.session) => req[r].browser = b
        /\ \A q \in Slot : Brings(q, x.id.session) \/ Takes(q, x.id.session)
             => req[r].browser = req[q].browser
  BY OneCarrier
<1>6. ASSUME NEW b \in Browser, InJar(b, x.id.session)
      PROVE  jar[b] = x.id /\ req[r].browser = b
  <2>1. req[r].browser = b
    BY <1>one, <1>6
  <2>2. ~ (x.regeneratedAt = x.rotatedAt /\ \E q \in Slot : Pending(q, b, x))
    BY <1>4 DEF Pending
  <2>. QED  BY <1>1, <1>6, <2>1, <2>2 DEF JarNames
<1>7. ASSUME NEW q \in Slot, Brings(q, x.id.session)
      PROVE  req[q].cookie = x.id
  <2>1. Prompt(req[q].browser) /\ InTime(q)
    BY <1>one, <1>1, <1>7 DEF PromptInv, Brings
  <2>. QED  BY <1>0, <1>1, <1>2, <1>3, <1>7, <2>1 DEF CookieNames
<1>8. ASSUME NEW q \in Slot, Takes(q, x.id.session)
      PROVE  FALSE
  <2>1. Prompt(req[q].browser) /\ InTime(q)
    BY <1>one, <1>1, <1>8 DEF PromptInv, Takes
  <2>. QED  BY <1>1, <1>4, <1>8, <2>1 DEF AnswerNames
<1>. QED  BY <1>5, <1>6, <1>7, <1>8

LEMMA RotatesNames ==
  ASSUME OverlapInv, NEW r \in Slot, Served(r), Rotates(r), NEW z \in rows'
  PROVE  WellNamed(z)'
<1>1. PICK x \in rows, y \in Row :
        /\ At(r, "rotate") /\ x.id = req[r].id
        /\ rows' = (rows \ {x}) \cup {y}
        /\ y.id.session = x.id.session /\ y.id # x.id /\ y.previous = x.id
        /\ y.rotatedAt = req[r].now /\ y.regeneratedAt = req[r].now
        /\ req'[r].at \in Answering /\ req'[r].answer = SetTo(y.id) /\ req'[r].began = req[r].began
  BY DEF Rotates, SameStart
<1>0. /\ OneRow
      /\ \A q \in Slot : Shaped(q)
      /\ \A q \in Slot \ {r} : req'[q] = req[q]
      /\ jar' = jar /\ slow' = slow /\ clock' = clock /\ req'[r].browser = req[r].browser
      /\ \A w \in rows : WellNamed(w)
  BY DEF OverlapInv, IInv, Served, Others, NamesInv
<1>times. /\ clock \in Nat /\ Latency \in Nat /\ req[r].now \in Nat
          /\ req[r].began <= req[r].now /\ req[r].began \in Nat
          /\ Prompt(req[r].browser) => InTime(r)
          /\ \A q \in Slot : req[q].began \in Nat /\ req[q].began <= clock
  <2>1. PromptInv /\ req[r].at \in Finding
    BY <1>1 DEF OverlapInv, At, Finding
  <2>. QED  BY <1>1, <2>1, TimesKnown DEF At, PromptInv
<1>one. /\ \A b \in Browser : InJar(b, x.id.session) => req[r].browser = b
        /\ \A q \in Slot : Brings(q, x.id.session) \/ Takes(q, x.id.session)
             => req[r].browser = req[q].browser
  BY <1>1, OneCarrier
<1>late. Prompt(req[r].browser) =>
         /\ \A b \in Browser : InJar(b, x.id.session) => jar[b] = x.id /\ req[r].browser = b
         /\ \A q \in Slot : Brings(q, x.id.session) => req[q].cookie = x.id
         /\ \A q \in Slot : ~ Takes(q, x.id.session)
  BY <1>1, RotationIsLate
<1>r. /\ req'[r].at \notin Finding
      /\ req'[r].answer.id = y.id /\ req'[r].answer.does = "set"
  BY <1>1, AnswersDiffer DEF Answering, Finding
<1>2. CASE z = y
  <2>1. ASSUME NEW b \in Browser
        PROVE  JarNames(b, y)'
    <3>1. SUFFICES ASSUME InJar(b, x.id.session), Prompt(b)
                   PROVE  jar[b] = y.previous /\ Pending(r, b, y)'
      BY <1>0, <1>1 DEF JarNames, InJar, Prompt
    <3>2. req[r].browser = b /\ Prompt(req[r].browser) /\ jar[b] = x.id
      BY <1>one, <1>late, <3>1
    <3>. QED  BY <1>0, <1>1, <1>times, <3>2 DEF Pending, InTime
  <2>2. ASSUME NEW q \in Slot
        PROVE  CookieNames(q, y)'
    <3>1. CASE q = r
      BY <1>r, <3>1 DEF CookieNames, Brings
    <3>2. CASE q # r
      <4>1. SUFFICES ASSUME Brings(q, x.id.session), Prompt(req[q].browser)
                     PROVE  req[q].cookie = x.id /\ req[q].began <= req[r].now + Latency
        BY <1>0, <1>1, <3>2 DEF CookieNames, Brings, Prompt
      <4>2. Prompt(req[r].browser) /\ req[q].cookie = x.id
        BY <1>one, <1>late, <4>1
      <4>. QED  BY <1>times, <4>2 DEF InTime
    <3>. QED  BY <3>1, <3>2
  <2>3. ASSUME NEW q \in Slot
        PROVE  AnswerNames(q, y)'
    <3>1. CASE q = r
      BY <1>0, <1>1, <1>r, <1>times, <3>1 DEF AnswerNames
    <3>2. CASE q # r
      BY <1>0, <1>1, <1>one, <1>late, <3>2 DEF AnswerNames, Takes, Prompt
    <3>. QED  BY <3>1, <3>2
  <2>4. ASSUME NEW q \in Slot
        PROVE  RotationDue(q, y)'
    <3>1. CASE q = r
      BY <1>r, <3>1 DEF RotationDue, At, Finding
    <3>2. CASE q # r
      <4>1. SUFFICES ASSUME req[q].at = "rotate", req[q].id = y.id, Prompt(req[q].browser)
                     PROVE  FALSE
        BY <1>0, <3>2 DEF RotationDue, At, Prompt
      <4>2. Brings(q, x.id.session) /\ req[q].cookie = y.id
        BY <1>0, <1>1, <4>1 DEF Brings, Finding, Shaped
      <4>. QED  BY <1>1, <1>one, <1>late, <4>1, <4>2
    <3>. QED  BY <3>1, <3>2
  <2>. QED  BY <1>2, <2>1, <2>2, <2>3, <2>4 DEF WellNamed
<1>3. CASE z # y
  <2>0. z \in rows /\ WellNamed(z) /\ z.id.session # x.id.session
    BY <1>0, <1>1, <1>3 DEF OneRow
  <2>1. ASSUME NEW b \in Browser
        PROVE  JarNames(b, z)'
    <3>1. ASSUME NEW q \in Slot, Pending(q, b, z)
          PROVE  Pending(q, b, z)'
      <4>1. q # r
        BY <1>1, <3>1 DEF Pending, Answering, At
      <4>. QED  BY <1>0, <3>1, <4>1 DEF Pending, InTime
    <3>. QED  BY <1>0, <2>0, <3>1 DEF WellNamed, JarNames, InJar, Prompt
  <2>2. ASSUME NEW q \in Slot
        PROVE  CookieNames(q, z)' /\ RotationDue(q, z)' /\ AnswerNames(q, z)'
    <3>1. CASE q = r
      BY <1>1, <1>r, <2>0, <3>1 DEF CookieNames, Brings, RotationDue, At, Finding, AnswerNames, Takes
    <3>2. CASE q # r
      BY <1>0, <2>0, <3>2
      DEF WellNamed, CookieNames, Brings, RotationDue, At, AnswerNames, Takes, Prompt
    <3>. QED  BY <3>1, <3>2
  <2>. QED  BY <2>1, <2>2 DEF WellNamed
<1>. QED  BY <1>2, <1>3

LEMMA StartsNames ==
  ASSUME OverlapInv, NEW r \in Slot, Served(r), Starts(r), NEW z \in rows'
  PROVE  WellNamed(z)'
<1>1. PICK y \in Row :
        /\ At(r, "start") /\ rows' = rows \cup {y}
        /\ y.id.session = Promised(r) /\ y.regeneratedAt = clock
        /\ req'[r].at = "answer" /\ req'[r].answer = SetTo(y.id) /\ req'[r].began = clock
  BY DEF Starts
<1>0. /\ CarriedInv /\ FreshInv
      /\ \A q \in Slot : Shaped(q) /\ (req[q].at # "idle" => req[q].browser \in Browser)
      /\ \A q \in Slot \ {r} : req'[q] = req[q]
      /\ jar' = jar /\ slow' = slow /\ clock' = clock /\ req'[r].browser = req[r].browser
      /\ clock \in Nat
      /\ \A w \in rows : WellNamed(w)
  BY TimesKnown DEF OverlapInv, IInv, Served, Others, NamesInv
<1>r. /\ req'[r].at \notin Finding
      /\ req'[r].answer.id = y.id /\ req'[r].answer.does = "set"
      /\ req[r].at \in SigningIn
  BY <1>1, AnswersDiffer DEF Finding, At, SigningIn
<1>new. /\ \A b \in Browser : ~ InJar(b, y.id.session)
        /\ \A q \in Slot : ~ Brings(q, y.id.session) /\ ~ Takes(q, y.id.session)
  <2>1. y.id.session \in Nat
    BY DEF Row, Identifier
  <2>2. \A b \in Browser : ~ Carries(b, y.id.session)
    BY <1>0, <1>1, <1>r, <2>1 DEF CarriedInv
  <2>3. \A q \in Slot : Brings(q, y.id.session) \/ Takes(q, y.id.session) => req[q].at # "idle"
    BY <1>0, AnswersDiffer DEF Brings, Takes, Finding, Answering, Shaped
  <2>. QED  BY <1>0, <2>2, <2>3 DEF Carries
<1>2. CASE z = y
  <2>1. ASSUME NEW q \in Slot
        PROVE  CookieNames(q, y)' /\ AnswerNames(q, y)' /\ RotationDue(q, y)'
    <3>1. CASE q = r
      BY <1>0, <1>1, <1>r, <3>1 DEF CookieNames, Brings, RotationDue, At, Finding, AnswerNames
    <3>2. CASE q # r
      <4>1. ~ (req[q].at = "rotate" /\ req[q].id = y.id)
        BY <1>0, <1>new DEF Shaped, Brings, Finding
      <4>. QED  BY <1>0, <1>new, <3>2, <4>1 DEF CookieNames, Brings, RotationDue, At, AnswerNames, Takes
    <3>. QED  BY <3>1, <3>2
  <2>2. \A b \in Browser : JarNames(b, y)'
    BY <1>0, <1>new DEF JarNames, InJar
  <2>. QED  BY <1>2, <2>1, <2>2 DEF WellNamed
<1>3. CASE z \in rows
  <2>0. WellNamed(z) /\ z.id.session # Promised(r)
    BY <1>0, <1>r, <1>3 DEF FreshInv, Numbers
  <2>1. ASSUME NEW b \in Browser
        PROVE  JarNames(b, z)'
    <3>1. ASSUME NEW q \in Slot, Pending(q, b, z)
          PROVE  Pending(q, b, z)'
      <4>1. q # r
        BY <1>1, <3>1 DEF Pending, Answering, At
      <4>. QED  BY <1>0, <3>1, <4>1 DEF Pending, InTime
    <3>. QED  BY <1>0, <2>0, <3>1 DEF WellNamed, JarNames, InJar, Prompt
  <2>2. ASSUME NEW q \in Slot
        PROVE  CookieNames(q, z)' /\ RotationDue(q, z)' /\ AnswerNames(q, z)'
    <3>1. CASE q = r
      BY <1>1, <1>r, <2>0, <3>1 DEF CookieNames, Brings, RotationDue, At, Finding, AnswerNames, Takes
    <3>2. CASE q # r
      BY <1>0, <2>0, <3>2
      DEF WellNamed, CookieNames, Brings, RotationDue, At, AnswerNames, Takes, Prompt
    <3>. QED  BY <3>1, <3>2
  <2>. QED  BY <2>1, <2>2 DEF WellNamed
<1>. QED  BY <1>1, <1>2, <1>3

LEMMA DeliversNames ==
  ASSUME OverlapInv, NEW r \in Slot, Delivers(r), NEW x \in rows
  PROVE  WellNamed(x)'
<1>0. /\ WellNamed(x) /\ Shaped(r) /\ jar \in [Browser -> Carried]
      /\ req[r].at = "answer" /\ req[r].browser \in Browser
      /\ \A q \in Slot \ {r} : req'[q] = req[q]
      /\ slow' = slow /\ clock' = clock
      /\ req'[r].at = "idle" /\ req'[r].answer = Keep
  BY DEF OverlapInv, IInv, FullType, TypeOK, Carried, NamesInv, Delivers, Others, NoRequest
<1>1. ASSUME NEW b \in Browser
      PROVE  JarNames(b, x)'
  <2>1. CASE jar'[b] = jar[b] /\ (b = req[r].browser => req[r].answer = Keep)
    <3>1. ASSUME NEW q \in Slot, Pending(q, b, x)
          PROVE  Pending(q, b, x)'
      <4>1. q # r
        BY <2>1, <3>1, AnswersDiffer DEF Pending
      <4>. QED  BY <1>0, <3>1, <4>1 DEF Pending, InTime
    <3>. QED  BY <1>0, <2>1, <3>1 DEF WellNamed, JarNames, InJar, Prompt
  <2>2. CASE b = req[r].browser /\ req[r].answer # Keep /\ jar'[b] = req[r].answer.id
    <3>1. SUFFICES ASSUME jar'[b] # None, jar'[b].session = x.id.session, Prompt(b)
                   PROVE  jar'[b] = x.id
      BY <1>0 DEF JarNames, InJar, Prompt
    <3>2. PICK i \in Identifier : req[r].answer = SetTo(i)
      BY <1>0, <2>2, <3>1, AnswersDiffer DEF Shaped, Answers
    <3>3. Takes(r, x.id.session)
      BY <2>2, <3>1, <3>2, AnswersDiffer DEF Takes
    <3>. QED  BY <1>0, <2>2, <3>1, <3>3 DEF WellNamed, AnswerNames
  <2>. QED  BY <1>0, <2>1, <2>2 DEF Delivers
<1>2. ASSUME NEW q \in Slot
      PROVE  CookieNames(q, x)' /\ RotationDue(q, x)' /\ AnswerNames(q, x)'
  <2>1. CASE q = r
    BY <1>0, <2>1, AnswersDiffer DEF CookieNames, Brings, RotationDue, At, Finding, AnswerNames, Takes
  <2>2. CASE q # r
    BY <1>0, <2>2
    DEF WellNamed, CookieNames, Brings, RotationDue, At, AnswerNames, Takes, Prompt
  <2>. QED  BY <2>1, <2>2
<1>. QED  BY <1>1, <1>2 DEF WellNamed

LEMMA SendsNames ==
  ASSUME OverlapInv, NEW r \in Slot, NEW c \in Browser, Sends(r, c), NEW x \in rows
  PROVE  WellNamed(x)'
<1>0. /\ WellNamed(x)
      /\ \A q \in Slot \ {r} : req'[q] = req[q]
      /\ jar' = jar /\ slow' = slow /\ clock' = clock /\ req[r].at = "idle"
      /\ req'[r].browser = c
      /\ req'[r].at \in {"load", "admit"} /\ req'[r].began = clock
      /\ req'[r].cookie = jar[c] /\ req'[r].answer = Keep
      /\ req'[r].at = "load" => jar[c] # None
  BY DEF OverlapInv, NamesInv, Sends, Others
<1>1. ASSUME NEW b \in Browser
      PROVE  JarNames(b, x)'
  <2>1. ASSUME NEW q \in Slot, Pending(q, b, x)
        PROVE  Pending(q, b, x)'
    <3>1. q # r
      BY <1>0, <2>1 DEF Pending, Answering
    <3>. QED  BY <1>0, <2>1, <3>1 DEF Pending, InTime
  <2>. QED  BY <1>0, <2>1 DEF WellNamed, JarNames, InJar, Prompt
<1>2. ASSUME NEW q \in Slot, q # r
      PROVE  CookieNames(q, x)' /\ RotationDue(q, x)' /\ AnswerNames(q, x)'
  BY <1>0, <1>2
  DEF WellNamed, CookieNames, Brings, RotationDue, At, AnswerNames, Takes, Prompt
<1>3. RotationDue(r, x)' /\ AnswerNames(r, x)'
  BY <1>0, AnswersDiffer DEF RotationDue, At, AnswerNames, Takes
<1>4. CookieNames(r, x)'
  <2>1. SUFFICES ASSUME req'[r].at = "load", jar[c].session = x.id.session, Prompt(c)
                 PROVE  \/ jar[c] = x.id
                        \/ /\ jar[c] = x.previous /\ x.regeneratedAt = x.rotatedAt
                           /\ clock <= x.rotatedAt + Latency
    BY <1>0 DEF CookieNames, Brings, Finding, Prompt
  <2>2. InJar(c, x.id.session)
    BY <1>0, <2>1 DEF InJar
  <2>3. ASSUME NEW q \in Slot, Pending(q, c, x)
        PROVE  clock <= x.rotatedAt + Latency
    <3>1. /\ clock \in Nat /\ Latency \in Nat /\ x.rotatedAt \in Int
          /\ req[q].began \in Nat
      BY TimesKnown
    <3>2. clock <= req[q].began + Latency /\ req[q].began <= x.rotatedAt
      BY <2>3 DEF Pending, InTime
    <3>. QED  BY <3>1, <3>2
  <2>. QED  BY <1>0, <2>1, <2>2, <2>3 DEF WellNamed, JarNames
<1>. QED  BY <1>1, <1>2, <1>3, <1>4 DEF WellNamed

LEMMA GoesNames ==
  ASSUME OverlapInv, Goes, NEW x \in rows'
  PROVE  WellNamed(x)'
<1>1. /\ x \in rows /\ WellNamed(x) /\ req' = req /\ jar' = jar
      /\ \A b : Prompt(b)' => Prompt(b)
  BY DEF OverlapInv, NamesInv, Goes, Prompt
<1>2. ASSUME NEW b \in Browser
      PROVE  JarNames(b, x)'
  <2>1. ASSUME NEW q \in Slot, Pending(q, b, x), Prompt(b)'
        PROVE  Pending(q, b, x)'
    <3>1. Hurries(q) /\ Errand(q) = "session"
      BY <2>1, AnswersDiffer DEF Pending, Hurries, Errand, Answering, Clear
    <3>2. InTime(q)'
      BY <1>1, <2>1, <3>1 DEF Goes, Pending
    <3>. QED  BY <1>1, <2>1, <3>2 DEF Pending
  <2>. QED  BY <1>1, <2>1 DEF WellNamed, JarNames, InJar
<1>3. ASSUME NEW q \in Slot
      PROVE  CookieNames(q, x)' /\ AnswerNames(q, x)' /\ RotationDue(q, x)'
  BY <1>1 DEF WellNamed, CookieNames, AnswerNames, RotationDue, Brings, Takes, At
<1>. QED  BY <1>2, <1>3 DEF WellNamed

LEMMA PromptStep ==
  ASSUME OverlapInv, [Next]_vars
  PROVE  PromptInv'
<1>0. /\ PromptInv /\ clock \in Nat /\ Latency \in Nat /\ \A q \in Slot : Shaped(q)
  BY TimesKnown DEF OverlapInv
<1>1. SUFFICES ASSUME NEW q \in Slot, req'[q].at \in Finding \/ req'[q].answer.does = "set",
                      Prompt(req[q].browser)'
               PROVE  InTime(q)'
  BY DEF PromptInv
<1>2. CASE Served(q)
  <2>0. slow' = slow /\ clock' = clock /\ req'[q].browser = req[q].browser
    BY <1>2 DEF Served
  <2>1. CASE Quiet(q)
    <3>1. req[q].at \in Finding \/ req[q].answer.does = "set"
      BY <1>1, <2>1, AnswersDiffer DEF Quiet
    <3>2. InTime(q) /\ req'[q].began = req[q].began
      BY <1>0, <1>1, <2>0, <2>1, <3>1 DEF PromptInv, Prompt, Quiet, SameStart
    <3>. QED  BY <2>0, <3>2 DEF InTime
  <2>2. CASE Rotates(q)
    <3>1. req[q].at \in Finding /\ req'[q].began = req[q].began
      BY <2>2 DEF Rotates, At, Finding, SameStart
    <3>2. InTime(q)
      BY <1>0, <1>1, <2>0, <3>1 DEF PromptInv, Prompt
    <3>. QED  BY <2>0, <3>1, <3>2 DEF InTime
  <2>3. CASE Starts(q)
    <3>1. req'[q].began = clock
      BY <2>3 DEF Starts
    <3>. QED  BY <1>0, <2>0, <3>1 DEF InTime
  <2>. QED  BY <1>2, <2>1, <2>2, <2>3 DEF Served
<1>3. ~ Delivers(q)
  BY <1>1 DEF Delivers, NoRequest, Keep, Finding
<1>4. ASSUME NEW b \in Browser, Sends(q, b)
      PROVE  InTime(q)'
  BY <1>0, <1>4 DEF Sends, InTime
<1>5. CASE \E r \in Slot \ {q} : Served(r) \/ Delivers(r) \/ \E b \in Browser : Sends(r, b)
  <2>1. req'[q] = req[q] /\ slow' = slow /\ clock' = clock
    BY <1>5 DEF Served, Delivers, Sends, Others
  <2>. QED  BY <1>0, <1>1, <2>1 DEF PromptInv, Prompt, InTime
<1>6. CASE Goes
  <2>1. req' = req /\ Prompt(req[q].browser)
    BY <1>1, <1>6 DEF Goes, Prompt
  <2>2. Hurries(q) /\ Errand(q) = "session"
    BY <1>0, <1>1, <2>1, AnswersDiffer DEF Shaped, Hurries, Errand, Finding, Answering
  <2>3. InTime(q)
    BY <1>0, <1>1, <2>1 DEF PromptInv
  <2>. QED  BY <1>1, <1>6, <2>2, <2>3 DEF Goes
<1>. QED  BY <1>2, <1>3, <1>4, <1>5, <1>6, StepForms

LEMMA NamesStep ==
  ASSUME OverlapInv, [Next]_vars
  PROVE  NamesInv'
<1>1. ASSUME NEW r \in Slot, Served(r), NEW x \in rows'
      PROVE  WellNamed(x)'
  BY <1>1, QuietNames, RotatesNames, StartsNames DEF Served
<1>2. ASSUME NEW r \in Slot, Delivers(r) \/ (\E b \in Browser : Sends(r, b)), NEW x \in rows'
      PROVE  WellNamed(x)'
  <2>1. x \in rows
    BY <1>2 DEF Delivers, Sends
  <2>. QED  BY <1>2, <2>1, DeliversNames, SendsNames
<1>. QED  BY <1>1, <1>2, GoesNames, StepForms DEF NamesInv

-----------------------------------------------------------------------------
LEMMA OverlapInit ==
  ASSUME Init, Patient
  PROVE  OverlapInv
<1>1. \A r \in Slot : /\ req[r].at = "idle" /\ req[r].answer = Keep
  BY DEF Init, NoRequest
<1>2. \A r \in Slot : Shaped(r)
  BY <1>1 DEF Shaped, Finding, Answers, Answering
<1>3. \A r \in Slot, n \in Nat : ~ Brings(r, n) /\ ~ Takes(r, n)
  BY <1>1, AnswersDiffer DEF Brings, Takes, Finding
<1>4. CarriedInv
  <2>1. SUFFICES ASSUME NEW b \in Browser, NEW n \in Nat, Carries(b, n)
                 PROVE  /\ n <= Cardinality(FirstRows) + sends
                        /\ \A c \in Browser : Carries(c, n) => b = c
    BY <1>1 DEF CarriedInv, SigningIn
  <2>2. \A c \in Browser : Carries(c, n) => InJar(c, n)
    BY <1>3 DEF Carries
  <2>3. ASSUME NEW c \in Browser, InJar(c, n)
        PROVE  \E x \in FirstRows : FirstJar[c] = x.id /\ x.id.session = n
    BY <2>3, SessionsAssumption DEF Init, InJar
  <2>4. PICK x \in FirstRows : FirstJar[b] = x.id /\ x.id.session = n
    BY <2>1, <2>2, <2>3
  <2>5. n <= Cardinality(FirstRows) + sends
    <3>1. sends = 0 /\ Cardinality(FirstRows) \in Nat
      BY FS_CardinalityType, SessionsAssumption DEF Init
    <3>. QED  BY <2>4, <3>1, SessionsAssumption
  <2>6. ASSUME NEW c \in Browser, Carries(c, n)
        PROVE  b = c
    <3>1. PICK y \in FirstRows : FirstJar[c] = y.id /\ y.id.session = n
      BY <2>2, <2>3, <2>6
    <3>2. x = y
      BY <2>4, <3>1, SessionsAssumption
    <3>3. FirstJar[b] # None
      BY <2>1, <2>2 DEF Init, InJar
    <3>. QED  BY <2>4, <3>1, <3>2, <3>3 DEF Patient
  <2>. QED  BY <2>5, <2>6
<1>5. NamesInv
  <2>1. SUFFICES ASSUME NEW x \in rows PROVE WellNamed(x)
    BY DEF NamesInv
  <2>2. x.id.session \in Nat
    BY SessionsAssumption DEF Init, Row, Identifier
  <2>3. ASSUME NEW b \in Browser
        PROVE  JarNames(b, x)
    BY SessionsAssumption DEF Init, JarNames, InJar
  <2>. QED  BY <1>1, <1>3, <2>2, <2>3 DEF WellNamed, CookieNames, AnswerNames, RotationDue, At
<1>6. PromptInv
  BY <1>1, AnswersDiffer DEF PromptInv, Finding
<1>. QED  BY <1>2, <1>4, <1>5, <1>6, InitInv DEF OverlapInv

LEMMA OverlapNext ==
  ASSUME OverlapInv, [Next]_vars
  PROVE  OverlapInv'
<1>1. Patient'
  BY DEF OverlapInv, Patient
<1>2. IInv'
  BY NextInv DEF OverlapInv
<1>. QED  BY <1>1, <1>2, ShapedStep, PromptStep, CarriedStep, NamesStep DEF OverlapInv

(* A prompt browser looks for its session at most two latencies after      *)
(* whatever rotated it away from the identifier it brings.                 *)
LEMMA SessionIsFound ==
  ASSUME OverlapInv, NEW r \in Slot, At(r, "find"), Named(req[r].cookie, req[r].now) = {},
         Prompt(req[r].browser)
  PROVE  req[r].cookie.session \notin Numbers(rows)
<1>1. SUFFICES ASSUME NEW x \in rows, req[r].cookie.session = x.id.session
               PROVE  x \in Named(req[r].cookie, req[r].now)
  BY DEF Numbers
<1>2. Brings(r, x.id.session) /\ CookieNames(r, x)
  BY <1>1 DEF OverlapInv, NamesInv, WellNamed, Brings, At, Finding
<1>3. CASE req[r].cookie = x.id
  BY <1>3 DEF Named
<1>4. CASE req[r].cookie = x.previous /\ req[r].began <= x.rotatedAt + Latency
  <2>1. /\ clock \in Nat /\ Latency \in Nat /\ x.rotatedAt \in Int /\ req[r].began \in Nat
        /\ req[r].now \in Nat /\ req[r].now <= clock
    BY TimesKnown
  <2>2. clock <= req[r].began + Latency
    BY DEF OverlapInv, PromptInv, At, Finding, InTime
  <2>3. Grace \in Nat /\ Grace > 2 * Latency
    BY SessionsAssumption DEF OverlapInv, Patient
  <2>4. x.rotatedAt > req[r].now - Grace
    BY <1>4, <2>1, <2>3, <2>2
  <2>. QED  BY <1>4, <2>4 DEF Named
<1>. QED  BY <1>2, <1>3, <1>4 DEF CookieNames

(* A request that carries the identifier another one has rotated away      *)
(* still finds its session: without a failed statement a browser is told   *)
(* it has none only when that one is gone (store/session.go Find).  It is  *)
(* said of every behaviour, the ones with slow requests and answers too,   *)
(* and of every browser that was never slow itself; slow is what takes     *)
(* half of the grace, or of the rotation interval, or longer.              *)
THEOREM OverlapsKeepTheSession == Patient /\ Spec => OverlapKeepsTheSession
<1>1. Patient /\ Init => OverlapInv
  BY OverlapInit
<1>2. OverlapInv /\ [Next]_vars => OverlapInv'
  BY OverlapNext
<1>3. ASSUME OverlapInv, [Next]_vars, NEW r \in Slot,
             At(r, "find"), req'[r].at = "answer", faults' = faults, Prompt(req[r].browser)
      PROVE  req[r].cookie.session \notin Numbers(rows)
  <2>0. /\ FullType /\ TypeOK /\ req \in [Slot -> RequestType] /\ req[r].at = "find" /\ faults \in Nat
    BY <1>3 DEF OverlapInv, IInv, FullType, TypeOK, At
  <2>1. req'[r] # req[r]
    BY <1>3, <2>0
  <2>2. ASSUME NEW q \in Slot, q # r
        PROVE  /\ ~ Serve(q) /\ ~ Deliver(q)
               /\ \A b \in Browser, a \in Asks : ~ Send(q, b, a)
    BY <2>0, <2>1, <2>2, ServeMoves, DeliverMoves, SendMoves DEF Moves, Gone
  <2>3. Serve(r)
    <3>1. ~ Deliver(r) /\ \A b \in Browser, a \in Asks : ~ Send(r, b, a)
      BY <2>0 DEF Deliver, Send, At
    <3>2. ~ Cleanup /\ ~ Tick /\ ~ UNCHANGED vars
      BY <2>1 DEF Cleanup, Tick, vars
    <3>. QED  BY <1>3, <2>2, <3>1, <3>2, Zenon DEF Next
  <2>4. Find(r)
    <3>1. ~ ReadClock(r) /\ ~ Destroy(r) /\ ~ Rotate(r) /\ ~ Touch(r) /\ ~ SignOut(r) /\ ~ Revoke(r)
      BY <2>0 DEF ReadClock, Destroy, Rotate, Touch, SignOut, Revoke, At
    <3>2. ~ Admit(r) /\ ~ Authenticate(r) /\ ~ ApplyPolicy(r) /\ ~ StartSession(r)
      BY <2>0 DEF Admit, Authenticate, ApplyPolicy, StartSession, At
    <3>3. ~ StatementFails(r)
      BY <1>3, <2>0 DEF StatementFails
    <3>. QED  BY <2>3, <3>1, <3>2, <3>3, Zenon DEF Serve
  <2>5. ASSUME NEW x \in rows, req' = [req EXCEPT ![r].at = Verdict(r, x), ![r].id = x.id]
        PROVE  FALSE
    <3>1. req'[r].at = Verdict(r, x)
      BY <2>0, <2>5 DEF RequestType
    <3>. QED  BY <1>3, <3>1 DEF Verdict
  <2>6. Named(req[r].cookie, req[r].now) = {}
    BY <2>4, <2>5 DEF Find, Named
  <2>. QED  BY <1>3, <2>6, SessionIsFound
<1>4. ASSUME OverlapInv, [Next]_vars
      PROVE  \A r \in Slot :
               /\ At(r, "find") /\ req'[r].at = "answer" /\ faults' = faults
               /\ <<req[r].browser, "session">> \notin slow
               => req[r].cookie.session \notin Numbers(rows)
  BY <1>3, <1>4 DEF Prompt
<1>. QED  BY <1>1, <1>2, <1>4, PTL DEF Spec, OverlapKeepsTheSession
==============================================================================
