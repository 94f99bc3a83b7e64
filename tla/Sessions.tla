------------------------------ MODULE Sessions ------------------------------
(***************************************************************************)
(* Who is signed in: the session rows, the cookie each browser holds and   *)
(* the requests between them, which overlap (auth/session.go, web/         *)
(* middleware.go and auth_handlers.go), and the login attempts one address *)
(* is allowed (auth/ratelimit.go).                                         *)
(*                                                                         *)
(* An identifier is the number of its session and how often that one was   *)
(* rotated: random tokens never meet.  Time is counted in ticks; a request *)
(* reads the clock once, before its first statement, and every statement   *)
(* and transaction runs alone, for the database has one connection.        *)
(***************************************************************************)
EXTENDS Integers, FiniteSets

CONSTANTS
  Browser, Account,
  AccountOf,       \* who signs in from each browser
  None,            \* no cookie
  Slot,            \* the requests under way at one time
  Asks,            \* what they ask for
  FirstRows,       \* the sessions at first
  FirstJar,        \* the cookie of each browser at first
  RotateInterval, Grace, Idle, Lifetime,
  Window, MaxTries,
  Latency,         \* the ticks within which a request is not yet slow
  MaxClock,        \* bound: ticks
  MaxSends,        \* bound: requests and statements that fail
  MaxFaults        \* bound: statements that fail

Time == -MaxClock..MaxClock
Identifier == [session : Nat, serial : Nat]

Row == [id : Identifier, previous : Identifier \cup {None}, account : Account,
        rotatedAt : Time, regeneratedAt : Time, lastActive : Time, createdAt : Time]

(* "elsewhere" is a request whose fingerprint is another one. *)
Ask ==
  [kind : {"page", "elsewhere", "signOut", "signIn"}] \cup
  [kind : {"revoke"}, accounts : SUBSET Account]

ASSUME SessionsAssumption ==
  /\ AccountOf \in [Browser -> Account]
  /\ None \notin Identifier
  /\ Asks \subseteq Ask
  /\ FirstRows \subseteq Row /\ IsFiniteSet(FirstRows)
  /\ \A x, y \in FirstRows : x.id.session = y.id.session => x = y
  /\ \A x \in FirstRows : x.id.session <= Cardinality(FirstRows)
  /\ FirstJar \in [Browser -> {x.id : x \in FirstRows} \cup {None}]
  /\ {RotateInterval, Grace, Idle, Lifetime, Window} \subseteq Nat
  /\ {Latency, MaxClock, MaxSends, MaxFaults} \subseteq Nat
  /\ MaxTries \in Nat \ {0}

VARIABLES
  clock,
  rows,       \* sessions
  attempts,   \* login_attempts
  jar,        \* the cookie each browser holds
  req,        \* the requests under way
  sends,      \* requests sent so far
  faults,     \* statements that failed so far
  admitted,   \* history: the attempts that were let through
  slow        \* history: the browsers a request of which was slow, and in what

vars == <<clock, rows, attempts, jar, req, sends, faults, admitted, slow>>

(* What a response does to the jar. *)
Keep  == [does |-> "keep", id |-> None]
Clear == [does |-> "clear", id |-> None]
SetTo(i) == [does |-> "set", id |-> i]

(* A request: where it is, what it asks for and from where, the cookie it  *)
(* carries, the time it works with, the identifier it is served under.     *)
NoRequest == [at |-> "idle", no |-> 0, ask |-> [kind |-> "page"], browser |-> None,
              cookie |-> None, began |-> 0, now |-> 0, id |-> None, answer |-> Keep]

Init ==
  /\ clock = 0
  /\ rows = FirstRows
  /\ attempts = {}
  /\ jar = FirstJar
  /\ req = [r \in Slot |-> NoRequest]
  /\ sends = 0
  /\ faults = 0
  /\ admitted = {}
  /\ slow = {}

-----------------------------------------------------------------------------
(* Browsers. *)

At(r, p) == req[r].at = p
Goto(r, p) == req' = [req EXCEPT ![r].at = p]

(* Of a request that is answered only its browser and its answer are left. *)
Answer(r, a) ==
  req' = [req EXCEPT ![r] = [NoRequest EXCEPT !.at = "answer", !.answer = a,
                               !.browser = req[r].browser, !.began = req[r].began]]
Done(r) == Answer(r, req[r].answer)

Send(r, b, a) ==
  /\ At(r, "idle")
  /\ sends + faults < MaxSends
  /\ a.kind = "signIn" \/ jar[b] # None
  /\ sends' = sends + 1
  /\ req' = [req EXCEPT ![r] =
       [NoRequest EXCEPT !.at = IF a.kind = "signIn" THEN "admit" ELSE "load",
                         !.no = IF a.kind = "signIn" THEN sends + 1 ELSE 0, !.ask = a, !.browser = b,
                         !.cookie = jar[b], !.began = clock]]
  /\ UNCHANGED <<clock, rows, attempts, jar, faults, admitted, slow>>

(* The response arrives; responses overtake each other. *)
Deliver(r) ==
  LET a == req[r].answer IN
  /\ At(r, "answer")
  /\ jar' = [jar EXCEPT ![req[r].browser] = IF a.does = "keep" THEN @ ELSE a.id]
  /\ req' = [req EXCEPT ![r] = NoRequest]
  /\ UNCHANGED <<clock, rows, attempts, sends, faults, admitted, slow>>

(* What must not take long: an attempt until it is counted, a request      *)
(* until its session is found, and an answer that changes the cookie.  A   *)
(* helper that is asked, or a page that leaves the cookie alone, may.      *)
Hurries(r) ==
  \/ req[r].at \in {"admit", "count", "load", "find", "rotate"}
  \/ req[r].at \in {"signOut", "revoke", "answer"} /\ req[r].answer.does # "keep"

Errand(r) == IF req[r].at \in {"admit", "count"} THEN "attempt" ELSE "session"

(* Nothing bounds how long a request or its answer is under way; what has  *)
(* been for Latency ticks and should have hurried is slow from now on.     *)
Tick ==
  /\ clock < MaxClock
  /\ clock' = clock + 1
  /\ slow' = slow \cup
       {<<req[r].browser, Errand(r)>> :
          r \in {q \in Slot : Hurries(q) /\ clock >= req[q].began + Latency}}
  /\ UNCHANGED <<rows, attempts, jar, req, sends, faults, admitted>>

-----------------------------------------------------------------------------
(* SessionManager.Load, before every page but the login. *)

ReadClock(r) ==
  /\ \/ At(r, "load") /\ req' = [req EXCEPT ![r].at = "find", ![r].now = clock]
     \/ At(r, "admit") /\ req' = [req EXCEPT ![r].at = "count", ![r].now = clock]
  /\ UNCHANGED <<clock, rows, attempts, jar, sends, faults, admitted, slow>>

(* Mutant: only the identifier a session has now names it. *)
NamedNow(c, t) == {x \in rows : x.id = c}

(* A rotation leaves the previous identifier good for the grace. *)
Named(c, t) ==
  {x \in rows : x.id = c \/ (x.previous = c /\ x.rotatedAt > t - Grace)}

Expired(x, t) == t - x.lastActive > Idle \/ t - x.createdAt > Lifetime

(* The next statement; a request that came under the previous identifier   *)
(* does not rotate.                                                        *)
Verdict(r, x) ==
  LET q == req[r] IN
  IF Expired(x, q.now) \/ q.ask.kind = "elsewhere" THEN "destroy"
  ELSE IF x.id = q.cookie /\ q.now - x.regeneratedAt >= RotateInterval THEN "rotate"
  ELSE "touch"

Find(r) ==
  LET found == Named(req[r].cookie, req[r].now) IN
  /\ At(r, "find")
  /\ \/ found = {} /\ Answer(r, Clear)
     \/ \E x \in found :
          req' = [req EXCEPT ![r].at = Verdict(r, x), ![r].id = x.id]
  /\ UNCHANGED <<clock, rows, attempts, jar, sends, faults, admitted, slow>>

WithId(i) == {x \in rows : x.id = i}

Destroy(r) ==
  /\ At(r, "destroy")
  /\ rows' = rows \ WithId(req[r].id)
  /\ Answer(r, Clear)
  /\ UNCHANGED <<clock, attempts, jar, sends, faults, admitted, slow>>

(* The handler that runs once the session is loaded, under an identifier   *)
(* and with an answer so far.  A page needs nothing more; what changes a   *)
(* session may be refused for its role, its origin or its form token.      *)
Handle(r, i, a) ==
  \/ Answer(r, a)
  \/ /\ req[r].ask.kind \in {"signOut", "revoke"}
     /\ req' = [req EXCEPT ![r].at = req[r].ask.kind, ![r].id = i, ![r].answer = a]

Rotated(x, t) ==
  [x EXCEPT !.id.serial = @ + 1, !.previous = x.id,
            !.rotatedAt = t, !.regeneratedAt = t, !.lastActive = t]

(* Mutant: a delete of the row that was read, then an insert. *)
RotateByInsert(r) ==
  LET t == req[r].now
      old == req[r].id
      new == [id |-> [old EXCEPT !.serial = @ + 1], previous |-> old,
              account |-> AccountOf[req[r].browser], rotatedAt |-> t,
              regeneratedAt |-> t, lastActive |-> t, createdAt |-> t]
  IN
  /\ At(r, "rotate")
  /\ rows' = (rows \ WithId(old)) \cup {new}
  /\ Handle(r, new.id, SetTo(new.id))
  /\ UNCHANGED <<clock, attempts, jar, sends, faults, admitted, slow>>

(* UPDATE ... WHERE id = what this request has read; whoever comes second  *)
(* changes nothing and leaves the cookie alone.                            *)
Rotate(r) ==
  LET olds == WithId(req[r].id)
      news == {Rotated(x, req[r].now) : x \in olds}
  IN
  /\ At(r, "rotate")
  /\ rows' = (rows \ olds) \cup news
  /\ \/ olds = {} /\ Handle(r, req[r].id, Keep)
     \/ \E x \in news : Handle(r, x.id, SetTo(x.id))
  /\ UNCHANGED <<clock, attempts, jar, sends, faults, admitted, slow>>

(* A row that is gone, or goes by another identifier, is an error. *)
Touch(r) ==
  LET olds == WithId(req[r].id) IN
  /\ At(r, "touch")
  /\ rows' = (rows \ olds) \cup {[x EXCEPT !.lastActive = req[r].now] : x \in olds}
  /\ IF olds = {} THEN Done(r) ELSE Handle(r, req[r].id, Keep)
  /\ UNCHANGED <<clock, attempts, jar, sends, faults, admitted, slow>>

(* handleLogout clears the cookie, whatever Load has set. *)
SignOut(r) ==
  /\ At(r, "signOut")
  /\ rows' = rows \ WithId(req[r].id)
  /\ Answer(r, Clear)
  /\ UNCHANGED <<clock, attempts, jar, sends, faults, admitted, slow>>

(* RevokeAccount, RevokeAll: every session but the caller's. *)
Revoke(r) ==
  /\ At(r, "revoke")
  /\ rows' = {x \in rows : x.account \notin req[r].ask.accounts \/ x.id = req[r].id}
  /\ Done(r)
  /\ UNCHANGED <<clock, attempts, jar, sends, faults, admitted, slow>>

-----------------------------------------------------------------------------
(* handleLogin. *)

Since(as, t) == {x \in as : x.at >= t - Window}

(* Mutant: an attempt is recorded when it is over. *)
AdmitUnrecorded(r) ==
  LET q == req[r]
      kept == Since(attempts, q.now)
      this == [browser |-> q.browser, at |-> q.now, no |-> q.no]
  IN
  /\ At(r, "count")
  /\ attempts' = kept
  /\ \/ /\ Cardinality({x \in kept : x.browser = q.browser}) >= MaxTries
        /\ Done(r)
        /\ UNCHANGED admitted
     \/ /\ Cardinality({x \in kept : x.browser = q.browser}) < MaxTries
        /\ admitted' = admitted \cup {this}
        /\ Goto(r, "verify")
  /\ UNCHANGED <<clock, rows, jar, sends, faults, slow>>

(* One transaction prunes, counts and records. *)
Admit(r) ==
  LET q == req[r]
      kept == Since(attempts, q.now)
      mine == {x \in kept : x.browser = q.browser}
      this == [browser |-> q.browser, at |-> q.now, no |-> q.no]
  IN
  /\ At(r, "count")
  /\ \/ /\ Cardinality(mine) >= MaxTries
        /\ attempts' = kept
        /\ Done(r)
        /\ UNCHANGED admitted
     \/ /\ Cardinality(mine) < MaxTries
        /\ attempts' = kept \cup {this}
        /\ admitted' = admitted \cup {this}
        /\ Goto(r, "verify")
  /\ UNCHANGED <<clock, rows, jar, sends, faults, slow>>

(* The helper takes its time, and may refuse or break.                     *)
Authenticate(r) ==
  /\ At(r, "verify")
  /\ Goto(r, "policy") \/ Done(r)
  /\ UNCHANGED <<clock, rows, attempts, jar, sends, faults, admitted, slow>>

ApplyPolicy(r) ==
  /\ At(r, "policy")
  /\ Goto(r, "start") \/ Done(r)
  /\ UNCHANGED <<clock, rows, attempts, jar, sends, faults, admitted, slow>>

(* The answer with the new cookie is timed from here: what went before was *)
(* the helper's time.                                                      *)
StartSession(r) ==
  LET i == [session |-> Cardinality(FirstRows) + req[r].no, serial |-> 0] IN
  /\ At(r, "start")
  /\ rows' = rows \cup
       {[id |-> i, previous |-> None, account |-> AccountOf[req[r].browser], rotatedAt |-> 0,
         regeneratedAt |-> clock, lastActive |-> clock, createdAt |-> clock]}
  /\ req' = [req EXCEPT ![r] =
       [NoRequest EXCEPT !.at = "answer", !.answer = SetTo(i),
                         !.browser = req[r].browser, !.began = clock]]
  /\ UNCHANGED <<clock, attempts, jar, sends, faults, admitted, slow>>

-----------------------------------------------------------------------------
(* A statement fails: Find takes that for no session, destroy and the      *)
(* sign-out clear the cookie all the same, everything else is an error.    *)
StatementFails(r) ==
  /\ faults < MaxFaults /\ sends + faults < MaxSends
  /\ faults' = faults + 1
  /\ \/ \E p \in {"find", "destroy", "signOut"} : At(r, p) /\ Answer(r, Clear)
     \/ \E p \in {"rotate", "touch", "revoke", "count", "start"} : At(r, p) /\ Done(r)
  /\ UNCHANGED <<clock, rows, attempts, jar, sends, admitted, slow>>

(* Two statements on a timer; the first one failing leaves the second out. *)
Cleanup ==
  LET live == {x \in rows : x.lastActive >= clock - Idle} IN
  /\ rows' = live
  /\ \/ attempts' = Since(attempts, clock)
     \/ attempts' = attempts /\ rows' # rows
  /\ UNCHANGED <<clock, jar, req, sends, faults, admitted, slow>>

Serve(r) ==
  \/ ReadClock(r) \/ Find(r) \/ Destroy(r) \/ Rotate(r) \/ Touch(r) \/ SignOut(r)
  \/ Revoke(r) \/ Admit(r) \/ Authenticate(r) \/ ApplyPolicy(r) \/ StartSession(r) \/ StatementFails(r)

Next ==
  \/ \E r \in Slot : Serve(r) \/ Deliver(r) \/ \E b \in Browser, a \in Asks : Send(r, b, a)
  \/ Cleanup
  \/ Tick

Spec == Init /\ [][Next]_vars

-----------------------------------------------------------------------------
(* Properties. *)

(* The types of the variables; what is recorded was let through, for a    *)
(* refused attempt is not (store/loginattempt.go:24).                      *)
TypeOK ==
  /\ clock \in 0..MaxClock
  /\ rows \subseteq Row
  /\ attempts \subseteq admitted
  /\ admitted \subseteq [browser : Browser, at : 0..MaxClock, no : 1..MaxSends]
  /\ jar \in [Browser -> Identifier \cup {None}]
  /\ \A r \in Slot :
       /\ req[r].ask \in Asks \cup {NoRequest.ask}
       /\ {req[r].cookie, req[r].id, req[r].answer.id} \subseteq Identifier \cup {None}
       /\ {req[r].began, req[r].now} \subseteq 0..clock
       /\ ~ At(r, "idle") => req[r].browser \in Browser
  /\ sends \in 0..MaxSends
  /\ faults \in 0..MaxFaults
  /\ slow \subseteq Browser \X {"attempt", "session"}

Numbers(rs) == {x.id.session : x \in rs}

(* A session that ended, by a sign-out, a revocation, its age or the       *)
(* cleanup, stays ended, though other requests were in the middle of       *)
(* loading it: only a login makes a session, and a session has one row     *)
(* (store/session.go:129, "One statement rather than a delete followed by  *)
(* an insert").                                                            *)
EndedStaysEnded ==
  [][/\ Numbers(rows') \ Numbers(rows) # {} => \E r \in Slot : At(r, "start")
     /\ \A x, y \in rows' : x.id.session = y.id.session => x = y]_vars

(* Requests overlap, and one that carries the identifier another one has   *)
(* rotated away still finds the session: a browser is told it has no       *)
(* session only when that one is gone (store/session.go:54).  It holds of  *)
(* every browser whose own requests were found in time and whose own       *)
(* cookies were delivered in time, however slow the rest of the panel is.  *)
OverlapKeepsTheSession ==
  [][\A r \in Slot :
       /\ At(r, "find") /\ req'[r].at = "answer" /\ faults' = faults
       /\ <<req[r].browser, "session">> \notin slow
       => req[r].cookie.session \notin Numbers(rows)]_vars

(* However the attempts of one address interleave, no stretch as long as   *)
(* the window, less the time an attempt waits to be counted, lets more     *)
(* than MaxTries of them through (auth/ratelimit.go:47,                    *)
(* store/loginattempt.go:20), unless one of them waited longer.            *)
WindowIsBounded ==
  \A b \in Browser, t \in 0..MaxClock :
    <<b, "attempt">> \notin slow =>
      Cardinality({x \in admitted : x.browser = b /\ x.at \in t .. t + Window - Latency}) <= MaxTries

(* What the repository says of the code and the code does not keep: "The   *)
(* window covers that race" (auth/session.go:27), of a request that is     *)
(* looked up at once, whatever the one beside it goes on to do before it   *)
(* is answered.                                                            *)
GraceCoversTheOverlap ==
  [][\A r \in Slot :
       /\ At(r, "find") /\ req'[r].at = "answer" /\ faults' = faults
       /\ req[r].began = clock
       => req[r].cookie.session \notin Numbers(rows)]_vars
=============================================================================
