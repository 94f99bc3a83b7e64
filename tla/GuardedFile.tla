----------------------------- MODULE GuardedFile -----------------------------
(***************************************************************************)
(* What Transport.WriteRecords promises whoever calls it (transport.go):   *)
(* the file is replaced as a whole, and only if it still is what the       *)
(* caller last saw.  A request names the content it expects and the        *)
(* content it brings; it is armed when it has compared the two, which      *)
(* leaves room for a hand edit before it replaces, and none for another    *)
(* request.  The promise stands until it is broken for a reason that the   *)
(* caller names.                                                           *)
(***************************************************************************)
CONSTANTS Contents    \* the whole files somebody may write

VARIABLES file, asks, broken

Request == [expect : Contents, data : Contents, armed : BOOLEAN]

Init == file \in Contents /\ asks = {} /\ broken = FALSE

(* Requests arrive, are withdrawn, and compare the file with what they     *)
(* expect.                                                                 *)
Ask ==
  /\ UNCHANGED file
  /\ asks' \subseteq Request
  /\ \A a \in asks' : a.armed => a \in asks \/ a.expect = file

(* An armed request replaces the file; nobody else was armed beside it.    *)
Replace ==
  /\ \E a \in asks : a.armed /\ file' = a.data
  /\ asks' \subseteq Request
  /\ \A a \in asks' : ~ a.armed

(* Somebody edits the file on its own host. *)
HandEdit ==
  /\ file' \in Contents
  /\ UNCHANGED asks

Next ==
  \/ (Ask \/ Replace \/ HandEdit) /\ UNCHANGED broken
  \/ broken'

Spec == Init /\ [][Next]_<<file, asks, broken>>
=============================================================================
