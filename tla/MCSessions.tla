----------------------------- MODULE MCSessions -----------------------------
(***************************************************************************)
(* A small instance of Sessions: one account and two browsers, of which    *)
(* one is signed in.                                                       *)
(***************************************************************************)
EXTENDS Sessions, TLC

CONSTANTS b1, b2, u

Owner == [b \in Browser |-> u]

First(n) == [session |-> n, serial |-> 0]

(* One session at first, due for a rotation. *)
SignedIn ==
  {[id |-> First(1), previous |-> None, account |-> u, rotatedAt |-> 0,
    regeneratedAt |-> -RotateInterval, lastActive |-> 0, createdAt |-> 0]}

Cookie == b1 :> First(1) @@ b2 :> None

Kind(k) == [kind |-> k]

(* A request under another fingerprint ends its session as one that comes  *)
(* too late does; none is sent.                                            *)
Requests ==
  {Kind("page"), Kind("signOut"), Kind("signIn"), [kind |-> "revoke", accounts |-> {u}]}

Symmetry == Permutations(Slot)
=============================================================================
