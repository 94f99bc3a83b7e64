---------------------------- MODULE MCRefreshPass ----------------------------
(***************************************************************************)
(* A small instance of RefreshPass: two servers on two machines, and the   *)
(* histories of the budgets.                                               *)
(***************************************************************************)
EXTENDS RefreshPass, TLC

CONSTANTS s1, s2, h1, h2

AtHosts == s1 :> h1

Budget(ops, calls, writes, faults) ==
  [ops |-> ops, calls |-> calls, writes |-> writes, faults |-> faults]

(* Operators beside each other, callers beside each other, and both. *)
Histories == {Budget(2, 0, 0, 2), Budget(3, 0, 0, 0), Budget(0, 3, 1, 1), Budget(1, 2, 0, 1), Budget(2, 1, 0, 0),
              Budget(1, 1, 1, 1)}

=============================================================================
