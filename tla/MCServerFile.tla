---------------------------- MODULE MCServerFile ----------------------------
(***************************************************************************)
(* Small instances of ServerFile: one host record with two candidate       *)
(* values, so that a name can be taken, and a resolver that refuses one of *)
(* the two.                                                                *)
(***************************************************************************)
EXTENDS ServerFile, TLC

CONSTANTS a1, a2

TwoValues == {a1, a2}
HostKeys == [r \in TwoValues |-> "host"]
NoParents == [r \in TwoValues |-> {}]
NoCovers == [p \in {} |-> {}]
NoNames == [l \in {} |-> "host"]

(* No stored copy, no operation: unlike every content and every operation. *)
NoContent == {"none"}
NoOperation == [kind |-> "none"]

(* Two users at odds over one name. *)
RivalOps == {[kind |-> "add", record |-> a1], [kind |-> "set", record |-> a2],
             [kind |-> "delete", record |-> a1]}

(* The resolver refuses a file that holds a2. *)
RefusesA2 == {c \in SUBSET TwoValues : a2 \notin c}

OneFile == {{a1}}

Symmetry == Permutations(Workers)
=============================================================================
