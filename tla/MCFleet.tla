------------------------------- MODULE MCFleet -------------------------------
(***************************************************************************)
(* Small instances of Fleet: a host with two candidate values, its parent  *)
(* zone, and a block of that zone.                                         *)
(***************************************************************************)
EXTENDS Fleet, TLC

CONSTANTS a1, a2, block, zone, s1, s2, s3, g1, g2

Records == {a1, a2, block}
Names == [l \in {a1, a2, block, zone} |-> IF l \in {a1, a2} THEN "host" ELSE "zone"]
Spelled == [l \in {block, zone} |-> "zone"]
Blocked == [p \in {block} |-> {a1, a2}]
Parents == [r \in {a1, a2} |-> {zone}]

(* Two servers of one group at odds, a third one elsewhere; the block and  *)
(* the zone line refuse each other.                                        *)
Files == {s1 :> {a1, zone} @@ s2 :> {block} @@ s3 :> {a2, zone}}
InGroups == s1 :> g1 @@ s2 :> g1 @@ s3 :> g2
Sources == g1 :> s1 @@ g2 :> None

Wishes == {[kind |-> "mirror", target |-> g1], [kind |-> "mirror", target |-> s2],
           [kind |-> "repair_all", target |-> g1],
           [kind |-> "repair", target |-> g1, record |-> a2],
           [kind |-> "apply", target |-> g1, op |-> [kind |-> "add", record |-> a1]]}

Transfers == {[server |-> s1, group |-> g2, enabled |-> TRUE],
              [server |-> s2, group |-> g1, enabled |-> FALSE]}

Symmetry == Permutations(Requests) \cup Permutations(Operators)
=============================================================================
