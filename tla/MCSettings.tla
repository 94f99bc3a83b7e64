----------------------------- MODULE MCSettings -----------------------------
(***************************************************************************)
(* A small instance of Settings: intervals of 1 to 3 with 0 as one that is *)
(* refused, the whole page, and the two cards of the SIEM page.            *)
(***************************************************************************)
EXTENDS Settings

CONSTANT c1

Defaults == [refresh |-> 1, stale |-> 3, forwarding |-> TRUE, receiver |-> Off]

Pages == [refresh : {1, 2}, stale : {0, 2, 3}, forwarding : {TRUE}, receiver : {Off, c1}]
Cards == [receiver : {Off, c1}] \cup [forwarding : BOOLEAN]
Forms == Pages \cup Cards
=============================================================================
