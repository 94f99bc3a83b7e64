----------------------------- MODULE MCDnsFile -----------------------------
(***************************************************************************)
(* Small instances of DnsFile: a host written in two ways, in a zone.      *)
(***************************************************************************)
EXTENDS DnsFile

Names == {"www.net", "www.NET", "net", "NET"}

Fold == [n \in Names |-> IF n = "www.NET" THEN "www.net" ELSE IF n = "NET" THEN "net" ELSE n]
Parents == [n \in Names |-> CASE n = "www.net" -> "net" [] n = "www.NET" -> "NET" [] OTHER -> "none"]
Tree == [z \in {"www.net", "net"} |->
           IF z = "net" THEN {"www.net", "net"} ELSE {"www.net"}]

Comment == [clause |-> "comment"]
Host == [clause |-> "local-data", name |-> "www.net", type |-> "A", value |-> "v1"]

(* A new file, one with the operator's own zone and a line written twice,  *)
(* one the panel has already taken over, and one whose header somebody put *)
(* below a record.                                                         *)
HandFiles == {
  <<>>,
  <<Host, Header>>,
  <<Comment, ZoneLine("net", "static"), Host, Host>>,
  <<Header, Host, Comment>>}
=============================================================================
