------------------------------ MODULE MCScheduler ------------------------------
(* Small instances of Scheduler. *)
EXTENDS Scheduler

CONSTANTS s1, s2, group

(* A batch that overwrites two records, and a change nobody can read any   *)
(* more, both for one group of two servers.                                *)
Batch == [target |-> group, kind |-> "add_many", records |-> 2,
          overwrite |-> TRUE]
Unread == [target |-> group, kind |-> "unreadable", records |-> 1,
         overwrite |-> FALSE]

(* One server fails, skips or takes a record the other one takes, or both  *)
(* leave it.                                                               *)
FiveReports ==
  LET Report(a, b) == [s \in {s1, s2} |-> IF s = s1 THEN a ELSE b]
  IN {Report("success", "success"), Report("success", "failed"),
      Report("failed", "success"), Report("skipped", "success"),
      Report("failed", "skipped")}

BatchAndUnread == {Batch, Unread}
=============================================================================
