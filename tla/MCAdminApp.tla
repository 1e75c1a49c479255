----------------------------- MODULE MCAdminApp -----------------------------
(* Pages, rows, offsets and files for checking AdminApp. *)
EXTENDS AdminApp

Seeded == {[idx |-> 1, app |-> "npb", client |-> "2.01.01"]}
Hours == {1}
Seconds == {1}
Times == {1}
FilesByDb == [db \in Db |-> IF db = "game" THEN {"f1", "f2"} ELSE {"f1"}]
EachPage == {{"version", "not found"}, {"clock", "not found"}, {"migrations", "not found"}}
OnVersions == {{"version", "not found"}}
OnMigrations == {{"migrations", "not found"}}
=============================================================================
