--------------------------- MODULE MCResourceSync ---------------------------
(* Windows and offsets for checking ResourceSync. *)
EXTENDS ResourceSync

Long == [from |-> 0, to |-> 2]
Short == [from |-> 1, to |-> 2]
Overlapping == {Long, Short}
AtFirst == {Long}
Ahead == {5}
=============================================================================
