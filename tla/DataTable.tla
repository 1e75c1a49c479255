------------------------------ MODULE DataTable ------------------------------
(***************************************************************************)
(* The table that the pages of the admin client share                      *)
(* (web/admin/src/components/DataTable.tsx): which rows can be clicked, and *)
(* what a click makes of the selection, which its page keeps.  Rows are    *)
(* named by getRowId.  Widths, heights and the drag handles are left out.  *)
(***************************************************************************)

\* The body has rows to click unless the data is still to come.
ShownRows(loading, data) == IF loading THEN {} ELSE data

\* A row or its checkbox was clicked: the checkbox keeps its click to itself, so that
\* the row does not take the selection back.
Toggled(selection, id) ==
    IF id \in selection THEN selection \ {id} ELSE selection \cup {id}

\* The checkbox of the header, which is checked when every row is.
AllToggled(selection, ids) ==
    IF ids \subseteq selection THEN selection \ ids ELSE selection \cup ids
=============================================================================
