---------------------------- MODULE MCDesignSync ----------------------------
(* Model values and bounds for checking DesignSync. *)
EXTENDS DesignSync

CONSTANTS c1, c2

ThreeVersions == 1 .. 3
OneRow == {{<<c1, 2>>}}
TwoRows == {{<<c1, 1>>, <<c2, 2>>}}
Overlap == {{<<c1, 1>>, <<c1, 2>>}}
Starts == OneRow \cup TwoRows \cup Overlap
=============================================================================
