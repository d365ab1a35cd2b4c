--------------------------- MODULE MCDashboard ---------------------------
(* Dashboard on small sets.                                               *)
EXTENDS Dashboard
==========================================================================
