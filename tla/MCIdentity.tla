--------------------------- MODULE MCIdentity ---------------------------
(* Identity with a small number of faults.                               *)
EXTENDS Identity
=========================================================================
