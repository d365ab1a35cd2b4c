--------------------------- MODULE MCCaptureService ---------------------------
(* Instances of CaptureService for TLC. *)
EXTENDS CaptureService, TLC
=============================================================================
