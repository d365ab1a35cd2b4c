-------------------------- MODULE MCFrameReassembler --------------------------
(* Instances of FrameReassembler for TLC. *)
EXTENDS FrameReassembler, TLC
=============================================================================
