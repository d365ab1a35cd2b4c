---------------------------- MODULE MCAuthService ----------------------------
(* Instances of AuthService for TLC. *)
EXTENDS AuthService, TLC

\* Devices, sockets and challenges are interchangeable: no action names one.
Symmetry == Permutations(Device) \cup Permutations(Conn) \cup Permutations(Challenge)
=============================================================================
