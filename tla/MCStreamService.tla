---------------------------- MODULE MCStreamService ----------------------------
(* Instances of StreamService for TLC. *)
EXTENDS StreamService, TLC

\* Clients, keys and addresses are interchangeable: no action names one.
Symmetry == Permutations(Client) \cup Permutations(Key) \cup Permutations(Addr)
=============================================================================
