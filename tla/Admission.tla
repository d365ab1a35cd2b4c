------------------------------ MODULE Admission ------------------------------
(***************************************************************************)
(* What the authentication service promises the operator, without queues,  *)
(* challenges or sockets.  A device holds at most one permit and at most   *)
(* one admission, each worth "once" or "always".  Permits come and go as   *)
(* the operator and the trust registry decide; an admission starts only by *)
(* using up a permit worth at least as much, and may end at any time.      *)
(*                                                                         *)
(* Devices are independent: one step of the service may move several of    *)
(* them, as the garbage collector does.                                    *)
(***************************************************************************)
CONSTANT Device

VARIABLES permit, admitted

Worth == {"none", "once", "always"}

\* What an admission by permit w may be worth.
Within(w) == CASE w = "none"   -> {}
               [] w = "once"   -> {"once"}
               [] w = "always" -> {"once", "always"}

Init ==
  /\ permit = [d \in Device |-> "none"]
  /\ admitted = [d \in Device |-> "none"]

Decide(d) == admitted'[d] = admitted[d]

Admit(d) == admitted'[d] \in Within(permit[d]) /\ permit'[d] = "none"

Dismiss(d) == admitted'[d] = "none" /\ permit'[d] \in {permit[d], "none"}

Next ==
  /\ permit' \in [Device -> Worth]
  /\ admitted' \in [Device -> Worth]
  /\ \A d \in Device : Decide(d) \/ Admit(d) \/ Dismiss(d)

Spec == Init /\ [][Next]_<<permit, admitted>>
=============================================================================
