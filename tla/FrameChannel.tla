---------------------------- MODULE FrameChannel ----------------------------
(***************************************************************************)
(* What a client's viewer is promised of the frames sent to it: each is    *)
(* shown at most once, whole, under the key it was made with, and never    *)
(* after a newer one of the same stream.  Any frame may be lost.           *)
(***************************************************************************)
EXTENDS Naturals, Sequences

VARIABLES
  sent,   \* frames sent so far, each with a number (id), a stream (life) and a key
  shown,  \* frames shown so far, in order
  key     \* the session's key

vars == <<sent, shown, key>>

Init ==
  /\ sent = {} /\ shown = <<>>
  /\ key \in Nat

Send ==
  /\ \E f \in sent' :
       /\ \A g \in sent : g.id < f.id
       /\ sent' = sent \cup {f}
  /\ UNCHANGED <<shown, key>>

Show(f) ==
  /\ f.key = key
  /\ \A i \in 1..Len(shown) : shown[i].life = f.life => shown[i].id < f.id
  /\ shown' = Append(shown, f)
  /\ UNCHANGED <<sent, key>>

Rekey ==
  /\ key' > key
  /\ UNCHANGED <<sent, shown>>

Next ==
  \/ Send
  \/ \E f \in sent : Show(f)
  \/ Rekey

Spec == Init /\ [][Next]_vars
=============================================================================
