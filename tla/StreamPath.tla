------------------------------ MODULE StreamPath ------------------------------
(***************************************************************************)
(* The stream service with the clients that listen to it.  A client keeps  *)
(* the key of its last authentication, and its reassembler the sequence    *)
(* number of the last frame it has decoded.                                *)
(*                                                                         *)
(*   WindowsClient/core/connection_manager.py    _main_loop                *)
(*   WindowsClient/services/frame_reassembler.py process_packet            *)
(*                                                                         *)
(* Frames arrive whole and in order, or not at all.                        *)
(***************************************************************************)
EXTENDS StreamService, Integers

VARIABLES
  mine,  \* ConnectionManager.session_key
  last   \* FrameReassembler.last_successful_seq

listeners == <<mine, last>>
pathVars  == <<vars, listeners>>

\* With a new session come a new key and a new reassembler.
Reconnect(d, k, once) ==
  /\ \A e \in Client : mine[e] # k
  /\ Authenticate(d, k, once)
  /\ mine' = [mine EXCEPT ![d] = k]
  /\ last' = [last EXCEPT ![d] = -1]

\* No packet for fifteen seconds, or any other end of the connection.
GiveUp(d) ==
  /\ mine[d] # NoKey
  /\ mine' = [mine EXCEPT ![d] = NoKey]
  /\ UNCHANGED <<vars, last>>

\* The client takes a frame if it can decrypt it and has taken none as new.
Receive(d) ==
  /\ Finish(d)
  /\ last' = IF cipher = mine[d] /\ Target(d).seq > last[d]
             THEN [last EXCEPT ![d] = Target(d).seq] ELSE last
  /\ UNCHANGED mine

\* What the server does on its own, the loss of a frame included.
Elsewhere(d) ==
  /\ \/ SessionEnds(d) \/ Disconnect(d)
     \/ HeartbeatNext(d)
     \/ RoundNext(d)
  /\ UNCHANGED listeners

PathInit ==
  /\ Init
  /\ mine = [d \in Client |-> NoKey]
  /\ last = [d \in Client |-> -1]

PathNext ==
  \/ \E d \in Client, k \in Key, once \in BOOLEAN : Reconnect(d, k, once)
  \/ \E d \in Client : GiveUp(d) \/ Receive(d) \/ Elsewhere(d)
  \/ (BeginRound \/ Cleanup) /\ UNCHANGED listeners

PathSpec == PathInit /\ [][PathNext]_pathVars

-----------------------------------------------------------------------------
(***************************************************************************)
(* The reassembler discards "frames older than the last successfully       *)
(* decoded one".  In order of arrival each frame is newer than the last,   *)
(* so a client takes every frame that reaches it under its key.            *)
(***************************************************************************)
NewFramesAreTaken ==
  [][\A d \in Client : Receive(d) /\ cipher = mine[d] => last'[d] # last[d]]_pathVars

\* Whether frames of d's session have been taken, or are still to be sent on an
\* entry that has left the table.
Streamed(d) ==
  \/ mine[d] = session[d].key /\ last[d] # -1
  \/ orphan[d] # NoEntry /\ orphan[d].key = session[d].key

FirstStream == \A d \in Client : d \notin Clients /\ d \in Clients' => ~Streamed(d)

(***************************************************************************)
(* No step readmits a client under a session it has had a stream in.       *)
(* Nothing in the code sees to it: _on_heartbeat (stream_service.py:387)   *)
(* gives any client that is not in the table a new entry, which counts     *)
(* from 0, and a client that was silent for a while comes back under the   *)
(* session it has.                                                         *)
(***************************************************************************)
FirstStreams == [][FirstStream]_pathVars

(***************************************************************************)
(* A frame that a client can decrypt is one sent to it: whatever sessions  *)
(* come and go while the broadcast works on its snapshot, no client holds  *)
(* the key of a frame that is under way to another.                        *)
(***************************************************************************)
OwnFramesOnly ==
  \A d \in Client : mine[d] # NoKey /\ cipher = mine[d] => sending = d
=============================================================================
