---------------------------- MODULE StreamService ----------------------------
(***************************************************************************)
(* Streaming over UDP: heartbeats admit clients to the table, a broadcast  *)
(* loop sends each of them the frame, a cleanup loop drops the silent.     *)
(*                                                                         *)
(*   server/backend/services/stream_service.py   UDPStreamService          *)
(*   server/backend/services/auth_service.py     _Session                  *)
(*                                                                         *)
(* The server is one asyncio loop, and the broadcast awaits inside a frame *)
(* (every FRAG_YIELD_EVERY fragments), so everything may happen between    *)
(* the first fragment and the last.  AuthService says how sessions come    *)
(* and go; here they do so at any time, and an expired one counts as gone, *)
(* as it does for has_session.  A heartbeat stands for one whose HMAC,     *)
(* timestamp and nonce are good; any other leaves no trace.                *)
(***************************************************************************)
EXTENDS Naturals, FiniteSets

CONSTANTS
  Client,      \* fingerprints
  Key,         \* session keys; a fresh one is one not in use
  Addr,        \* addresses of network interfaces
  NoClient, NoKey, NoAddr, NoSession, NoEntry,   \* Python's None
  MaxClients,  \* settings.MAX_STREAM_CLIENTS
  MaxErrors,   \* MAX_SOCKET_ERRORS_BEFORE_EVICT
  MaxSeq,      \* bound on the frames sent on one entry, for TLC
  Faults       \* whether encrypting or sending may raise

VARIABLES
  session,  \* AuthService._sessions
  table,    \* _clients
  todo,     \* clients of the snapshot the round still has to serve
  orphan,   \* entries of the snapshot that are no longer in the table
  sending,  \* the client whose frame is under way
  cipher,   \* the key that frame is encrypted with
  dead      \* clients to be evicted after the round

round == <<todo, orphan, sending, cipher, dead>>
vars  == <<session, table, round>>

-----------------------------------------------------------------------------
Session == [key: Key, once: BOOLEAN, pin: Addr \cup {NoAddr}]

Entry == [key: Key, addr: Addr, seq: Nat, errors: Nat, silent: BOOLEAN]

ASSUME NullsAreNull ==
  /\ NoClient \notin Client
  /\ NoKey \notin Key
  /\ NoAddr \notin Addr
  /\ NoSession \notin Session
  /\ NoEntry \notin Entry

ASSUME ConstantsAreBounded ==
  /\ IsFiniteSet(Client)
  /\ MaxClients \in Nat \ {0}
  /\ MaxErrors \in Nat \ {0}
  /\ MaxSeq \in Nat
  /\ Faults \in BOOLEAN

Clients == {d \in Client : table[d] # NoEntry}

(***************************************************************************)
(* Types: the sessions, the table within its cap, and the round's snapshot *)
(* with the entries that have left the table since.                        *)
(***************************************************************************)
TypeOK ==
  /\ session \in [Client -> Session \cup {NoSession}]
  /\ table \in [Client -> Entry \cup {NoEntry}]
  /\ Cardinality(Clients) <= MaxClients
  /\ todo \subseteq Client /\ dead \subseteq Client
  /\ orphan \in [Client -> Entry \cup {NoEntry}]
  /\ \A d \in todo : table[d] # NoEntry \/ orphan[d] # NoEntry
  /\ sending \in todo \cup {NoClient}
  /\ cipher \in Key \cup {NoKey}

HasSession(d) == session[d] # NoSession

Fresh == {k \in Key :
  /\ cipher # k
  /\ \A d \in Client :
       /\ HasSession(d) => session[d].key # k
       /\ table[d] # NoEntry => table[d].key # k
       /\ orphan[d] # NoEntry => orphan[d].key # k}

\* The snapshot holds the entry itself, not a copy: an entry in the table is
\* the one the loop works on, unless it has left the table since.
Target(d) == IF orphan[d] = NoEntry THEN table[d] ELSE orphan[d]

Without(t, S) == [d \in Client |-> IF d \in S THEN NoEntry ELSE t[d]]

\* _clients.pop for each of S
Drop(S) ==
  /\ table' = Without(table, S)
  /\ orphan' = [d \in Client |->
                  IF d \in todo \cap S /\ orphan[d] = NoEntry THEN table[d] ELSE orphan[d]]

\* remove_session_if_single_use for each of S
RevokedOnce(S) ==
  [d \in Client |-> IF d \in S /\ HasSession(d) /\ session[d].once
                    THEN NoSession ELSE session[d]]

-----------------------------------------------------------------------------
\* Sessions, from AuthService.

Authenticate(d, k, once) ==
  /\ k \in Fresh
  /\ session' = [session EXCEPT ![d] = [key |-> k, once |-> once, pin |-> NoAddr]]
  /\ UNCHANGED <<table, round>>

\* Revoked with the trust, by a block, with its socket; or expired.
SessionEnds(d) ==
  /\ HasSession(d)
  /\ session' = [session EXCEPT ![d] = NoSession]
  /\ UNCHANGED <<table, round>>

\* The operator disconnects a client: remove_client, then remove_session.
Disconnect(d) ==
  /\ d \in Clients
  /\ Drop({d})
  /\ session' = [session EXCEPT ![d] = NoSession]
  /\ UNCHANGED <<todo, sending, cipher, dead>>

-----------------------------------------------------------------------------
\* Heartbeats, every five seconds.

\* Mutant: the pin is set and not looked at.
VerifiedAnywhere(d, a) ==
  /\ HasSession(d)
  /\ session' = IF session[d].pin = NoAddr THEN [session EXCEPT ![d].pin = a] ELSE session

\* The first heartbeat of a session pins its address.
Verified(d, a) ==
  /\ HasSession(d)
  /\ session[d].pin \in {NoAddr, a}
  /\ session' = [session EXCEPT ![d].pin = a]

Full == Cardinality(Clients) >= MaxClients

NewEntry(k, a) == [key |-> k, addr |-> a, seq |-> 0, errors |-> 0, silent |-> FALSE]

\* Mutant: the cap is not looked at.
HeartbeatAdmitsAll(d, a) ==
  /\ Verified(d, a)
  /\ d \notin Clients
  /\ table' = [table EXCEPT ![d] = NewEntry(session[d].key, a)]
  /\ UNCHANGED <<round>>

HeartbeatAdmits(d, a) ==
  /\ Verified(d, a)
  /\ d \notin Clients /\ ~Full
  /\ table' = [table EXCEPT ![d] = NewEntry(session[d].key, a)]
  /\ UNCHANGED <<round>>

HeartbeatRefused(d, a) ==
  /\ Verified(d, a)
  /\ d \notin Clients /\ Full
  /\ UNCHANGED <<table, round>>

HeartbeatRefreshes(d, a) ==
  /\ Verified(d, a)
  /\ d \in Clients
  /\ table' = [table EXCEPT ![d].key = session[d].key, ![d].addr = a, ![d].silent = FALSE]
  /\ UNCHANGED <<round>>

\* CLIENT_TIMEOUT passes without one.
Silence(d) ==
  /\ d \in Clients /\ ~table[d].silent
  /\ table' = [table EXCEPT ![d].silent = TRUE]
  /\ UNCHANGED <<session, round>>

Silent == {d \in Clients : table[d].silent}

\* Mutant: single-use sessions are kept.
CleanupTable ==
  /\ Silent # {}
  /\ Drop(Silent)
  /\ UNCHANGED <<session, todo, sending, cipher, dead>>

\* Mutant: only clients that still have a session are dropped.
CleanupSessions ==
  LET gone == {d \in Silent : HasSession(d)}
  IN  /\ gone # {}
      /\ Drop(gone)
      /\ session' = RevokedOnce(gone)
      /\ UNCHANGED <<todo, sending, cipher, dead>>

Cleanup ==
  /\ Silent # {}
  /\ Drop(Silent)
  /\ session' = RevokedOnce(Silent)
  /\ UNCHANGED <<todo, sending, cipher, dead>>

-----------------------------------------------------------------------------
\* The broadcast loop.

BeginRound ==
  /\ todo = {} /\ Clients # {}
  /\ todo' = Clients
  /\ UNCHANGED <<session, table, orphan, sending, cipher, dead>>

\* d is served and its entry is now e.  After the last client, and without an
\* await in between, the dead are evicted, by fingerprint.
Serve(d, e, gone) ==
  LET over   == todo = {d}
      served == IF orphan[d] = NoEntry THEN [table EXCEPT ![d] = e] ELSE table
  IN  /\ todo' = todo \ {d}
      /\ sending' = NoClient
      /\ cipher' = NoKey
      /\ orphan' = [orphan EXCEPT ![d] = NoEntry]
      /\ table' = IF over THEN Without(served, gone) ELSE served
      /\ session' = IF over THEN RevokedOnce(gone) ELSE session
      /\ dead' = IF over THEN {} ELSE gone

Encrypt(d) ==
  /\ sending = NoClient /\ d \in todo
  /\ Target(d).seq <= MaxSeq
  /\ sending' = d
  /\ cipher' = Target(d).key
  /\ UNCHANGED <<session, table, todo, orphan, dead>>

\* The frame is too large, or has too many fragments.
SkipFrame(d) ==
  /\ sending = NoClient /\ d \in todo
  /\ Serve(d, Target(d), dead)

Finish(d) ==
  /\ sending = d /\ d \in todo
  /\ Serve(d, [Target(d) EXCEPT !.seq = @ + 1, !.errors = 0], dead)

Fail(d) ==
  /\ Faults
  /\ sending = d /\ d \in todo
  /\ LET e == [Target(d) EXCEPT !.errors = @ + 1]
     IN  Serve(d, e, IF e.errors >= MaxErrors THEN dead \cup {d} ELSE dead)

-----------------------------------------------------------------------------
Init ==
  /\ session = [d \in Client |-> NoSession]
  /\ table = [d \in Client |-> NoEntry]
  /\ orphan = [d \in Client |-> NoEntry]
  /\ todo = {} /\ dead = {}
  /\ sending = NoClient /\ cipher = NoKey

SessionNext(d) ==
  \/ \E k \in Key, once \in BOOLEAN : Authenticate(d, k, once)
  \/ SessionEnds(d)
  \/ Disconnect(d)

HeartbeatNext(d) ==
  \/ \E a \in Addr : HeartbeatAdmits(d, a)
  \/ \E a \in Addr : HeartbeatRefused(d, a)
  \/ \E a \in Addr : HeartbeatRefreshes(d, a)
  \/ Silence(d)

RoundNext(d) ==
  \/ Encrypt(d)
  \/ SkipFrame(d)
  \/ Finish(d)
  \/ Fail(d)

Next ==
  \/ \E d \in Client : SessionNext(d) \/ HeartbeatNext(d) \/ RoundNext(d)
  \/ BeginRound
  \/ Cleanup

Spec == Init /\ [][Next]_vars

\* The cleanup loop runs for ever, and time passes for a client whose
\* heartbeats are refused.
FairSpec ==
  /\ Spec
  /\ WF_vars(Cleanup)
  /\ \A d \in Client : WF_vars(~HasSession(d) /\ Silence(d))

-----------------------------------------------------------------------------
(***************************************************************************)
(* The frames of a session go to the address that proved it holds the      *)
(* session's key, through refreshes, drops and readmissions.               *)
(***************************************************************************)
PinnedAddress ==
  \A d \in Client :
    d \in Clients /\ HasSession(d) /\ table[d].key = session[d].key
      => table[d].addr = session[d].pin

(***************************************************************************)
(* A single-use session does not outlive its place in the table, whichever *)
(* of the operator, the cleanup and the broadcast takes that away.         *)
(***************************************************************************)
SingleUseEndsWithPlace ==
  [][\A d \in Client :
       d \in Clients /\ d \notin Clients' /\ HasSession(d)'
         => ~session'[d].once]_vars

(***************************************************************************)
(* A client whose session has ended leaves the table, unless it gets       *)
(* another: heartbeats are refused, so the cleanup finds it silent.        *)
(***************************************************************************)
SessionlessLeave ==
  \A d \in Client :
    (d \in Clients /\ ~HasSession(d)) ~> (d \notin Clients \/ HasSession(d))
=============================================================================
