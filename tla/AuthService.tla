----------------------------- MODULE AuthService -----------------------------
(***************************************************************************)
(* Who may stream: the pending queue, the trust registry, the sessions and *)
(* the /ws/auth connections of the server, with the Windows client at the  *)
(* other end of each connection.                                           *)
(*                                                                         *)
(*   server/backend/services/auth_service.py   AuthService                 *)
(*   server/backend/services/device_registry.py  trusted/ and blocked/     *)
(*   server/backend/main.py   auth_ws and the device routes                *)
(*   WindowsClient/services/auth_service.py   authenticate                 *)
(*                                                                         *)
(* The server is one asyncio loop: what a coroutine does between two       *)
(* awaits is one action.  The only await with work on this state after it  *)
(* is the one in block_permanently, which is two actions here.             *)
(*                                                                         *)
(* A Challenge stands for the random challenge together with the ephemeral *)
(* X25519 key made with it; the session key is derived from both, so the   *)
(* challenge names the key as well.  Time is abstract: a deadline passes   *)
(* in an Expire action, at any moment the code does not rule out.          *)
(***************************************************************************)
EXTENDS Naturals, Sequences, FiniteSets, SequencesExt

CONSTANTS
  Device,       \* fingerprints
  Conn,         \* /ws/auth sockets; a closed one nobody refers to is reused
  Challenge,    \* random challenges; a fresh one is one not in use
  NoDevice, NoChallenge, NoRequest, NoSession,   \* Python's None
  MaxPending,   \* settings.MAX_PENDING_DEVICES
  MaxOrder,     \* bound on the length of _pending_order, for TLC
  MaxBlocking,  \* bound on block requests in flight for one device, for TLC
  DiskFaults    \* whether a registry write or delete may raise (full disk, locked file)

ASSUME NullsAreNull ==
  /\ NoDevice \notin Device
  /\ NoChallenge \notin Challenge

ASSUME BoundsAreNaturals ==
  /\ MaxPending \in Nat \ {0}
  /\ MaxOrder \in Nat
  /\ MaxBlocking \in Nat
  /\ DiskFaults \in BOOLEAN

VARIABLES
  trusted,    \* devices with a file in trusted/
  blocked,    \* devices with a file in blocked/
  pending,    \* AuthService._pending
  order,      \* AuthService._pending_order
  sessions,   \* AuthService._sessions
  blocking,   \* block_permanently coroutines of a device awaiting a send
  peer,       \* the device at the other end of a socket
  phase,      \* how far the client on a socket has come
  held,       \* the challenge that client will answer
  pendingFp,  \* auth_ws's pending_fingerprint
  authedFp,   \* auth_ws's authed_fingerprint
  shut        \* the server has closed the socket from another coroutine

registry == <<trusted, blocked>>
queue    == <<pending, order>>
sockets  == <<peer, phase, held, pendingFp, authedFp, shut>>
vars     == <<registry, queue, sessions, blocking, sockets>>

-----------------------------------------------------------------------------
\* A grant is history, not code: what the operator has decided about this
\* very challenge, "none" until the challenge may leave the server.
Grant == {"none", "once", "always"}

Request == [chal: Challenge, ws: Conn, allowOnce: BOOLEAN,
            expired: BOOLEAN, grant: Grant]

Session == [key: Challenge, ws: Conn, singleUse: BOOLEAN,
            expired: BOOLEAN, grant: Grant]

\* The client on a socket: connected; told "pending" and sending PINGs;
\* holding a challenge it will answer; told "authenticated"; told anything
\* else, so about to hang up.
Phase == {"closed", "open", "waiting", "challenged", "authed", "over"}

(***************************************************************************)
(* Types.  The requests, sessions and sockets that AuthService and auth_ws *)
(* hold always have the shape of their classes.  Every request and session *)
(* knows the socket it came in on, although auth_ws defaults to None on    *)
(* the way there: without it an approval could not be pushed, nor a        *)
(* single-use session be tied to its socket.                               *)
(***************************************************************************)
TypeOK ==
  /\ trusted \subseteq Device
  /\ blocked \subseteq Device
  /\ pending \in [Device -> Request \cup {NoRequest}]
  /\ order \in Seq(Device)
  /\ sessions \in [Device -> Session \cup {NoSession}]
  /\ blocking \in [Device -> Nat]
  /\ peer \in [Conn -> Device \cup {NoDevice}]
  /\ phase \in [Conn -> Phase]
  /\ held \in [Conn -> Challenge \cup {NoChallenge}]
  /\ pendingFp \in [Conn -> Device \cup {NoDevice}]
  /\ authedFp \in [Conn -> Device \cup {NoDevice}]
  /\ shut \in [Conn -> BOOLEAN]

IsPending(d)  == pending[d] # NoRequest
HasSession(d) == sessions[d] # NoSession

\* The outcomes of a registry write or delete: it succeeds, or raises.
WriteOutcome == IF DiskFaults THEN BOOLEAN ELSE {TRUE}

InUse(ch) ==
  \/ \E d \in Device : IsPending(d) /\ pending[d].chal = ch
  \/ \E d \in Device : HasSession(d) /\ sessions[d].key = ch
  \/ \E c \in Conn : held[c] = ch

Fresh == {ch \in Challenge : ~InUse(ch)}

Referenced(c) ==
  \/ \E d \in Device : IsPending(d) /\ pending[d].ws = c
  \/ \E d \in Device : HasSession(d) /\ sessions[d].ws = c

-----------------------------------------------------------------------------
\* Effects shared by the handlers.

\* Mutant: auth_ws is not handed on and keeps its default, None.
NewRequestUnbound(ch, c, g) ==
  [chal |-> ch, ws |-> NoDevice, allowOnce |-> FALSE, expired |-> FALSE, grant |-> g]

NewRequest(ch, c, g) ==
  [chal |-> ch, ws |-> c, allowOnce |-> FALSE, expired |-> FALSE, grant |-> g]

\* PendingRequest.refresh keeps allow_once.
Refreshed(req, ch, c) ==
  [req EXCEPT !.chal = ch, !.ws = c, !.expired = FALSE, !.grant = "always"]

\* s without its elements at the positions gone.
DropAt(s, gone) ==
  LET kept    == DOMAIN s \ gone
      rank(i) == Cardinality({j \in kept : j <= i})
  IN  [k \in 1 .. Cardinality(kept) |-> s[CHOOSE i \in kept : rank(i) = k]]

\* deque.remove(fp) for each fp of a set: it takes out the first occurrence
\* only and is quiet when there is none.
WithoutFirst(s, S) ==
  DropAt(s, {i \in DOMAIN s : s[i] \in S /\ \A j \in 1 .. i-1 : s[j] # s[i]})

\* Mutant: the request stays in _pending.
DequeueOrderOnly(d) ==
  /\ order' = WithoutFirst(order, {d})
  /\ UNCHANGED pending

\* _pending.pop(fp) and _pending_order.remove(fp)
Dequeue(d) ==
  /\ pending' = [pending EXCEPT ![d] = NoRequest]
  /\ order' = WithoutFirst(order, {d})

QueueFull == Cardinality({d \in Device : IsPending(d)}) >= MaxPending

\* A full queue gives up the request at the front of _pending_order.
AfterEviction ==
  IF QueueFull THEN [pending EXCEPT ![Head(order)] = NoRequest] ELSE pending

OrderAfterEviction == IF QueueFull THEN Tail(order) ELSE order

DropSession(d) == sessions' = [sessions EXCEPT ![d] = NoSession]

\* remove_session_if_single_use
RevokeSingleUse(d) ==
  IF HasSession(d) /\ sessions[d].singleUse
  THEN DropSession(d) ELSE UNCHANGED sessions

\* The server tells the client on c something; a waiting client that reads a
\* refusal gives up, one that has its challenge has answered already.
Refuse(c) == phase' = [phase EXCEPT ![c] = "over"]

CloseFromServer(c) ==
  /\ shut' = [shut EXCEPT ![c] = TRUE]
  /\ phase' = [phase EXCEPT ![c] = IF @ = "waiting" THEN "over" ELSE @]
  /\ UNCHANGED <<peer, held, pendingFp, authedFp>>

\* _push_challenge_to_client: quiet when the request has expired or its
\* socket is gone; a client takes the first challenge it is sent.
Push(d) ==
  LET req == pending[d]
      c   == req.ws
  IN  IF ~req.expired /\ ~shut[c] /\ phase[c] = "waiting"
      THEN /\ phase' = [phase EXCEPT ![c] = "challenged"]
           /\ held' = [held EXCEPT ![c] = req.chal]
           /\ UNCHANGED <<peer, pendingFp, authedFp, shut>>
      ELSE UNCHANGED sockets

-----------------------------------------------------------------------------
\* The client connects and sends one HELLO; auth_ws answers it.

Connect(c, d) ==
  /\ phase[c] = "closed" /\ ~Referenced(c)
  /\ phase' = [phase EXCEPT ![c] = "open"]
  /\ peer' = [peer EXCEPT ![c] = d]
  /\ shut' = [shut EXCEPT ![c] = FALSE]
  /\ UNCHANGED <<registry, queue, sessions, blocking, held, pendingFp, authedFp>>

\* Either limiter refuses.  Their counting is left to nondeterminism.
HelloRateLimited(c) ==
  /\ phase[c] = "open"
  /\ Refuse(c)
  /\ UNCHANGED <<registry, queue, sessions, blocking,
                 peer, held, pendingFp, authedFp, shut>>

HelloBlocked(c) ==
  /\ phase[c] = "open" /\ peer[c] \in blocked
  /\ Refuse(c)
  /\ UNCHANGED <<registry, queue, sessions, blocking,
                 peer, held, pendingFp, authedFp, shut>>

\* Mutant: the order is not kept.
IssueChallengeUnordered(d, c, ch) ==
  /\ pending' = [pending EXCEPT ![d] = NewRequest(ch, c, "always")]
  /\ UNCHANGED order

\* _issue_challenge: a live request is refreshed in place, an expired one is
\* replaced; neither looks at MAX_PENDING.
IssueChallenge(d, c, ch) ==
  /\ pending' = [pending EXCEPT ![d] =
       IF IsPending(d) /\ ~pending[d].expired
       THEN Refreshed(pending[d], ch, c) ELSE NewRequest(ch, c, "always")]
  /\ order' = IF Contains(order, d) THEN order ELSE Append(order, d)

\* Mutant: trust is looked up first.
HelloTrustedFirst(c, ch) ==
  /\ phase[c] = "open" /\ peer[c] \in trusted
  /\ ch \in Fresh
  /\ IssueChallenge(peer[c], c, ch)
  /\ phase' = [phase EXCEPT ![c] = "challenged"]
  /\ held' = [held EXCEPT ![c] = ch]
  /\ UNCHANGED <<registry, sessions, blocking, peer, pendingFp, authedFp, shut>>

HelloTrusted(c, ch) ==
  /\ phase[c] = "open" /\ peer[c] \in trusted \ blocked
  /\ ch \in Fresh
  /\ IssueChallenge(peer[c], c, ch)
  /\ phase' = [phase EXCEPT ![c] = "challenged"]
  /\ held' = [held EXCEPT ![c] = ch]
  /\ UNCHANGED <<registry, sessions, blocking, peer, pendingFp, authedFp, shut>>

\* An unknown device queues up, in place of any request it had.
Enqueue(d, c, ch) ==
  /\ pending' = [AfterEviction EXCEPT ![d] = NewRequest(ch, c, "none")]
  /\ order' = Append(OrderAfterEviction, d)

\* save_recent comes last: if it raises, the request stays and auth_ws answers
\* "error" without noting pending_fingerprint.
HelloPending(c, ch, saved) ==
  /\ phase[c] = "open" /\ peer[c] \notin trusted \cup blocked
  /\ ch \in Fresh
  /\ Len(OrderAfterEviction) < MaxOrder
  /\ Enqueue(peer[c], c, ch)
  /\ phase' = [phase EXCEPT ![c] = IF saved THEN "waiting" ELSE "over"]
  /\ pendingFp' = IF saved THEN [pendingFp EXCEPT ![c] = peer[c]] ELSE pendingFp
  /\ UNCHANGED <<registry, sessions, blocking, peer, held, authedFp, shut>>

-----------------------------------------------------------------------------
\* The waiting client's PING: refresh_pending moves the deadline of whatever
\* request the fingerprint has, expired or not.
Ping(c) ==
  LET d == pendingFp[c]
  IN  /\ phase[c] \in {"waiting", "challenged"} /\ d # NoDevice
      /\ IsPending(d)
      /\ pending' = [pending EXCEPT ![d].expired = FALSE]
      /\ UNCHANGED <<registry, order, sessions, blocking, sockets>>

\* The client answers its challenge, once; verify_challenge decides.
Answers(c) == phase[c] = "challenged" /\ held' = [held EXCEPT ![c] = NoChallenge]

VerifyUnknown(c) ==
  /\ Answers(c) /\ ~IsPending(peer[c])
  /\ Refuse(c)
  /\ UNCHANGED <<registry, queue, sessions, blocking,
                 peer, pendingFp, authedFp, shut>>

VerifyExpired(c) ==
  /\ Answers(c) /\ IsPending(peer[c]) /\ pending[peer[c]].expired
  /\ Dequeue(peer[c])
  /\ Refuse(c)
  /\ UNCHANGED <<registry, sessions, blocking, peer, pendingFp, authedFp, shut>>

\* Mutant: the signature is not checked against the current challenge.
AnySignature(c) == held[c] # NoChallenge

SignatureOK(c) == pending[peer[c]].chal = held[c]

\* A signature over another challenge: the request stays.
VerifyBadSignature(c) ==
  /\ Answers(c) /\ IsPending(peer[c]) /\ ~pending[peer[c]].expired
  /\ ~SignatureOK(c)
  /\ Refuse(c)
  /\ UNCHANGED <<registry, queue, sessions, blocking,
                 peer, pendingFp, authedFp, shut>>

\* Mutant: allow_once is not passed on.
SessionFromForgetful(req) ==
  [key |-> req.chal, ws |-> req.ws, singleUse |-> FALSE,
   expired |-> FALSE, grant |-> req.grant]

SessionFrom(req) ==
  [key |-> req.chal, ws |-> req.ws, singleUse |-> req.allowOnce,
   expired |-> FALSE, grant |-> req.grant]

\* The session is stored first, then the registry is written, then the
\* request is removed: a write that raises leaves session and request both.
VerifyAccept(c, saved) ==
  LET d == peer[c]
  IN  /\ Answers(c) /\ IsPending(d) /\ ~pending[d].expired
      /\ SignatureOK(c)
      /\ sessions' = [sessions EXCEPT ![d] = SessionFrom(pending[d])]
      /\ IF saved
         THEN /\ Dequeue(d)
              /\ authedFp' = [authedFp EXCEPT ![c] = d]
              /\ pendingFp' = [pendingFp EXCEPT ![c] = NoDevice]
              /\ phase' = [phase EXCEPT ![c] = "authed"]
         ELSE Refuse(c) /\ UNCHANGED <<queue, authedFp, pendingFp>>
      /\ UNCHANGED <<registry, blocking, peer, shut>>

-----------------------------------------------------------------------------
\* auth_ws ends: its finally block revokes the single-use session of the
\* device it authenticated, whichever socket that session came from.

\* Mutant: the finally block tests the other fingerprint.
RevocationOfPending(c) ==
  IF pendingFp[c] # NoDevice THEN RevokeSingleUse(pendingFp[c])
  ELSE UNCHANGED sessions

Revocation(c) ==
  IF authedFp[c] # NoDevice THEN RevokeSingleUse(authedFp[c])
  ELSE UNCHANGED sessions

CloseSocket(c) ==
  /\ phase' = [phase EXCEPT ![c] = "closed"]
  /\ held' = [held EXCEPT ![c] = NoChallenge]
  /\ peer' = [peer EXCEPT ![c] = NoDevice]
  /\ pendingFp' = [pendingFp EXCEPT ![c] = NoDevice]
  /\ authedFp' = [authedFp EXCEPT ![c] = NoDevice]
  /\ UNCHANGED shut

Leave(c) ==
  /\ phase[c] # "closed"
  /\ Revocation(c)
  /\ CloseSocket(c)
  /\ UNCHANGED <<registry, queue, blocking>>

\* The client hangs up, or the network or the server's close ends the socket.
Disconnect(c) == Leave(c)

\* Mutant: only a socket that never said HELLO is timed out.
IdleTimeoutBeforeHello(c) == phase[c] = "open" /\ Leave(c)

\* A client sends PINGs only while it waits, so 90 silent seconds can pass in
\* every other phase.
IdleTimeout(c) == phase[c] # "waiting" /\ Leave(c)

-----------------------------------------------------------------------------
\* The operator's actions (dashboard routes).

Approve(d) ==
  /\ IsPending(d)
  /\ trusted' = trusted \cup {d}
  /\ pending' = [pending EXCEPT ![d].grant = "always"]
  /\ Push(d)
  /\ UNCHANGED <<blocked, order, sessions, blocking>>

AllowOnce(d) ==
  /\ IsPending(d)
  /\ pending' = [pending EXCEPT ![d].allowOnce = TRUE,
                                ![d].grant = IF @ = "none" THEN "once" ELSE @]
  /\ Push(d)
  /\ UNCHANGED <<registry, order, sessions, blocking>>

\* Also what a second click does, and a block of a device neither pending nor
\* trusted: the fingerprint leaves the order even when the request is gone.
Reject(d) ==
  /\ Dequeue(d)
  /\ IF IsPending(d) THEN CloseFromServer(pending[d].ws) ELSE UNCHANGED sockets
  /\ UNCHANGED <<registry, sessions, blocking>>

\* save_blocked writes blocked/ and deletes from trusted/, then the session
\* goes.  A step that raises leaves the steps before it done.
FinishBlock(d, saved, deleted) ==
  /\ blocked' = IF saved THEN blocked \cup {d} ELSE blocked
  /\ IF saved /\ (deleted \/ d \notin trusted)
     THEN trusted' = trusted \ {d} /\ DropSession(d)
     ELSE UNCHANGED <<trusted, sessions>>

\* block_permanently of a pending device: everything up to the await.
BlockPending(d) ==
  /\ IsPending(d) /\ blocking[d] < MaxBlocking
  /\ Dequeue(d)
  /\ CloseFromServer(pending[d].ws)
  /\ blocking' = [blocking EXCEPT ![d] = @ + 1]
  /\ UNCHANGED <<registry, sessions>>

\* Its send and close have returned.
BlockResumes(d, saved, deleted) ==
  /\ blocking[d] > 0
  /\ blocking' = [blocking EXCEPT ![d] = @ - 1]
  /\ FinishBlock(d, saved, deleted)
  /\ UNCHANGED <<queue, sockets>>

\* block_permanently of a device that is not pending has nothing to await.
BlockTrusted(d, saved, deleted) ==
  /\ ~IsPending(d) /\ d \in trusted
  /\ Dequeue(d)
  /\ FinishBlock(d, saved, deleted)
  /\ UNCHANGED <<blocking, sockets>>

RemoveTrust(d) ==
  /\ d \in trusted
  /\ DropSession(d)
  /\ trusted' = trusted \ {d}
  /\ UNCHANGED <<blocked, queue, blocking, sockets>>

DisconnectDevice(d) ==
  /\ DropSession(d)
  /\ UNCHANGED <<registry, queue, blocking, sockets>>

Unblock(d) ==
  /\ d \in blocked
  /\ blocked' = blocked \ {d}
  /\ UNCHANGED <<trusted, queue, sessions, blocking, sockets>>

\* remove_blocked, then save_trusted.
TrustBlocked(d, saved) ==
  /\ d \in blocked
  /\ blocked' = blocked \ {d}
  /\ trusted' = IF saved THEN trusted \cup {d} ELSE trusted
  /\ UNCHANGED <<queue, sessions, blocking, sockets>>

-----------------------------------------------------------------------------
\* Deadlines, the garbage collector, the stream service's calls, restarts.

RequestExpires(d) ==
  /\ IsPending(d) /\ ~pending[d].expired
  /\ pending' = [pending EXCEPT ![d].expired = TRUE]
  /\ UNCHANGED <<registry, order, sessions, blocking, sockets>>

SessionExpires(d) ==
  /\ HasSession(d) /\ ~sessions[d].expired
  /\ sessions' = [sessions EXCEPT ![d].expired = TRUE]
  /\ UNCHANGED <<registry, queue, blocking, sockets>>

ExpiredRequests == {d \in Device : IsPending(d) /\ pending[d].expired}
ExpiredSessions == {d \in Device : HasSession(d) /\ sessions[d].expired}

\* Mutant: only sessions are collected.
CollectNoRequests == UNCHANGED queue

\* _gc_challenges removes one occurrence from the order for each request.
CollectRequests ==
  /\ pending' = [d \in Device |->
                   IF d \in ExpiredRequests THEN NoRequest ELSE pending[d]]
  /\ order' = WithoutFirst(order, ExpiredRequests)

CollectSessions ==
  sessions' = [d \in Device |->
                 IF d \in ExpiredSessions THEN NoSession ELSE sessions[d]]

CollectGarbage ==
  /\ ExpiredRequests \cup ExpiredSessions # {}
  /\ CollectSessions
  /\ CollectRequests
  /\ UNCHANGED <<registry, blocking, sockets>>

\* has_session, called for each heartbeat, deletes an expired session.
HeartbeatFindsExpired(d) ==
  /\ d \in ExpiredSessions
  /\ DropSession(d)
  /\ UNCHANGED <<registry, queue, blocking, sockets>>

\* The stream service's cleanup found no heartbeat of d for CLIENT_TIMEOUT.
StreamClientStale(d) ==
  /\ HasSession(d) /\ sessions[d].singleUse
  /\ RevokeSingleUse(d)
  /\ UNCHANGED <<registry, queue, blocking, sockets>>

\* Only the registry survives the process.
ForgetAll ==
  /\ pending' = [d \in Device |-> NoRequest]
  /\ order' = <<>>
  /\ sessions' = [d \in Device |-> NoSession]
  /\ blocking' = [d \in Device |-> 0]
  /\ peer' = [c \in Conn |-> NoDevice]
  /\ phase' = [c \in Conn |-> "closed"]
  /\ held' = [c \in Conn |-> NoChallenge]
  /\ pendingFp' = [c \in Conn |-> NoDevice]
  /\ authedFp' = [c \in Conn |-> NoDevice]
  /\ shut' = [c \in Conn |-> FALSE]

Restart ==
  /\ ForgetAll
  /\ UNCHANGED registry

\* The process dies between save_blocked's write and its remove_trusted.
CrashInSaveBlocked(d) ==
  /\ blocking[d] > 0 \/ (d \in trusted /\ ~IsPending(d))
  /\ blocked' = blocked \cup {d}
  /\ UNCHANGED trusted
  /\ ForgetAll

-----------------------------------------------------------------------------
Init ==
  /\ trusted \in SUBSET Device
  /\ blocked \in SUBSET (Device \ trusted)
  /\ pending = [d \in Device |-> NoRequest]
  /\ order = <<>>
  /\ sessions = [d \in Device |-> NoSession]
  /\ blocking = [d \in Device |-> 0]
  /\ peer = [c \in Conn |-> NoDevice]
  /\ phase = [c \in Conn |-> "closed"]
  /\ held = [c \in Conn |-> NoChallenge]
  /\ pendingFp = [c \in Conn |-> NoDevice]
  /\ authedFp = [c \in Conn |-> NoDevice]
  /\ shut = [c \in Conn |-> FALSE]

ClientNext(c) ==
  \/ \E d \in Device : Connect(c, d)
  \/ HelloRateLimited(c)
  \/ HelloBlocked(c)
  \/ \E ch \in Challenge : HelloTrusted(c, ch)
  \/ \E ch \in Challenge, saved \in WriteOutcome : HelloPending(c, ch, saved)
  \/ Ping(c)
  \/ VerifyUnknown(c)
  \/ VerifyExpired(c)
  \/ VerifyBadSignature(c)
  \/ \E saved \in WriteOutcome : VerifyAccept(c, saved)
  \/ Disconnect(c)
  \/ IdleTimeout(c)

OperatorNext(d) ==
  \/ Approve(d)
  \/ AllowOnce(d)
  \/ Reject(d)
  \/ BlockPending(d)
  \/ \E saved, deleted \in WriteOutcome : BlockResumes(d, saved, deleted)
  \/ \E saved, deleted \in WriteOutcome : BlockTrusted(d, saved, deleted)
  \/ RemoveTrust(d)
  \/ DisconnectDevice(d)
  \/ Unblock(d)
  \/ \E saved \in WriteOutcome : TrustBlocked(d, saved)

ServerNext(d) ==
  \/ RequestExpires(d)
  \/ SessionExpires(d)
  \/ HeartbeatFindsExpired(d)
  \/ StreamClientStale(d)
  \/ CrashInSaveBlocked(d)

Next ==
  \/ \E c \in Conn : ClientNext(c)
  \/ \E d \in Device : OperatorNext(d)
  \/ \E d \in Device : ServerNext(d)
  \/ CollectGarbage
  \/ Restart

Spec == Init /\ [][Next]_vars

\* The collector's loop sleeps and runs for ever, and wait_for raises once 90
\* seconds have passed in silence.
FairSpec == Spec /\ WF_vars(CollectGarbage)
                 /\ \A c \in Conn : WF_vars(IdleTimeout(c))

-----------------------------------------------------------------------------
(***************************************************************************)
(* Every pending request has its place in the queue's order, so the        *)
(* popleft of a full queue never raises and the collector can never leave  *)
(* a request no eviction reaches.  _pending and _pending_order are updated *)
(* separately in handle_hello, _issue_challenge, verify_challenge, reject, *)
(* block_permanently and _gc_challenges.                                   *)
(***************************************************************************)
QueueCovers == \A d \in Device : IsPending(d) => Contains(order, d)

(***************************************************************************)
(* No session without the operator: the challenge a session grew from was  *)
(* granted while it was pending, and one granted by "allow once" alone     *)
(* gives a single-use session.  This crosses HELLO, refresh, approve,      *)
(* allow_once, push and verify_challenge, on several sockets.              *)
(***************************************************************************)
SessionsGranted ==
  \A d \in Device : HasSession(d) =>
    /\ sessions[d].grant # "none"
    /\ sessions[d].grant = "once" => sessions[d].singleUse

(***************************************************************************)
(* A single-use session lives only while the socket it was authenticated   *)
(* on is open and auth_ws knows it has to revoke it (FINDING-04 of         *)
(* auth_service.py).  Holds when no registry write fails.                  *)
(***************************************************************************)
SingleUseTied ==
  \A d \in Device : HasSession(d) /\ sessions[d].singleUse =>
    /\ phase[sessions[d].ws] = "authed"
    /\ authedFp[sessions[d].ws] = d

(***************************************************************************)
(* A challenge is used up by the session made from it: no request still    *)
(* offers it, so the same signed answer never makes a second session, and  *)
(* two sessions never share a key.  Holds when no registry write fails.    *)
(***************************************************************************)
ChallengesUsedOnce ==
  \A d, e \in Device :
    /\ IsPending(d) /\ HasSession(e) => pending[d].chal # sessions[e].key
    /\ HasSession(d) /\ HasSession(e) /\ d # e => sessions[d].key # sessions[e].key

(***************************************************************************)
(* The service implements Admission: a pending request is a permit worth   *)
(* its grant, a session is an admission.  Holds when no registry write     *)
(* fails: verify_challenge then always uses the request up.                *)
(***************************************************************************)
permitted == [d \in Device |-> IF IsPending(d) THEN pending[d].grant ELSE "none"]

admission == [d \in Device |-> IF HasSession(d)
                               THEN IF sessions[d].singleUse THEN "once" ELSE "always"
                               ELSE "none"]

Promise == INSTANCE Admission WITH permit <- permitted, admitted <- admission

ImplementsAdmission == Promise!Spec

(***************************************************************************)
(* What a block is worth: a blocked device that has neither a request nor  *)
(* a session gets neither while it stays blocked, even when a crash in     *)
(* save_blocked has left it trusted as well.  (One whose HELLO came before *)
(* the block was written has a request, and may still get its session.)    *)
(***************************************************************************)
BlockHolds ==
  [][\A d \in blocked \cap blocked' :
       ~IsPending(d) /\ ~HasSession(d)
         => pending'[d] = NoRequest /\ sessions'[d] = NoSession]_vars

(***************************************************************************)
(* Every single-use session that auth_ws knows of comes to an end: the     *)
(* client falls silent after authentication, the idle timeout closes its   *)
(* socket, and the finally block of auth_ws revokes the session.  One      *)
(* whose registry write raised is not known to auth_ws; it ends with its   *)
(* deadline.                                                               *)
(***************************************************************************)
KnownSingleUse(d) ==
  HasSession(d) /\ sessions[d].singleUse /\ authedFp[sessions[d].ws] = d

SingleUseEnds == \A d \in Device : KnownSingleUse(d) ~> ~KnownSingleUse(d)

(***************************************************************************)
(* An expired request does not stay: _gc_challenges removes it unless a    *)
(* PING or a new HELLO revives it first.                                   *)
(***************************************************************************)
ExpiredRequestsLeave ==
  \A d \in Device : (d \in ExpiredRequests) ~> (d \notin ExpiredRequests)

-----------------------------------------------------------------------------
\* What the repository says of itself and the code does not keep.

(***************************************************************************)
(* verify_challenge keeps the socket in the session "for single-use        *)
(* revocation (FINDING-04)": losing a socket revokes the session made on   *)
(* it and no other.                                                        *)
(***************************************************************************)
RevocationIsOwn ==
  [][\A c \in Conn, d \in Device :
       Leave(c) /\ HasSession(d) /\ sessions[d].ws # c
         => sessions'[d] = sessions[d]]_vars

=============================================================================
