-------------------------- MODULE AuthSessionProofs --------------------------
(***************************************************************************)
(* Proofs about AuthService on what becomes of a granted request: its      *)
(* challenge is used up, its single-use session stays tied to the socket,  *)
(* and the whole implements Admission. They hold when registry writes      *)
(* succeed, because verify_challenge stores the session before it writes,  *)
(* and removes the request after.                                          *)
(***************************************************************************)
EXTENDS AuthServiceProofs

LEMMA GrantsHold == Spec => [](TypeInv /\ GrantInv)
<1>1. Init => GrantInv
  BY DEF Init, GrantInv, Offered, OneOwner, SessionsGranted, IsPending, HasSession
<1>2. Spec => []TypeInv
  BY TypeInvInductive, PTL DEF Spec
<1> QED BY <1>1, <1>2, GrantsKept, PTL DEF Spec

\* A granted request becomes a session: everything VerifyAccept does to the
\* records of its device and leaves of the others'.
LEMMA AcceptedRecords ==
  ASSUME TypeInv, NEW c \in Conn, VerifyAccept(c, TRUE)
  PROVE  \E a \in Device :
           /\ a = peer[c]
           /\ IsPending(a) /\ pending[a].chal = held[c]
           /\ ~IsPending(a)'
           /\ sessions'[a] = SessionFrom(pending[a])
           /\ \A e \in Device \ {a} : /\ pending'[e] = pending[e]
                                     /\ sessions'[e] = sessions[e]
<1>0. PICK a \in Device : a = peer[c]
  BY DEF VerifyAccept, Answers, TypeInv, SocketTypes
<1>1. IsPending(a) /\ pending[a].chal = held[c]
  BY <1>0 DEF VerifyAccept, SignatureOK
<1>2. pending' = [pending EXCEPT ![a] = NoRequest]
  BY <1>0 DEF VerifyAccept, Dequeue
<1>3. sessions' = [sessions EXCEPT ![a] = SessionFrom(pending[a])]
  BY <1>0 DEF VerifyAccept
<1>4. ~IsPending(a)' /\ \A e \in Device \ {a} : pending'[e] = pending[e]
  BY <1>2 DEF IsPending, TypeInv, RecordTypes
<1>5. /\ sessions'[a] = SessionFrom(pending[a])
      /\ \A e \in Device \ {a} : sessions'[e] = sessions[e]
  BY <1>3 DEF TypeInv, RecordTypes
<1> QED BY <1>0, <1>1, <1>4, <1>5

\* The busy steps but VerifyAccept leave the sessions alone, and what they put
\* into the queue has a fresh challenge or the one it had.
BusyHello ==
  /\ UNCHANGED sessions
  /\ \A d \in Device : IsPending(d)' =>
       \/ IsPending(d) /\ pending'[d].chal = pending[d].chal
       \/ pending'[d].chal \in Fresh

LEMMA BusyCases ==
  ASSUME TypeInv, Busy, ~DiskFaults
  PROVE  BusyHello \/ \E c \in Conn : VerifyAccept(c, TRUE)
<1> USE DEF TypeInv, RecordTypes
<1>1. ASSUME NEW c \in Conn, NEW ch \in Challenge, HelloTrusted(c, ch)
      PROVE  BusyHello
  <2> DEFINE d == peer[c]
  <2>1. d \in Device /\ ch \in Fresh /\ UNCHANGED sessions
    BY <1>1 DEF HelloTrusted, SocketTypes
  <2>2. pending' = [pending EXCEPT ![d] =
                      IF IsPending(d) /\ ~pending[d].expired
                      THEN Refreshed(pending[d], ch, c) ELSE NewRequest(ch, c, "always")]
    BY <1>1 DEF HelloTrusted, IssueChallenge
  <2>3. pending'[d].chal = ch
    <3>1. CASE IsPending(d) /\ ~pending[d].expired
      BY <2>1, <2>2, <3>1, PendingRecord DEF Refreshed, Request
    <3>2. CASE ~(IsPending(d) /\ ~pending[d].expired)
      BY <2>1, <2>2, <3>2 DEF NewRequest
    <3> QED BY <3>1, <3>2
  <2> QED BY <2>1, <2>2, <2>3 DEF BusyHello, IsPending
<1>2. ASSUME NEW c \in Conn, NEW ch \in Challenge, NEW saved \in WriteOutcome,
             HelloPending(c, ch, saved)
      PROVE  BusyHello
  <2> DEFINE d == peer[c]
  <2>1. d \in Device /\ ch \in Fresh /\ UNCHANGED sessions
    BY <1>2 DEF HelloPending, SocketTypes
  <2>2. /\ AfterEviction \in [Device -> Request \cup {NoRequest}]
        /\ \A e \in Device : AfterEviction[e] = pending[e] \/ AfterEviction[e] = NoRequest
    BY DEF AfterEviction
  <2>3. pending' = [AfterEviction EXCEPT ![d] = NewRequest(ch, c, "none")]
    BY <1>2 DEF HelloPending, Enqueue
  <2>4. pending'[d].chal = ch
    BY <2>1, <2>2, <2>3 DEF NewRequest
  <2> QED BY <2>1, <2>2, <2>3, <2>4 DEF BusyHello, IsPending
<1>3. ASSUME NEW d \in Device, Approve(d) \/ AllowOnce(d)
      PROVE  BusyHello
  <2>1. pending[d] \in Request /\ UNCHANGED sessions
    BY <1>3, PendingRecord DEF Approve, AllowOnce
  <2>2. pending'[d].chal = pending[d].chal
    BY <1>3, <2>1 DEF Approve, AllowOnce, Request
  <2>3. /\ \A e \in Device \ {d} : pending'[e] = pending[e]
        /\ IsPending(d)
    BY <1>3 DEF Approve, AllowOnce
  <2> QED BY <2>1, <2>2, <2>3 DEF BusyHello, IsPending
<1>4. ASSUME NEW c \in Conn, NEW saved \in WriteOutcome, VerifyAccept(c, saved)
      PROVE  VerifyAccept(c, TRUE)
  BY <1>4, WriteOutcomes
<1> QED BY <1>1, <1>2, <1>3, <1>4, Zenon DEF Busy

-----------------------------------------------------------------------------
\* ChallengesUsedOnce: the answer to a challenge never makes a second session,
\* through refreshes, evictions and any number of sockets.
THEOREM ChallengesAreUsedOnce ==
  ASSUME ~DiskFaults
  PROVE  Spec => []ChallengesUsedOnce
<1>1. Init => ChallengesUsedOnce
  BY DEF Init, ChallengesUsedOnce, IsPending, HasSession
<1>2. TypeInv /\ GrantInv /\ ChallengesUsedOnce /\ [Next]_vars => ChallengesUsedOnce'
  <2> SUFFICES ASSUME TypeInv, GrantInv, ChallengesUsedOnce, [Next]_vars
               PROVE  ChallengesUsedOnce'
    OBVIOUS
  <2>1. CASE Quiet
    BY <2>1 DEF Quiet, SameRequest, SameSession, ChallengesUsedOnce
  <2>2. CASE BusyHello
    <3>1. \A d \in Device : HasSession(d)' => HasSession(d) /\ sessions'[d] = sessions[d]
      BY <2>2 DEF BusyHello, HasSession
    <3>2. ASSUME NEW d \in Device, NEW e \in Device, IsPending(d)', HasSession(e)'
          PROVE  pending'[d].chal # sessions'[e].key
      BY <2>2, <3>1, <3>2 DEF BusyHello, Fresh, InUse, ChallengesUsedOnce
    <3> QED BY <3>1, <3>2 DEF ChallengesUsedOnce
  <2>3. ASSUME NEW c \in Conn, VerifyAccept(c, TRUE)
        PROVE  ChallengesUsedOnce'
    <3>1. PICK a \in Device :
            /\ IsPending(a) /\ ~IsPending(a)'
            /\ sessions'[a] = SessionFrom(pending[a])
            /\ \A e \in Device \ {a} : pending'[e] = pending[e] /\ sessions'[e] = sessions[e]
      BY <2>3, AcceptedRecords
    <3>2. sessions'[a].key = pending[a].chal
      BY <3>1 DEF SessionFrom
    <3>3. ASSUME NEW d \in Device, NEW e \in Device, IsPending(d)', HasSession(e)'
          PROVE  pending'[d].chal # sessions'[e].key
      <4>1. d # a /\ IsPending(d) /\ pending'[d] = pending[d]
        BY <3>1, <3>3 DEF IsPending
      <4>2. CASE e = a
        BY <3>1, <3>2, <4>1, <4>2 DEF GrantInv, OneOwner
      <4>3. CASE e # a
        BY <3>1, <3>3, <4>1, <4>3 DEF HasSession, ChallengesUsedOnce
      <4> QED BY <4>2, <4>3
    <3>4. ASSUME NEW d \in Device, NEW e \in Device, HasSession(d)', HasSession(e)', d # e
          PROVE  sessions'[d].key # sessions'[e].key
      BY <3>1, <3>2, <3>4 DEF HasSession, ChallengesUsedOnce
    <3> QED BY <3>3, <3>4 DEF ChallengesUsedOnce
  <2> QED BY <2>1, <2>2, <2>3, QuietOrBusy, BusyCases
<1> QED BY <1>1, <1>2, GrantsHold, PTL DEF Spec

-----------------------------------------------------------------------------
\* Where the server knows a device to be authenticated.
Authed(b, d) == phase[b] = "authed" /\ authedFp[b] = d

\* An authenticated socket stays one until auth_ws ends or the server restarts:
\* neither a push nor a close by the operator's routes touches it.
LEMMA AuthedStays ==
  ASSUME TypeInv, [Next]_vars, NEW b \in Conn, NEW d \in Device, Authed(b, d)
  PROVE  \/ Authed(b, d)'
         \/ Leave(b)
         \/ \A e \in Device : ~HasSession(e)'
<1> USE DEF Authed, TypeInv, SocketTypes
<1>1. ASSUME NEW c \in Conn, NEW e \in Device, Connect(c, e)
      PROVE  Authed(b, d)'
  BY <1>1 DEF Connect
<1>2. ASSUME NEW c \in Conn, HelloRateLimited(c) \/ HelloBlocked(c)
      PROVE  Authed(b, d)'
  BY <1>2 DEF HelloRateLimited, HelloBlocked, Refuse
<1>3. ASSUME NEW c \in Conn, NEW ch \in Challenge, HelloTrusted(c, ch)
      PROVE  Authed(b, d)'
  BY <1>3 DEF HelloTrusted
<1>4. ASSUME NEW c \in Conn, NEW ch \in Challenge, NEW saved \in WriteOutcome,
             HelloPending(c, ch, saved)
      PROVE  Authed(b, d)'
  <2>1. phase[c] = "open" /\ phase'[b] = phase[b] /\ authedFp' = authedFp
    BY <1>4 DEF HelloPending
  <2> QED BY <2>1
<1>5. ASSUME NEW c \in Conn, Ping(c)
      PROVE  Authed(b, d)'
  BY <1>5 DEF Ping, sockets
<1>6. ASSUME NEW c \in Conn, VerifyUnknown(c) \/ VerifyExpired(c) \/ VerifyBadSignature(c)
      PROVE  Authed(b, d)'
  BY <1>6 DEF VerifyUnknown, VerifyExpired, VerifyBadSignature, Answers, Refuse
<1>7. ASSUME NEW c \in Conn, NEW saved \in WriteOutcome, VerifyAccept(c, saved)
      PROVE  Authed(b, d)'
  <2>1. phase[c] = "challenged" /\ b # c
    BY <1>7 DEF VerifyAccept, Answers
  <2>2. phase'[b] = phase[b] /\ authedFp'[b] = authedFp[b]
    BY <1>7, <2>1 DEF VerifyAccept, Refuse
  <2> QED BY <2>2
<1>8. ASSUME NEW c \in Conn, Leave(c)
      PROVE  Authed(b, d)' \/ Leave(b)
  BY <1>8 DEF Leave, CloseSocket
<1>9. ASSUME NEW e \in Device, pending[e] \in Request, Push(e)
      PROVE  Authed(b, d)'
  <2>1. CASE UNCHANGED sockets
    BY <2>1 DEF sockets
  <2>2. CASE ~UNCHANGED sockets
    BY <1>9, <2>2 DEF Push
  <2> QED BY <2>1, <2>2
<1>10. ASSUME NEW e \in Device, Approve(e) \/ AllowOnce(e)
       PROVE  Authed(b, d)'
  BY <1>9, <1>10, PendingRecord DEF Approve, AllowOnce
<1>11. ASSUME NEW e \in Device, Reject(e) \/ BlockPending(e)
       PROVE  Authed(b, d)'
  BY <1>11 DEF Reject, BlockPending, CloseFromServer, sockets
<1>12. ASSUME NEW e \in Device, NEW saved \in WriteOutcome, NEW deleted \in WriteOutcome,
              BlockResumes(e, saved, deleted) \/ BlockTrusted(e, saved, deleted)
       PROVE  Authed(b, d)'
  BY <1>12 DEF BlockResumes, BlockTrusted, sockets
<1>13. ASSUME NEW e \in Device,
              RemoveTrust(e) \/ DisconnectDevice(e) \/ Unblock(e) \/ RequestExpires(e)
              \/ SessionExpires(e) \/ HeartbeatFindsExpired(e) \/ StreamClientStale(e)
       PROVE  Authed(b, d)'
  BY <1>13 DEF RemoveTrust, DisconnectDevice, Unblock, RequestExpires, SessionExpires,
     HeartbeatFindsExpired, StreamClientStale, sockets
<1>14. ASSUME NEW e \in Device, NEW saved \in WriteOutcome, TrustBlocked(e, saved)
       PROVE  Authed(b, d)'
  BY <1>14 DEF TrustBlocked, sockets
<1>15. CASE CollectGarbage \/ UNCHANGED vars
  BY <1>15 DEF CollectGarbage, vars, sockets
<1>16. CASE Restart \/ \E e \in Device : CrashInSaveBlocked(e)
  BY <1>16 DEF Restart, CrashInSaveBlocked, ForgetAll, HasSession
<1> QED
  BY <1>1, <1>2, <1>3, <1>4, <1>5, <1>6, <1>7, <1>8, <1>10, <1>11, <1>12, <1>13, <1>14,
     <1>15, <1>16, NextCases, Zenon

\* SingleUseTied: as long as a single-use session lives, the socket it was
\* made on is open and auth_ws will revoke the session at its end.
THEOREM SingleUseSessionsAreTied ==
  ASSUME ~DiskFaults
  PROVE  Spec => []SingleUseTied
<1>1. Init => SingleUseTied
  BY DEF Init, SingleUseTied, HasSession
<1>2. TypeInv /\ GrantInv /\ SingleUseTied /\ [Next]_vars => SingleUseTied'
  <2> SUFFICES ASSUME TypeInv, GrantInv, SingleUseTied, [Next]_vars,
                      NEW d \in Device, HasSession(d)', sessions'[d].singleUse
               PROVE  Authed(sessions[d].ws, d)'
    BY DEF SingleUseTied, Authed
  <2>1. ASSUME SameSession(d)
        PROVE  Authed(sessions[d].ws, d)'
    <3>1. PICK b \in Conn : b = sessions[d].ws /\ b = sessions'[d].ws
      BY <2>1 DEF SameSession, HasSession, TypeInv, RecordTypes, Session
    <3>2. HasSession(d) /\ sessions[d].singleUse /\ Authed(b, d)
      BY <2>1, <3>1 DEF SameSession, SingleUseTied, Authed
    <3>3. ~Leave(b)
      <4>1. SUFFICES ASSUME Leave(b) PROVE FALSE
        OBVIOUS
      <4>2. RevokeSingleUse(d)
        BY <3>2, <4>1, NullsAreNull DEF Leave, Revocation, Authed
      <4>3. DropSession(d)
        BY <3>2, <4>2 DEF RevokeSingleUse
      <4> QED BY <4>3 DEF DropSession, HasSession, TypeInv, RecordTypes
    <3>4. Authed(b, d)'
      BY <3>2, <3>3, AuthedStays
    <3> QED BY <3>1, <3>4 DEF Authed
  <2>2. CASE Quiet
    BY <2>1, <2>2 DEF Quiet
  <2>3. CASE BusyHello
    <3>1. SameSession(d)
      BY <2>3 DEF BusyHello, SameSession, HasSession
    <3> QED BY <2>1, <3>1
  <2>4. ASSUME NEW c \in Conn, VerifyAccept(c, TRUE)
        PROVE  Authed(sessions[d].ws, d)'
    <3>1. PICK a \in Device :
            /\ a = peer[c]
            /\ IsPending(a) /\ pending[a].chal = held[c]
            /\ ~IsPending(a)'
            /\ sessions'[a] = SessionFrom(pending[a])
            /\ \A e \in Device \ {a} : /\ pending'[e] = pending[e]
                                      /\ sessions'[e] = sessions[e]
      BY <2>4, AcceptedRecords, Zenon
    <3>2. CASE d = a
      <4>1. pending[a].ws = c /\ sessions'[d].ws = c
        BY <3>1, <3>2 DEF GrantInv, Offered, SessionFrom
      <4>2. phase'[c] = "authed" /\ authedFp'[c] = d
        BY <2>4, <3>1, <3>2 DEF VerifyAccept, TypeInv, SocketTypes
      <4> QED BY <4>1, <4>2 DEF Authed
    <3>3. CASE d # a
      <4>1. SameSession(d)
        BY <3>1, <3>3 DEF SameSession, HasSession
      <4> QED BY <2>1, <4>1
    <3> QED BY <3>2, <3>3
  <2> QED BY <2>2, <2>3, <2>4, QuietOrBusy, BusyCases
<1> QED BY <1>1, <1>2, GrantsHold, PTL DEF Spec

-----------------------------------------------------------------------------
\* The service implements Admission: no admission without a permit worth as
\* much, and each permit is used once.
THEOREM AdmissionIsImplemented ==
  ASSUME ~DiskFaults
  PROVE  Spec => ImplementsAdmission
<1>1. Init => Promise!Init
  BY DEF Init, Promise!Init, permitted, admission, IsPending, HasSession
<1>2. /\ TypeInv /\ TypeInv' /\ GrantInv /\ [Next]_vars
      => [Promise!Next]_<<permitted, admission>>
  <2> SUFFICES ASSUME TypeInv, TypeInv', GrantInv, [Next]_vars
               PROVE  Promise!Next
    OBVIOUS
  <2>1. /\ permitted' \in [Device -> Promise!Worth]
        /\ admission' \in [Device -> Promise!Worth]
    <3>1. ASSUME NEW d \in Device, IsPending(d)'
          PROVE  pending'[d].grant \in Promise!Worth
      BY <3>1 DEF TypeInv, RecordTypes, IsPending, Request, Grant, Promise!Worth
    <3> QED BY <3>1 DEF permitted, admission, Promise!Worth
  <2>2. ASSUME NEW d \in Device, sessions'[d] = sessions[d]
        PROVE  Promise!Decide(d)
    BY <2>2 DEF Promise!Decide, admission, HasSession
  <2>3. CASE Quiet
    <3> SUFFICES \A d \in Device : Promise!Decide(d) \/ Promise!Dismiss(d)
      BY <2>1, Zenon DEF Promise!Next
    <3> SUFFICES ASSUME NEW d \in Device PROVE Promise!Decide(d) \/ Promise!Dismiss(d)
      OBVIOUS
    <3>1. CASE SameSession(d)
      BY <3>1 DEF Promise!Decide, admission, SameSession
    <3>2. CASE ~SameSession(d)
      <4>1. ~HasSession(d)' /\ admission'[d] = "none"
        BY <2>3, <3>2 DEF Quiet, admission
      <4>2. permitted'[d] \in {permitted[d], "none"}
        BY <2>3 DEF Quiet, SameRequest, permitted
      <4> QED BY <4>1, <4>2 DEF Promise!Dismiss
    <3> QED BY <3>1, <3>2
  <2>4. CASE BusyHello
    BY <2>1, <2>2, <2>4 DEF BusyHello, Promise!Next
  <2>5. ASSUME NEW c \in Conn, VerifyAccept(c, TRUE)
        PROVE  Promise!Next
    <3>1. PICK a \in Device :
            /\ a = peer[c]
            /\ IsPending(a) /\ pending[a].chal = held[c]
            /\ ~IsPending(a)'
            /\ sessions'[a] = SessionFrom(pending[a])
            /\ \A e \in Device \ {a} : /\ pending'[e] = pending[e]
                                      /\ sessions'[e] = sessions[e]
      BY <2>5, AcceptedRecords, Zenon
    <3>2. /\ pending[a].grant \in Grant \ {"none"}
          /\ pending[a].grant = "once" => pending[a].allowOnce
      BY <3>1, PendingRecord DEF GrantInv, Offered, Request, TypeInv, SocketTypes,
         VerifyAccept, Answers
    <3>3. permitted[a] = pending[a].grant /\ permitted'[a] = "none"
      BY <3>1 DEF permitted
    <3>4. sessions'[a].singleUse = pending[a].allowOnce
      BY <3>1 DEF SessionFrom
    <3>5. Promise!Admit(a) \/ Promise!Dismiss(a)
      <4>1. CASE HasSession(a)'
        <5>1. admission'[a] = IF pending[a].allowOnce THEN "once" ELSE "always"
          BY <3>4, <4>1 DEF admission
        <5>2. admission'[a] \in Promise!Within(permitted[a])
          BY <3>2, <3>3, <5>1 DEF Promise!Within, Grant
        <5> QED BY <3>3, <5>2 DEF Promise!Admit
      <4>2. CASE ~HasSession(a)'
        BY <3>3, <4>2 DEF Promise!Dismiss, admission
      <4> QED BY <4>1, <4>2
    <3> QED BY <2>1, <2>2, <3>1, <3>5 DEF Promise!Next
  <2> QED BY <2>3, <2>4, <2>5, QuietOrBusy, BusyCases
<1> QED BY <1>1, <1>2, GrantsHold, PTL DEF Spec, ImplementsAdmission, Promise!Spec

-----------------------------------------------------------------------------
\* BlockHolds: a blocked device with neither request nor session gets neither
\* while it stays blocked, whatever writes fail.
THEOREM BlocksHold == Spec => BlockHolds
<1>1. ASSUME TypeInv, [Next]_vars, NEW d \in Device, d \in blocked,
             ~IsPending(d), ~HasSession(d)
      PROVE  ~IsPending(d)' /\ ~HasSession(d)'
  <2> USE <1>1 DEF TypeInv, RecordTypes
  <2>1. CASE Quiet
    BY <2>1 DEF Quiet, SameRequest, SameSession
  <2>2. ASSUME NEW c \in Conn, NEW ch \in Challenge, HelloTrusted(c, ch)
        PROVE  ~IsPending(d)' /\ ~HasSession(d)'
    BY <2>2 DEF HelloTrusted, IssueChallenge, IsPending, HasSession
  <2>3. ASSUME NEW c \in Conn, NEW ch \in Challenge, NEW saved \in WriteOutcome,
               HelloPending(c, ch, saved)
        PROVE  ~IsPending(d)' /\ ~HasSession(d)'
    <3>1. /\ AfterEviction \in [Device -> Request \cup {NoRequest}]
          /\ AfterEviction[d] = pending[d] \/ AfterEviction[d] = NoRequest
      BY DEF AfterEviction
    <3>2. d # peer[c] /\ UNCHANGED sessions
      BY <2>3 DEF HelloPending
    <3>3. pending' = [AfterEviction EXCEPT ![peer[c]] = NewRequest(ch, c, "none")]
      BY <2>3 DEF HelloPending, Enqueue
    <3> QED BY <3>1, <3>2, <3>3 DEF IsPending, HasSession
  <2>4. ASSUME NEW c \in Conn, NEW saved \in WriteOutcome, VerifyAccept(c, saved)
        PROVE  ~IsPending(d)' /\ ~HasSession(d)'
    <3>1. d # peer[c]
      BY <2>4 DEF VerifyAccept
    <3>2. sessions'[d] = sessions[d]
      BY <2>4, <3>1 DEF VerifyAccept
    <3>3. pending'[d] = pending[d]
      BY <2>4, <3>1 DEF VerifyAccept, Dequeue, queue
    <3> QED BY <3>2, <3>3 DEF IsPending, HasSession
  <2>5. ASSUME NEW e \in Device, Approve(e) \/ AllowOnce(e)
        PROVE  ~IsPending(d)' /\ ~HasSession(d)'
    BY <2>5 DEF Approve, AllowOnce, IsPending, HasSession
  <2> QED BY <2>1, <2>2, <2>3, <2>4, <2>5, QuietOrBusy, Zenon DEF Busy
<1>2. TypeInv /\ [Next]_vars
      => [\A d \in blocked \cap blocked' :
            ~IsPending(d) /\ ~HasSession(d)
              => pending'[d] = NoRequest /\ sessions'[d] = NoSession]_vars
  BY <1>1 DEF TypeInv, RegistryTypes, IsPending, HasSession
<1> QED BY <1>2, GrantsHold, PTL DEF Spec, BlockHolds

=============================================================================
