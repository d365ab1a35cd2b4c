-------------------------- MODULE AuthServiceProofs --------------------------
(***************************************************************************)
(* Theorems about AuthService for any devices, sockets, challenges and     *)
(* bounds.                                                                 *)
(***************************************************************************)
EXTENDS AuthService, FiniteSetTheorems, TLAPS

-----------------------------------------------------------------------------
(* Taking positions out of a sequence. *)

\* What is left is a sequence over the same set, and every element at a kept
\* position is still in it.  The rank of a kept position is injective into
\* 1 .. Cardinality(kept), so it is onto: each new position has an old one.
LEMMA DropAtKeeps ==
  ASSUME NEW S, NEW s \in Seq(S), NEW gone
  PROVE  /\ DropAt(s, gone) \in Seq(S)
         /\ \A i \in DOMAIN s \ gone :
              \E k \in 1 .. Len(DropAt(s, gone)) : DropAt(s, gone)[k] = s[i]
<1> DEFINE kept == DOMAIN s \ gone
           upto(i) == {j \in kept : j <= i}
           n == Cardinality(kept)
           rank == [i \in kept |-> Cardinality(upto(i))]
           old(k) == CHOOSE i \in kept : Cardinality(upto(i)) = k
<1>1. DOMAIN s = 1 .. Len(s) /\ Len(s) \in Nat /\ \A i \in 1 .. Len(s) : s[i] \in S
  OBVIOUS
<1>2. IsFiniteSet(kept) /\ n \in Nat
  <2>1. IsFiniteSet(1 .. Len(s))
    BY <1>1, FS_Interval
  <2>2. IsFiniteSet(kept)
    BY <1>1, <2>1, FS_Subset
  <2> QED BY <2>2, FS_CardinalityType
<1>3. ASSUME NEW i \in kept
      PROVE  IsFiniteSet(upto(i)) /\ Cardinality(upto(i)) \in 1 .. n
  <2>1. upto(i) \in SUBSET kept /\ i \in upto(i)
    BY <1>1
  <2>2. IsFiniteSet(upto(i)) /\ Cardinality(upto(i)) <= n
    BY <1>2, <2>1, FS_Subset
  <2>3. Cardinality(upto(i)) \in Nat /\ Cardinality(upto(i)) # 0
    BY <2>1, <2>2, FS_CardinalityType, FS_EmptySet
  <2> QED BY <1>2, <2>2, <2>3
<1>4. ASSUME NEW i \in kept, NEW j \in kept, Cardinality(upto(i)) = Cardinality(upto(j))
      PROVE  i = j
  <2>1. i \in Nat /\ j \in Nat
    BY <1>1
  <2>2. CASE i <= j
    <3>1. upto(i) \in SUBSET upto(j)
      BY <1>1, <2>1, <2>2
    <3>2. upto(i) = upto(j)
      BY <1>3, <1>4, <3>1, FS_Subset
    <3>3. j \in upto(i)
      BY <2>1, <3>2
    <3> QED BY <2>1, <2>2, <3>3
  <2>3. CASE j <= i
    <3>1. upto(j) \in SUBSET upto(i)
      BY <1>1, <2>1, <2>3
    <3>2. upto(i) = upto(j)
      BY <1>3, <1>4, <3>1, FS_Subset
    <3>3. i \in upto(j)
      BY <2>1, <3>2
    <3> QED BY <2>1, <2>3, <3>3
  <2> QED BY <2>1, <2>2, <2>3
<1>5. rank \in Injection(kept, 1 .. n)
  BY <1>3, <1>4, Zenon DEF Injection, IsInjective
<1>6. rank \in Surjection(kept, 1 .. n)
  <2>1. IsFiniteSet(1 .. n) /\ Cardinality(1 .. n) = n
    BY <1>2, FS_Interval
  <2>2. Cardinality(kept) = Cardinality(1 .. n) <=> rank \in Surjection(kept, 1 .. n)
    BY <1>5, <2>1, FS_Injection
  <2> QED BY <2>1, <2>2
<1>7. ASSUME NEW k \in 1 .. n
      PROVE  old(k) \in kept /\ Cardinality(upto(old(k))) = k
  <2>1. \E i \in kept : Cardinality(upto(i)) = k
    BY <1>6 DEF Surjection
  <2> QED BY <2>1
<1>8. DropAt(s, gone) = [k \in 1 .. n |-> s[old(k)]]
  BY DEF DropAt
<1>9. DropAt(s, gone) \in Seq(S) /\ Len(DropAt(s, gone)) = n
  <2> DEFINE t == [k \in 1 .. n |-> s[old(k)]]
  <2>1. ASSUME NEW k \in 1 .. n
        PROVE  s[old(k)] \in S
    BY <1>1, <1>7
  <2>2. t \in [1 .. n -> S]
    BY <2>1
  <2>3. n \in Nat
    BY <1>2
  <2>4. t \in Seq(S) /\ Len(t) = n
    <3> HIDE DEF t, n
    <3> QED BY <2>2, <2>3
  <2> QED BY <1>8, <2>4
<1>10. ASSUME NEW i \in kept
       PROVE  \E k \in 1 .. n : DropAt(s, gone)[k] = s[i]
  <2> DEFINE k == Cardinality(upto(i))
  <2>1. k \in 1 .. n
    BY <1>3
  <2>2. old(k) = i
    BY <1>4, <1>7, <2>1
  <2>3. DropAt(s, gone)[k] = s[i]
    BY <1>8, <2>1, <2>2
  <2> QED BY <2>1, <2>3
<1> QED BY <1>9, <1>10

\* deque.remove for the elements of R leaves every other element in place.
LEMMA WithoutFirstKeeps ==
  ASSUME NEW S, NEW s \in Seq(S), NEW R
  PROVE  /\ WithoutFirst(s, R) \in Seq(S)
         /\ \A x : x \notin R /\ Contains(s, x) => Contains(WithoutFirst(s, R), x)
<1> DEFINE gone == {i \in DOMAIN s : s[i] \in R /\ \A j \in 1 .. i-1 : s[j] # s[i]}
<1>1. WithoutFirst(s, R) = DropAt(s, gone)
  BY DEF WithoutFirst
<1>2. ASSUME NEW x, x \notin R, Contains(s, x)
      PROVE  Contains(WithoutFirst(s, R), x)
  <2>1. PICK i \in 1 .. Len(s) : s[i] = x
    BY <1>2 DEF Contains
  <2>2. i \in DOMAIN s \ gone
    BY <1>2, <2>1
  <2>3. \E k \in 1 .. Len(DropAt(s, gone)) : DropAt(s, gone)[k] = s[i]
    <3> HIDE DEF gone
    <3> QED BY <2>2, DropAtKeeps
  <2> QED BY <1>1, <2>1, <2>3 DEF Contains
<1> QED BY <1>1, <1>2, DropAtKeeps

-----------------------------------------------------------------------------
(* Types. *)

LEMMA WriteOutcomes == WriteOutcome \subseteq BOOLEAN /\ (~DiskFaults => WriteOutcome = {TRUE})
BY BoundsAreNaturals DEF WriteOutcome

\* What a step does, one action at a time: Disconnect and IdleTimeout are both
\* a Leave.
LEMMA NextCases ==
  ASSUME Next
  PROVE  \/ \E c \in Conn, d \in Device : Connect(c, d)
         \/ \E c \in Conn : HelloRateLimited(c)
         \/ \E c \in Conn : HelloBlocked(c)
         \/ \E c \in Conn, ch \in Challenge : HelloTrusted(c, ch)
         \/ \E c \in Conn, ch \in Challenge, saved \in WriteOutcome : HelloPending(c, ch, saved)
         \/ \E c \in Conn : Ping(c)
         \/ \E c \in Conn : VerifyUnknown(c)
         \/ \E c \in Conn : VerifyExpired(c)
         \/ \E c \in Conn : VerifyBadSignature(c)
         \/ \E c \in Conn, saved \in WriteOutcome : VerifyAccept(c, saved)
         \/ \E c \in Conn : Leave(c)
         \/ \E d \in Device : Approve(d)
         \/ \E d \in Device : AllowOnce(d)
         \/ \E d \in Device : Reject(d)
         \/ \E d \in Device : BlockPending(d)
         \/ \E d \in Device, saved, deleted \in WriteOutcome : BlockResumes(d, saved, deleted)
         \/ \E d \in Device, saved, deleted \in WriteOutcome : BlockTrusted(d, saved, deleted)
         \/ \E d \in Device : RemoveTrust(d)
         \/ \E d \in Device : DisconnectDevice(d)
         \/ \E d \in Device : Unblock(d)
         \/ \E d \in Device, saved \in WriteOutcome : TrustBlocked(d, saved)
         \/ \E d \in Device : RequestExpires(d)
         \/ \E d \in Device : SessionExpires(d)
         \/ \E d \in Device : HeartbeatFindsExpired(d)
         \/ \E d \in Device : StreamClientStale(d)
         \/ \E d \in Device : CrashInSaveBlocked(d)
         \/ CollectGarbage
         \/ Restart
<1>1. ASSUME NEW c \in Conn, ClientNext(c)
      PROVE  \/ \E d \in Device : Connect(c, d)
             \/ HelloRateLimited(c)
             \/ HelloBlocked(c)
             \/ \E ch \in Challenge : HelloTrusted(c, ch)
             \/ \E ch \in Challenge, saved \in WriteOutcome : HelloPending(c, ch, saved)
             \/ Ping(c)
             \/ VerifyUnknown(c)
             \/ VerifyExpired(c)
             \/ VerifyBadSignature(c)
             \/ \E saved \in WriteOutcome : VerifyAccept(c, saved)
             \/ Leave(c)
  BY <1>1, Zenon DEF ClientNext, Disconnect, IdleTimeout
<1>2. CASE \E c \in Conn : ClientNext(c)
  BY <1>1, <1>2, Zenon
<1>3. CASE \E d \in Device : OperatorNext(d)
  BY <1>3, Zenon DEF OperatorNext
<1>4. CASE \E d \in Device : ServerNext(d)
  BY <1>4, Zenon DEF ServerNext
<1> QED BY <1>2, <1>3, <1>4, Zenon DEF Next

\* What the handlers make of requests and sessions.
LEMMA RequestTypes ==
  ASSUME NEW req \in Request
  PROVE  /\ [req EXCEPT !.expired = TRUE] \in Request
         /\ [req EXCEPT !.expired = FALSE] \in Request
         /\ [req EXCEPT !.grant = "always"] \in Request
         /\ [req EXCEPT !.allowOnce = TRUE,
                        !.grant = IF @ = "none" THEN "once" ELSE @] \in Request
         /\ SessionFrom(req) \in Session
         /\ req.ws \in Conn /\ req.chal \in Challenge
BY DEF Request, Session, Grant, SessionFrom

LEMMA RefreshedType ==
  ASSUME NEW req \in Request, NEW ch \in Challenge, NEW c \in Conn
  PROVE  Refreshed(req, ch, c) \in Request
BY DEF Request, Grant, Refreshed

LEMMA NewRequestType ==
  ASSUME NEW ch \in Challenge, NEW c \in Conn, NEW g \in Grant
  PROVE  NewRequest(ch, c, g) \in Request
BY DEF NewRequest, Request

\* popleft: also of an empty deque, where the code would raise.
LEMMA TailType ==
  ASSUME NEW S, NEW s \in Seq(S)
  PROVE  Tail(s) \in Seq(S)
<1>1. CASE s = <<>>
  <2>1. Tail(s) = [i \in 1 .. 0 - 1 |-> s[i+1]]
    BY <1>1 DEF Tail
  <2>2. Tail(s) = <<>>
    BY <2>1
  <2>3. <<>> \in Seq(S)
    BY <1>1
  <2> QED BY <2>2, <2>3, Zenon
<1>2. CASE s # <<>>
  BY <1>2
<1> QED BY <1>1, <1>2

\* TypeOK in parts, and what makes it inductive: a connected socket has a
\* device at its other end, so only devices get into the queue.
RecordTypes ==
  /\ pending \in [Device -> Request \cup {NoRequest}]
  /\ sessions \in [Device -> Session \cup {NoSession}]

SocketTypes ==
  /\ peer \in [Conn -> Device \cup {NoDevice}]
  /\ phase \in [Conn -> Phase]
  /\ held \in [Conn -> Challenge \cup {NoChallenge}]
  /\ pendingFp \in [Conn -> Device \cup {NoDevice}]
  /\ authedFp \in [Conn -> Device \cup {NoDevice}]
  /\ shut \in [Conn -> BOOLEAN]
  /\ \A c \in Conn : phase[c] # "closed" => peer[c] \in Device

RegistryTypes ==
  /\ trusted \subseteq Device
  /\ blocked \subseteq Device
  /\ blocking \in [Device -> Nat]

TypeInv == RecordTypes /\ order \in Seq(Device) /\ SocketTypes /\ RegistryTypes

LEMMA TypeInvImpliesTypeOK == TypeInv => TypeOK
BY DEF TypeInv, TypeOK, RecordTypes, SocketTypes, RegistryTypes

\* A push hands the request's own challenge to the request's own socket.
LEMMA PushTypes ==
  ASSUME SocketTypes, NEW d, pending[d] \in Request, Push(d)
  PROVE  SocketTypes'
<1>1. pending[d].chal \in Challenge /\ pending[d].ws \in Conn
  BY DEF Request
<1>2. CASE UNCHANGED sockets
  BY <1>2 DEF SocketTypes, sockets
<1>3. CASE ~UNCHANGED sockets
  BY <1>1, <1>3 DEF Push, SocketTypes, Phase
<1> QED BY <1>2, <1>3

LEMMA DequeueTypes ==
  ASSUME pending \in [Device -> Request \cup {NoRequest}], order \in Seq(Device),
         NEW d, Dequeue(d)
  PROVE  /\ pending' \in [Device -> Request \cup {NoRequest}]
         /\ order' \in Seq(Device)
BY WithoutFirstKeeps DEF Dequeue

LEMMA TypeInvInductive ==
  /\ Init => TypeInv
  /\ TypeInv /\ [Next]_vars => TypeInv'
<1>1. Init => TypeInv
  BY DEF Init, TypeInv, RecordTypes, SocketTypes, RegistryTypes, Phase
<1>2. TypeInv /\ [Next]_vars => TypeInv'
  <2> SUFFICES ASSUME TypeInv, [Next]_vars
               PROVE  TypeInv'
    OBVIOUS
  <2> USE WriteOutcomes DEF TypeInv
  <2>1. ASSUME NEW c \in Conn, NEW d \in Device, Connect(c, d)
        PROVE  TypeInv'
    BY <2>1
       DEF Connect,
           RecordTypes, SocketTypes, RegistryTypes, registry, queue, sockets, Phase
  <2>2. ASSUME NEW c \in Conn, HelloRateLimited(c)
        PROVE  TypeInv'
    BY <2>2
       DEF HelloRateLimited, Refuse,
           RecordTypes, SocketTypes, RegistryTypes, registry, queue, sockets, Phase
  <2>3. ASSUME NEW c \in Conn, HelloBlocked(c)
        PROVE  TypeInv'
    BY <2>3
       DEF HelloBlocked, Refuse,
           RecordTypes, SocketTypes, RegistryTypes, registry, queue, sockets, Phase
  <2>4. ASSUME NEW c \in Conn, NEW ch \in Challenge, HelloTrusted(c, ch)
        PROVE  TypeInv'
    <3> DEFINE d == peer[c]
    <3>1. Refreshed(pending[d], ch, c) \in Request \/ ~IsPending(d) \/ d \notin Device
      BY RefreshedType DEF IsPending, RecordTypes
    <3>2. NewRequest(ch, c, "always") \in Request
      BY NewRequestType DEF Grant
    <3>3. d \in Device
      BY <2>4 DEF HelloTrusted, RegistryTypes
    <3>4. RecordTypes'
      BY <2>4, <3>1, <3>2, <3>3 DEF HelloTrusted, IssueChallenge, RecordTypes
    <3>5. order' \in Seq(Device)
      BY <2>4, <3>3 DEF HelloTrusted, IssueChallenge
    <3>6. SocketTypes' /\ RegistryTypes'
      BY <2>4 DEF HelloTrusted, SocketTypes, RegistryTypes, registry, Phase
    <3> QED BY <3>4, <3>5, <3>6
  <2>5. ASSUME NEW c \in Conn, NEW ch \in Challenge, NEW saved \in WriteOutcome, HelloPending(c, ch, saved)
        PROVE  TypeInv'
    <3>1. NewRequest(ch, c, "none") \in Request
      BY NewRequestType DEF Grant
    <3>2. RecordTypes'
      BY <2>5, <3>1 DEF HelloPending, Enqueue, AfterEviction, RecordTypes
    <3>3. OrderAfterEviction \in Seq(Device)
      BY TailType DEF OrderAfterEviction
    <3>4. peer[c] \in Device
      BY <2>5 DEF HelloPending, SocketTypes
    <3>5. order' \in Seq(Device)
      BY <2>5, <3>3, <3>4 DEF HelloPending, Enqueue
    <3>6. SocketTypes' /\ RegistryTypes'
      BY <2>5 DEF HelloPending, SocketTypes, RegistryTypes, registry, Phase
    <3> QED BY <3>2, <3>5, <3>6
  <2>6. ASSUME NEW c \in Conn, Ping(c)
        PROVE  TypeInv'
    <3>1. pending[pendingFp[c]] \in Request \/ pendingFp[c] \notin Device
      BY <2>6 DEF Ping, IsPending, RecordTypes
    <3>2. RecordTypes'
      BY <2>6, <3>1, RequestTypes DEF Ping, RecordTypes
    <3> QED BY <2>6, <3>2 DEF Ping, SocketTypes, RegistryTypes, registry, sockets
  <2>7. ASSUME NEW c \in Conn, VerifyUnknown(c)
        PROVE  TypeInv'
    BY <2>7
       DEF VerifyUnknown, Answers, Refuse,
           RecordTypes, SocketTypes, RegistryTypes, registry, queue, sockets, Phase
  <2>8. ASSUME NEW c \in Conn, VerifyExpired(c)
        PROVE  TypeInv'
    <3>1. RecordTypes' /\ order' \in Seq(Device)
      BY <2>8, DequeueTypes DEF VerifyExpired, RecordTypes
    <3> QED BY <2>8, <3>1
            DEF VerifyExpired, Answers, Refuse, SocketTypes, RegistryTypes, registry, Phase
  <2>9. ASSUME NEW c \in Conn, VerifyBadSignature(c)
        PROVE  TypeInv'
    BY <2>9
       DEF VerifyBadSignature, Answers, Refuse,
           RecordTypes, SocketTypes, RegistryTypes, registry, queue, sockets, Phase
  <2>10. ASSUME NEW c \in Conn, NEW saved \in WriteOutcome, VerifyAccept(c, saved)
        PROVE  TypeInv'
    <3>1. SessionFrom(pending[peer[c]]) \in Session \/ peer[c] \notin Device
      BY <2>10, RequestTypes DEF VerifyAccept, IsPending, RecordTypes
    <3>2. sessions' \in [Device -> Session \cup {NoSession}]
      BY <2>10, <3>1 DEF VerifyAccept, RecordTypes
    <3>3. held' \in [Conn -> Challenge \cup {NoChallenge}]
      BY <2>10 DEF VerifyAccept, Answers, SocketTypes
    <3>4. RegistryTypes'
      BY <2>10 DEF VerifyAccept, RegistryTypes, registry
    <3>5. CASE saved
      <4>1. RecordTypes' /\ order' \in Seq(Device)
        BY <2>10, <3>2, <3>5, DequeueTypes DEF VerifyAccept, RecordTypes
      <4>2. /\ peer[c] \in Device
            /\ authedFp' = [authedFp EXCEPT ![c] = peer[c]]
            /\ pendingFp' = [pendingFp EXCEPT ![c] = NoDevice]
            /\ phase' = [phase EXCEPT ![c] = "authed"]
            /\ UNCHANGED <<peer, shut>>
        BY <2>10, <3>5 DEF VerifyAccept, Answers, SocketTypes
      <4>3. SocketTypes'
        BY <3>3, <4>2 DEF SocketTypes, Phase
      <4> QED BY <3>4, <4>1, <4>3
    <3>6. CASE ~saved
      <4>1. /\ peer[c] \in Device
            /\ phase' = [phase EXCEPT ![c] = "over"]
            /\ UNCHANGED <<queue, peer, pendingFp, authedFp, shut>>
        BY <2>10, <3>6 DEF VerifyAccept, Answers, Refuse, SocketTypes
      <4>2. SocketTypes'
        BY <3>3, <4>1 DEF SocketTypes, Phase
      <4> QED BY <3>2, <3>4, <4>1, <4>2 DEF RecordTypes, queue
    <3> QED BY <3>5, <3>6
  <2>11. ASSUME NEW c \in Conn, Leave(c)
        PROVE  TypeInv'
    BY <2>11
       DEF Leave, Revocation, RevokeSingleUse, DropSession, CloseSocket,
           RecordTypes, SocketTypes, RegistryTypes, registry, queue, sockets, Phase
  <2>12. ASSUME NEW d \in Device, Approve(d)
        PROVE  TypeInv'
    <3>1. pending[d] \in Request
      BY <2>12 DEF Approve, IsPending, RecordTypes
    <3>2. RecordTypes'
      BY <2>12, <3>1, RequestTypes DEF Approve, RecordTypes
    <3>3. SocketTypes'
      BY <2>12, <3>1, PushTypes DEF Approve
    <3> QED BY <2>12, <3>2, <3>3 DEF Approve, RegistryTypes
  <2>13. ASSUME NEW d \in Device, AllowOnce(d)
        PROVE  TypeInv'
    <3>1. pending[d] \in Request
      BY <2>13 DEF AllowOnce, IsPending, RecordTypes
    <3>2. RecordTypes'
      BY <2>13, <3>1, RequestTypes DEF AllowOnce, RecordTypes
    <3>3. SocketTypes'
      BY <2>13, <3>1, PushTypes DEF AllowOnce
    <3> QED BY <2>13, <3>2, <3>3 DEF AllowOnce, RegistryTypes, registry
  <2>14. ASSUME NEW d \in Device, Reject(d)
        PROVE  TypeInv'
    <3>1. RecordTypes' /\ order' \in Seq(Device)
      BY <2>14, DequeueTypes DEF Reject, RecordTypes
    <3>2. CASE UNCHANGED sockets
      BY <2>14, <3>1, <3>2 DEF Reject, SocketTypes, sockets, RegistryTypes, registry
    <3>3. CASE CloseFromServer(pending[d].ws)
      BY <2>14, <3>1, <3>3 DEF Reject, CloseFromServer, SocketTypes, RegistryTypes, registry, Phase
    <3> QED BY <2>14, <3>2, <3>3 DEF Reject
  <2>15. ASSUME NEW d \in Device, BlockPending(d)
        PROVE  TypeInv'
    <3>1. RecordTypes' /\ order' \in Seq(Device)
      BY <2>15, DequeueTypes DEF BlockPending, RecordTypes
    <3>2. SocketTypes'
      BY <2>15 DEF BlockPending, CloseFromServer, SocketTypes, Phase
    <3> QED BY <2>15, <3>1, <3>2 DEF BlockPending, RegistryTypes, registry
  <2>16. ASSUME NEW d \in Device, NEW saved \in WriteOutcome,
                NEW deleted \in WriteOutcome, BlockResumes(d, saved, deleted)
        PROVE  TypeInv'
    <3>1. blocking' \in [Device -> Nat]
      BY <2>16 DEF BlockResumes, RegistryTypes
    <3>2. RecordTypes' /\ RegistryTypes' /\ order' \in Seq(Device)
      BY <2>16, <3>1
         DEF BlockResumes, FinishBlock, DropSession, RecordTypes, RegistryTypes, registry, queue
    <3> QED BY <2>16, <3>2 DEF BlockResumes, SocketTypes, sockets
  <2>17. ASSUME NEW d \in Device, NEW saved \in WriteOutcome,
                NEW deleted \in WriteOutcome, BlockTrusted(d, saved, deleted)
        PROVE  TypeInv'
    <3>1. pending' \in [Device -> Request \cup {NoRequest}] /\ order' \in Seq(Device)
      BY <2>17, DequeueTypes DEF BlockTrusted, RecordTypes
    <3> QED BY <2>17, <3>1
            DEF BlockTrusted, FinishBlock, DropSession, RecordTypes, SocketTypes,
                RegistryTypes, registry, sockets
  <2>18. ASSUME NEW d \in Device, RemoveTrust(d)
        PROVE  TypeInv'
    BY <2>18
       DEF RemoveTrust, DropSession,
           RecordTypes, SocketTypes, RegistryTypes, registry, queue, sockets, Phase
  <2>19. ASSUME NEW d \in Device, DisconnectDevice(d)
        PROVE  TypeInv'
    BY <2>19
       DEF DisconnectDevice, DropSession,
           RecordTypes, SocketTypes, RegistryTypes, registry, queue, sockets, Phase
  <2>20. ASSUME NEW d \in Device, Unblock(d)
        PROVE  TypeInv'
    BY <2>20
       DEF Unblock,
           RecordTypes, SocketTypes, RegistryTypes, registry, queue, sockets, Phase
  <2>21. ASSUME NEW d \in Device, NEW saved \in WriteOutcome, TrustBlocked(d, saved)
        PROVE  TypeInv'
    BY <2>21
       DEF TrustBlocked,
           RecordTypes, SocketTypes, RegistryTypes, registry, queue, sockets, Phase
  <2>22. ASSUME NEW d \in Device, RequestExpires(d)
        PROVE  TypeInv'
    <3>1. RecordTypes'
      BY <2>22, RequestTypes DEF RequestExpires, IsPending, RecordTypes
    <3> QED BY <2>22, <3>1 DEF RequestExpires, SocketTypes, RegistryTypes, registry, sockets
  <2>23. ASSUME NEW d \in Device, SessionExpires(d)
        PROVE  TypeInv'
    BY <2>23
       DEF SessionExpires, HasSession, Session,
           RecordTypes, SocketTypes, RegistryTypes, registry, queue, sockets, Phase
  <2>24. ASSUME NEW d \in Device, HeartbeatFindsExpired(d)
        PROVE  TypeInv'
    BY <2>24
       DEF HeartbeatFindsExpired, DropSession,
           RecordTypes, SocketTypes, RegistryTypes, registry, queue, sockets, Phase
  <2>25. ASSUME NEW d \in Device, StreamClientStale(d)
        PROVE  TypeInv'
    BY <2>25
       DEF StreamClientStale, RevokeSingleUse, DropSession,
           RecordTypes, SocketTypes, RegistryTypes, registry, queue, sockets, Phase
  <2>26. ASSUME NEW d \in Device, CrashInSaveBlocked(d)
        PROVE  TypeInv'
    BY <2>26
       DEF CrashInSaveBlocked, ForgetAll,
           RecordTypes, SocketTypes, RegistryTypes, registry, queue, sockets, Phase
  <2>27. CASE CollectGarbage
    BY <2>27, WithoutFirstKeeps
       DEF CollectGarbage, CollectSessions, CollectRequests,
           RecordTypes, SocketTypes, RegistryTypes, registry, queue, sockets, Phase
  <2>28. CASE Restart
    BY <2>28
       DEF Restart, ForgetAll,
           RecordTypes, SocketTypes, RegistryTypes, registry, queue, sockets, Phase
  <2>29. CASE UNCHANGED vars
    BY <2>29 DEF vars, registry, queue, sockets, RecordTypes, SocketTypes, RegistryTypes
  <2> QED
    BY <2>1, <2>2, <2>3, <2>4, <2>5, <2>6, <2>7, <2>8, <2>9, <2>10, <2>11, <2>12,
       <2>13, <2>14, <2>15, <2>16, <2>17, <2>18, <2>19, <2>20, <2>21, <2>22, <2>23, <2>24,
       <2>25, <2>26, <2>27, <2>28, <2>29, NextCases, Zenon
<1> QED BY <1>1, <1>2

\* TypeOK: every variable keeps to its type; in particular every request and
\* every session has the socket it came in on, and only devices get into the
\* queue.
THEOREM TypeCorrect == Spec => []TypeOK
<1>1. Spec => []TypeInv
  BY TypeInvInductive, PTL DEF Spec
<1> QED BY <1>1, TypeInvImpliesTypeOK, PTL

-----------------------------------------------------------------------------
(* The queue. *)

\* Removing a request keeps the places of the others.
LEMMA DequeueCovers ==
  ASSUME order \in Seq(Device), pending \in [Device -> Request \cup {NoRequest}],
         QueueCovers, NEW d \in Device, Dequeue(d)
  PROVE  QueueCovers'
<1>1. ASSUME NEW e \in Device, IsPending(e)'
      PROVE  Contains(order, e) /\ e \notin {d}
  BY <1>1 DEF Dequeue, IsPending, QueueCovers
<1> QED BY <1>1, WithoutFirstKeeps DEF Dequeue, QueueCovers

LEMMA AppendContains ==
  ASSUME NEW s \in Seq(Device), NEW d \in Device
  PROVE  /\ Contains(Append(s, d), d)
         /\ \A e \in Device : Contains(s, e) => Contains(Append(s, d), e)
<1>1. /\ Len(Append(s, d)) = Len(s) + 1 /\ Append(s, d)[Len(s) + 1] = d
      /\ Len(s) + 1 \in 1 .. Len(s) + 1
      /\ \A i \in 1 .. Len(s) : i \in 1 .. Len(s) + 1 /\ Append(s, d)[i] = s[i]
  OBVIOUS
<1> QED BY <1>1, Zenon DEF Contains

LEMMA TailContains ==
  ASSUME NEW s \in Seq(Device), NEW e \in Device, Contains(s, e), e # Head(s)
  PROVE  Contains(Tail(s), e)
<1>1. PICK i \in 1 .. Len(s) : s[i] = e
  BY DEF Contains
<1>2. s # <<>> /\ i - 1 \in 1 .. Len(Tail(s)) /\ Tail(s)[i - 1] = e
  BY <1>1
<1> QED BY <1>2 DEF Contains

\* Eviction gives up at most the request whose place it takes away.
LEMMA EvictionCovers ==
  ASSUME TypeInv, QueueCovers, NEW e \in Device, AfterEviction[e] # NoRequest
  PROVE  Contains(OrderAfterEviction, e)
<1> USE DEF TypeInv, RecordTypes
<1>1. CASE QueueFull
  <2>1. IsPending(e) /\ e # Head(order)
    BY <1>1 DEF AfterEviction, IsPending
  <2> QED BY <1>1, <2>1, TailContains DEF OrderAfterEviction, QueueCovers
<1>2. CASE ~QueueFull
  BY <1>2 DEF AfterEviction, OrderAfterEviction, QueueCovers, IsPending
<1> QED BY <1>1, <1>2

\* QueueCovers: a full queue always has a front entry to evict, and no request
\* is out of the evictions' reach.
THEOREM QueueCoversDevices == Spec => []QueueCovers
<1>1. Init => QueueCovers
  BY DEF Init, QueueCovers, IsPending
<1>2. TypeInv /\ QueueCovers /\ [Next]_vars => QueueCovers'
  <2> SUFFICES ASSUME TypeInv, QueueCovers, [Next]_vars
               PROVE  QueueCovers'
    OBVIOUS
  <2> USE DEF TypeInv, RecordTypes
  <2>1. ASSUME NEW c \in Conn, NEW d \in Device, Connect(c, d)
        PROVE  QueueCovers'
    BY <2>1 DEF Connect, QueueCovers, IsPending, queue
  <2>2. ASSUME NEW c \in Conn, HelloRateLimited(c)
        PROVE  QueueCovers'
    BY <2>2 DEF HelloRateLimited, QueueCovers, IsPending, queue
  <2>3. ASSUME NEW c \in Conn, HelloBlocked(c)
        PROVE  QueueCovers'
    BY <2>3 DEF HelloBlocked, QueueCovers, IsPending, queue
  <2>4. ASSUME NEW c \in Conn, NEW ch \in Challenge, HelloTrusted(c, ch)
        PROVE  QueueCovers'
    <3>1. peer[c] \in Device
      BY <2>4 DEF HelloTrusted, SocketTypes
    <3>2. Contains(order', peer[c]) /\ \A e \in Device : Contains(order, e) => Contains(order', e)
      BY <2>4, <3>1, AppendContains DEF HelloTrusted, IssueChallenge
    <3>3. \A e \in Device : e # peer[c] => pending'[e] = pending[e]
      BY <2>4 DEF HelloTrusted, IssueChallenge
    <3> QED BY <3>2, <3>3 DEF QueueCovers, IsPending
  <2>5. ASSUME NEW c \in Conn, NEW ch \in Challenge, NEW saved \in WriteOutcome, HelloPending(c, ch, saved)
        PROVE  QueueCovers'
    <3>1. peer[c] \in Device
      BY <2>5 DEF HelloPending, SocketTypes
    <3>2. OrderAfterEviction \in Seq(Device)
      BY TailType DEF OrderAfterEviction
    <3>3. AfterEviction \in [Device -> Request \cup {NoRequest}]
      BY DEF AfterEviction
    <3>4. /\ order' = Append(OrderAfterEviction, peer[c])
          /\ \A e \in Device : e # peer[c] => pending'[e] = AfterEviction[e]
      BY <2>5, <3>3 DEF HelloPending, Enqueue
    <3> QED BY <3>1, <3>2, <3>4, EvictionCovers, AppendContains DEF QueueCovers, IsPending
  <2>6. ASSUME NEW c \in Conn, Ping(c)
        PROVE  QueueCovers'
    BY <2>6 DEF Ping, QueueCovers, IsPending
  <2>7. ASSUME NEW c \in Conn, VerifyUnknown(c)
        PROVE  QueueCovers'
    BY <2>7 DEF VerifyUnknown, QueueCovers, IsPending, queue
  <2>8. ASSUME NEW c \in Conn, VerifyExpired(c)
        PROVE  QueueCovers'
    BY <2>8, DequeueCovers DEF VerifyExpired, Answers, SocketTypes
  <2>9. ASSUME NEW c \in Conn, VerifyBadSignature(c)
        PROVE  QueueCovers'
    BY <2>9 DEF VerifyBadSignature, QueueCovers, IsPending, queue
  <2>10. ASSUME NEW c \in Conn, NEW saved \in WriteOutcome, VerifyAccept(c, saved)
        PROVE  QueueCovers'
    <3>1. CASE saved
      BY <2>10, <3>1, DequeueCovers DEF VerifyAccept, Answers, SocketTypes
    <3>2. CASE ~saved
      BY <2>10, <3>2 DEF VerifyAccept, QueueCovers, IsPending, queue
    <3> QED BY <3>1, <3>2
  <2>11. ASSUME NEW c \in Conn, Leave(c)
        PROVE  QueueCovers'
    BY <2>11 DEF Leave, QueueCovers, IsPending, queue
  <2>12. ASSUME NEW d \in Device, Approve(d)
        PROVE  QueueCovers'
    BY <2>12 DEF Approve, QueueCovers, IsPending
  <2>13. ASSUME NEW d \in Device, AllowOnce(d)
        PROVE  QueueCovers'
    BY <2>13 DEF AllowOnce, QueueCovers, IsPending
  <2>14. ASSUME NEW d \in Device, Reject(d)
        PROVE  QueueCovers'
    BY <2>14, DequeueCovers DEF Reject
  <2>15. ASSUME NEW d \in Device, BlockPending(d)
        PROVE  QueueCovers'
    BY <2>15, DequeueCovers DEF BlockPending
  <2>16. ASSUME NEW d \in Device, NEW saved \in WriteOutcome,
                NEW deleted \in WriteOutcome, BlockResumes(d, saved, deleted)
        PROVE  QueueCovers'
    BY <2>16 DEF BlockResumes, QueueCovers, IsPending, queue
  <2>17. ASSUME NEW d \in Device, NEW saved \in WriteOutcome,
                NEW deleted \in WriteOutcome, BlockTrusted(d, saved, deleted)
        PROVE  QueueCovers'
    BY <2>17, DequeueCovers DEF BlockTrusted
  <2>18. ASSUME NEW d \in Device, RemoveTrust(d)
        PROVE  QueueCovers'
    BY <2>18 DEF RemoveTrust, QueueCovers, IsPending, queue
  <2>19. ASSUME NEW d \in Device, DisconnectDevice(d)
        PROVE  QueueCovers'
    BY <2>19 DEF DisconnectDevice, QueueCovers, IsPending, queue
  <2>20. ASSUME NEW d \in Device, Unblock(d)
        PROVE  QueueCovers'
    BY <2>20 DEF Unblock, QueueCovers, IsPending, queue
  <2>21. ASSUME NEW d \in Device, NEW saved \in WriteOutcome, TrustBlocked(d, saved)
        PROVE  QueueCovers'
    BY <2>21 DEF TrustBlocked, QueueCovers, IsPending, queue
  <2>22. ASSUME NEW d \in Device, RequestExpires(d)
        PROVE  QueueCovers'
    BY <2>22 DEF RequestExpires, QueueCovers, IsPending
  <2>23. ASSUME NEW d \in Device, SessionExpires(d)
        PROVE  QueueCovers'
    BY <2>23 DEF SessionExpires, QueueCovers, IsPending, queue
  <2>24. ASSUME NEW d \in Device, HeartbeatFindsExpired(d)
        PROVE  QueueCovers'
    BY <2>24 DEF HeartbeatFindsExpired, QueueCovers, IsPending, queue
  <2>25. ASSUME NEW d \in Device, StreamClientStale(d)
        PROVE  QueueCovers'
    BY <2>25 DEF StreamClientStale, QueueCovers, IsPending, queue
  <2>26. ASSUME NEW d \in Device, CrashInSaveBlocked(d)
        PROVE  QueueCovers'
    BY <2>26 DEF CrashInSaveBlocked, ForgetAll, QueueCovers, IsPending
  <2>27. CASE CollectGarbage
    <3>1. ASSUME NEW e \in Device, IsPending(e)'
          PROVE  Contains(order, e) /\ e \notin ExpiredRequests
      BY <2>27, <3>1 DEF CollectGarbage, CollectRequests, IsPending, QueueCovers
    <3> QED BY <2>27, <3>1, WithoutFirstKeeps DEF CollectGarbage, CollectRequests, QueueCovers
  <2>28. CASE Restart
    BY <2>28 DEF Restart, ForgetAll, QueueCovers, IsPending
  <2>29. CASE UNCHANGED vars
    BY <2>29 DEF vars, queue, QueueCovers, IsPending
  <2> QED
    BY <2>1, <2>2, <2>3, <2>4, <2>5, <2>6, <2>7, <2>8, <2>9, <2>10, <2>11, <2>12,
       <2>13, <2>14, <2>15, <2>16, <2>17, <2>18, <2>19, <2>20, <2>21, <2>22, <2>23, <2>24,
       <2>25, <2>26, <2>27, <2>28, <2>29, NextCases, Zenon
<1>3. Spec => []TypeInv
  BY TypeInvInductive, PTL DEF Spec
<1> QED BY <1>1, <1>2, <1>3, PTL DEF Spec

-----------------------------------------------------------------------------
(* Quiet steps: every action but five only lets requests, sessions and     *)
(* challenges in clients' hands disappear.                                 *)

SameRequest(d) ==
  /\ IsPending(d) /\ IsPending(d)'
  /\ pending'[d].chal = pending[d].chal /\ pending'[d].ws = pending[d].ws
  /\ pending'[d].grant = pending[d].grant
  /\ pending'[d].allowOnce = pending[d].allowOnce

SameSession(d) ==
  /\ HasSession(d) /\ HasSession(d)'
  /\ sessions'[d].key = sessions[d].key /\ sessions'[d].ws = sessions[d].ws
  /\ sessions'[d].grant = sessions[d].grant
  /\ sessions'[d].singleUse = sessions[d].singleUse

Quiet ==
  /\ \A d \in Device : IsPending(d)' => SameRequest(d)
  /\ \A d \in Device : HasSession(d)' => SameSession(d)
  /\ \A c \in Conn : held'[c] \in {held[c], NoChallenge}

\* The five others.
Busy ==
  \/ \E c \in Conn, ch \in Challenge : HelloTrusted(c, ch)
  \/ \E c \in Conn, ch \in Challenge, saved \in WriteOutcome : HelloPending(c, ch, saved)
  \/ \E c \in Conn, saved \in WriteOutcome : VerifyAccept(c, saved)
  \/ \E d \in Device : Approve(d)
  \/ \E d \in Device : AllowOnce(d)

LEMMA QuietOrBusy ==
  ASSUME TypeInv, [Next]_vars
  PROVE  Quiet \/ Busy
<1> USE DEF TypeInv, RecordTypes
<1>1. ASSUME NEW c \in Conn, NEW d \in Device, Connect(c, d)
      PROVE  Quiet
  BY <1>1 DEF Connect, SocketTypes,
        Quiet, SameRequest, SameSession, IsPending, HasSession, queue, sockets
<1>2. ASSUME NEW c \in Conn, HelloRateLimited(c)
      PROVE  Quiet
  BY <1>2 DEF HelloRateLimited, SocketTypes,
        Quiet, SameRequest, SameSession, IsPending, HasSession, queue, sockets
<1>3. ASSUME NEW c \in Conn, HelloBlocked(c)
      PROVE  Quiet
  BY <1>3 DEF HelloBlocked, SocketTypes,
        Quiet, SameRequest, SameSession, IsPending, HasSession, queue, sockets
<1>4. ASSUME NEW c \in Conn, Ping(c)
      PROVE  Quiet
  BY <1>4 DEF Ping, Request, SocketTypes,
        Quiet, SameRequest, SameSession, IsPending, HasSession, queue, sockets
<1>5. ASSUME NEW c \in Conn, VerifyUnknown(c)
      PROVE  Quiet
  BY <1>5 DEF VerifyUnknown, Answers, SocketTypes,
        Quiet, SameRequest, SameSession, IsPending, HasSession, queue, sockets
<1>6. ASSUME NEW c \in Conn, VerifyExpired(c)
      PROVE  Quiet
  BY <1>6 DEF VerifyExpired, Answers, Dequeue, SocketTypes,
        Quiet, SameRequest, SameSession, IsPending, HasSession, queue, sockets
<1>7. ASSUME NEW c \in Conn, VerifyBadSignature(c)
      PROVE  Quiet
  BY <1>7 DEF VerifyBadSignature, Answers, SocketTypes,
        Quiet, SameRequest, SameSession, IsPending, HasSession, queue, sockets
<1>8. ASSUME NEW c \in Conn, Leave(c)
      PROVE  Quiet
  BY <1>8 DEF Leave, Revocation, RevokeSingleUse, DropSession, CloseSocket, SocketTypes,
        Quiet, SameRequest, SameSession, IsPending, HasSession, queue, sockets
<1>9. ASSUME NEW d \in Device, Reject(d)
      PROVE  Quiet
  BY <1>9 DEF Reject, Dequeue, CloseFromServer, SocketTypes,
        Quiet, SameRequest, SameSession, IsPending, HasSession, queue, sockets
<1>10. ASSUME NEW d \in Device, BlockPending(d)
      PROVE  Quiet
  BY <1>10 DEF BlockPending, Dequeue, CloseFromServer, SocketTypes,
        Quiet, SameRequest, SameSession, IsPending, HasSession, queue, sockets
<1>11. ASSUME NEW d \in Device, NEW saved \in WriteOutcome,
                NEW deleted \in WriteOutcome, BlockResumes(d, saved, deleted)
      PROVE  Quiet
  BY <1>11 DEF BlockResumes, FinishBlock, DropSession, SocketTypes,
        Quiet, SameRequest, SameSession, IsPending, HasSession, queue, sockets
<1>12. ASSUME NEW d \in Device, NEW saved \in WriteOutcome,
                NEW deleted \in WriteOutcome, BlockTrusted(d, saved, deleted)
      PROVE  Quiet
  BY <1>12 DEF BlockTrusted, Dequeue, FinishBlock, DropSession, SocketTypes,
        Quiet, SameRequest, SameSession, IsPending, HasSession, queue, sockets
<1>13. ASSUME NEW d \in Device, RemoveTrust(d)
      PROVE  Quiet
  BY <1>13 DEF RemoveTrust, DropSession, SocketTypes,
        Quiet, SameRequest, SameSession, IsPending, HasSession, queue, sockets
<1>14. ASSUME NEW d \in Device, DisconnectDevice(d)
      PROVE  Quiet
  BY <1>14 DEF DisconnectDevice, DropSession, SocketTypes,
        Quiet, SameRequest, SameSession, IsPending, HasSession, queue, sockets
<1>15. ASSUME NEW d \in Device, Unblock(d)
      PROVE  Quiet
  BY <1>15 DEF Unblock, SocketTypes,
        Quiet, SameRequest, SameSession, IsPending, HasSession, queue, sockets
<1>16. ASSUME NEW d \in Device, NEW saved \in WriteOutcome, TrustBlocked(d, saved)
      PROVE  Quiet
  BY <1>16 DEF TrustBlocked, SocketTypes,
        Quiet, SameRequest, SameSession, IsPending, HasSession, queue, sockets
<1>17. ASSUME NEW d \in Device, RequestExpires(d)
      PROVE  Quiet
  BY <1>17 DEF RequestExpires, Request, SocketTypes,
        Quiet, SameRequest, SameSession, IsPending, HasSession, queue, sockets
<1>18. ASSUME NEW d \in Device, SessionExpires(d)
      PROVE  Quiet
  BY <1>18 DEF SessionExpires, Session, SocketTypes,
        Quiet, SameRequest, SameSession, IsPending, HasSession, queue, sockets
<1>19. ASSUME NEW d \in Device, HeartbeatFindsExpired(d)
      PROVE  Quiet
  BY <1>19 DEF HeartbeatFindsExpired, DropSession, SocketTypes,
        Quiet, SameRequest, SameSession, IsPending, HasSession, queue, sockets
<1>20. ASSUME NEW d \in Device, StreamClientStale(d)
      PROVE  Quiet
  BY <1>20 DEF StreamClientStale, RevokeSingleUse, DropSession, SocketTypes,
        Quiet, SameRequest, SameSession, IsPending, HasSession, queue, sockets
<1>21. ASSUME NEW d \in Device, CrashInSaveBlocked(d)
      PROVE  Quiet
  BY <1>21 DEF CrashInSaveBlocked, ForgetAll, SocketTypes,
        Quiet, SameRequest, SameSession, IsPending, HasSession, queue, sockets
<1>22. ASSUME CollectGarbage
      PROVE  Quiet
  BY <1>22 DEF CollectGarbage, CollectSessions, CollectRequests, SocketTypes,
        Quiet, SameRequest, SameSession, IsPending, HasSession, queue, sockets
<1>23. ASSUME Restart
      PROVE  Quiet
  BY <1>23 DEF Restart, ForgetAll, SocketTypes,
        Quiet, SameRequest, SameSession, IsPending, HasSession, queue, sockets
<1>24. CASE UNCHANGED vars
  BY <1>24 DEF vars, Quiet, SameRequest, SameSession, IsPending, HasSession, queue, sockets
<1> QED
  BY <1>1, <1>2, <1>3, <1>4, <1>5, <1>6, <1>7, <1>8, <1>9, <1>10, <1>11, <1>12,
     <1>13, <1>14, <1>15, <1>16, <1>17, <1>18, <1>19, <1>20, <1>21, <1>22, <1>23, <1>24, NextCases, Zenon
  DEF Busy

-----------------------------------------------------------------------------
(* Grants. *)

\* A client that holds a request's challenge got it over the request's own
\* socket, after the operator's grant.
Offered ==
  \A c \in Conn, d \in Device : IsPending(d) /\ held[c] = pending[d].chal =>
    /\ pending[d].ws = c
    /\ pending[d].grant # "none"
    /\ pending[d].grant = "once" => pending[d].allowOnce

\* No two requests share a challenge.
OneOwner ==
  \A d, e \in Device :
    IsPending(d) /\ IsPending(e) /\ pending[d].chal = pending[e].chal => d = e

GrantInv == Offered /\ OneOwner /\ SessionsGranted

LEMMA PendingRecord ==
  ASSUME TypeInv, NEW d \in Device, IsPending(d)
  PROVE  pending[d] \in Request /\ pending[d].chal \in Challenge /\ pending[d].ws \in Conn
BY DEF TypeInv, RecordTypes, IsPending, Request

LEMMA QuietGrants ==
  ASSUME TypeInv, GrantInv, Quiet
  PROVE  GrantInv'
<1>1. Offered'
  BY PendingRecord, NullsAreNull DEF GrantInv, Offered, Quiet, SameRequest
<1>2. OneOwner'
  BY DEF GrantInv, OneOwner, Quiet, SameRequest
<1>3. SessionsGranted'
  BY DEF GrantInv, SessionsGranted, Quiet, SameSession
<1> QED BY <1>1, <1>2, <1>3 DEF GrantInv

\* A fresh challenge in a new or refreshed request of d, handed to nobody or,
\* when granted for good, to the client on the request's socket.
LEMMA FreshGrants ==
  ASSUME TypeInv, GrantInv, NEW d \in Device, NEW c \in Conn, NEW ch \in Challenge,
         ch \in Fresh,
         pending'[d].chal = ch, pending'[d].ws = c,
         \A e \in Device \ {d} : IsPending(e)' => IsPending(e) /\ pending'[e] = pending[e],
         \A b \in Conn \ {c} : held'[b] = held[b],
         held'[c] = held[c] \/ (held'[c] = ch /\ pending'[d].grant = "always"),
         UNCHANGED sessions
  PROVE  GrantInv'
<1>1. /\ \A e \in Device : IsPending(e) => pending[e].chal # ch
      /\ \A b \in Conn : held[b] # ch
  BY DEF Fresh, InUse
<1>2. Offered'
  <2> SUFFICES ASSUME NEW b \in Conn, NEW e \in Device,
                      IsPending(e)', held'[b] = pending'[e].chal
               PROVE  /\ pending'[e].ws = b
                      /\ pending'[e].grant # "none"
                      /\ pending'[e].grant = "once" => pending'[e].allowOnce
    BY DEF Offered
  <2>1. CASE e = d
    <3>1. b = c /\ held'[c] = ch /\ pending'[d].grant = "always"
      BY <1>1, <2>1
    <3> QED BY <2>1, <3>1
  <2>2. CASE e # d
    <3>1. IsPending(e) /\ pending'[e] = pending[e] /\ pending'[e].chal # ch
      BY <1>1, <2>2
    <3>2. held[b] = pending[e].chal
      BY <3>1
    <3> QED BY <3>1, <3>2 DEF GrantInv, Offered
  <2> QED BY <2>1, <2>2
<1>3. OneOwner'
  <2> SUFFICES ASSUME NEW e \in Device, NEW f \in Device, IsPending(e)', IsPending(f)',
                      pending'[e].chal = pending'[f].chal, e # f
               PROVE  FALSE
    BY DEF OneOwner
  <2>1. CASE e = d
    BY <1>1, <2>1
  <2>2. CASE f = d
    BY <1>1, <2>2
  <2>3. CASE e # d /\ f # d
    BY <2>3 DEF GrantInv, OneOwner
  <2> QED BY <2>1, <2>2, <2>3
<1>4. SessionsGranted'
  BY DEF GrantInv, SessionsGranted, HasSession
<1> QED BY <1>2, <1>3, <1>4 DEF GrantInv

\* The operator's grant, and its push to the request's socket.
LEMMA PushGrants ==
  ASSUME TypeInv, GrantInv, NEW d \in Device, IsPending(d), Push(d), UNCHANGED sessions,
         \A e \in Device \ {d} : pending'[e] = pending[e],
         pending'[d].chal = pending[d].chal, pending'[d].ws = pending[d].ws,
         pending'[d].grant # "none",
         pending'[d].grant = "once" => pending'[d].allowOnce
  PROVE  GrantInv'
<1> DEFINE c == pending[d].ws
<1>1. c \in Conn
  BY PendingRecord
<1>2. \A b \in Conn : held'[b] = held[b] \/ (b = c /\ held'[b] = pending[d].chal)
  <2>1. CASE UNCHANGED sockets
    BY <2>1 DEF sockets
  <2>2. CASE held' = [held EXCEPT ![c] = pending[d].chal]
    BY <2>2 DEF TypeInv, SocketTypes
  <2> QED BY <2>1, <2>2 DEF Push
<1>3. Offered'
  <2> SUFFICES ASSUME NEW b \in Conn, NEW e \in Device,
                      IsPending(e)', held'[b] = pending'[e].chal
               PROVE  /\ pending'[e].ws = b
                      /\ pending'[e].grant # "none"
                      /\ pending'[e].grant = "once" => pending'[e].allowOnce
    BY DEF Offered
  <2>1. CASE e = d
    <3>1. b = c \/ held[b] = pending[d].chal
      BY <1>2, <2>1
    <3>2. b = c
      BY <3>1 DEF GrantInv, Offered
    <3> QED BY <2>1, <3>2
  <2>2. CASE e # d
    <3>1. IsPending(e) /\ pending'[e] = pending[e]
      BY <2>2 DEF IsPending
    <3>2. held[b] = pending[e].chal
      BY <1>2, <2>2, <3>1 DEF GrantInv, OneOwner
    <3> QED BY <3>1, <3>2 DEF GrantInv, Offered
  <2> QED BY <2>1, <2>2
<1>4. OneOwner'
  BY DEF GrantInv, OneOwner, IsPending
<1>5. SessionsGranted'
  BY DEF GrantInv, SessionsGranted, HasSession
<1> QED BY <1>3, <1>4, <1>5 DEF GrantInv

\* An accepted answer: the session's grant is the request's.
LEMMA AcceptGrants ==
  ASSUME TypeInv, GrantInv, NEW c \in Conn, NEW saved \in WriteOutcome,
         VerifyAccept(c, saved)
  PROVE  GrantInv'
<1> DEFINE d == peer[c]
<1>1. d \in Device /\ IsPending(d) /\ pending[d].chal = held[c]
  BY DEF VerifyAccept, Answers, SignatureOK, TypeInv, SocketTypes
<1>2. /\ \A e \in Device \ {d} : sessions'[e] = sessions[e]
      /\ sessions'[d] = SessionFrom(pending[d])
  BY <1>1 DEF VerifyAccept, TypeInv, RecordTypes
<1>3. \A e \in Device : IsPending(e)' => IsPending(e) /\ pending'[e] = pending[e]
  BY <1>1 DEF VerifyAccept, Dequeue, IsPending, queue, TypeInv, RecordTypes
<1>4. \A b \in Conn : held'[b] \in {held[b], NoChallenge}
  BY DEF VerifyAccept, Answers, TypeInv, SocketTypes
<1>5. Offered'
  BY <1>3, <1>4, PendingRecord, NullsAreNull DEF GrantInv, Offered
<1>6. OneOwner'
  BY <1>3 DEF GrantInv, OneOwner
<1>7. /\ sessions'[d].grant = pending[d].grant
      /\ sessions'[d].singleUse = pending[d].allowOnce
  BY <1>2 DEF SessionFrom
<1>8. /\ pending[d].grant # "none"
      /\ pending[d].grant = "once" => pending[d].allowOnce
  BY <1>1 DEF GrantInv, Offered
<1>9. SessionsGranted'
  BY <1>2, <1>7, <1>8 DEF GrantInv, SessionsGranted, HasSession
<1> QED BY <1>5, <1>6, <1>9 DEF GrantInv

\* Every step keeps the grants.
LEMMA GrantsKept == TypeInv /\ GrantInv /\ [Next]_vars => GrantInv'
<1> SUFFICES ASSUME TypeInv, GrantInv, [Next]_vars
             PROVE  GrantInv'
  OBVIOUS
<1>1. CASE Quiet
  BY <1>1, QuietGrants
<1>2. ASSUME NEW c \in Conn, NEW ch \in Challenge, HelloTrusted(c, ch)
      PROVE  GrantInv'
  <2> DEFINE d == peer[c]
  <2>1. d \in Device /\ ch \in Fresh
    BY <1>2 DEF HelloTrusted, TypeInv, SocketTypes
  <2>2. pending'[d] = IF IsPending(d) /\ ~pending[d].expired
                      THEN Refreshed(pending[d], ch, c) ELSE NewRequest(ch, c, "always")
    BY <1>2, <2>1 DEF HelloTrusted, IssueChallenge, TypeInv, RecordTypes
  <2>3. pending'[d].chal = ch /\ pending'[d].ws = c /\ pending'[d].grant = "always"
    <3>1. CASE IsPending(d) /\ ~pending[d].expired
      BY <2>1, <2>2, <3>1, PendingRecord DEF Refreshed, Request
    <3>2. CASE ~(IsPending(d) /\ ~pending[d].expired)
      BY <2>2, <3>2 DEF NewRequest
    <3> QED BY <3>1, <3>2
  <2>4. \A e \in Device \ {d} : pending'[e] = pending[e]
    BY <1>2 DEF HelloTrusted, IssueChallenge, TypeInv, RecordTypes
  <2>5. /\ \A b \in Conn \ {c} : held'[b] = held[b]
        /\ held'[c] = ch
        /\ UNCHANGED sessions
    BY <1>2 DEF HelloTrusted, TypeInv, SocketTypes
  <2> QED BY <2>1, <2>3, <2>4, <2>5, FreshGrants DEF IsPending
<1>3. ASSUME NEW c \in Conn, NEW ch \in Challenge, NEW saved \in WriteOutcome,
             HelloPending(c, ch, saved)
      PROVE  GrantInv'
  <2> DEFINE d == peer[c]
  <2>1. d \in Device /\ ch \in Fresh
    BY <1>3 DEF HelloPending, TypeInv, SocketTypes
  <2>2. AfterEviction \in [Device -> Request \cup {NoRequest}]
    BY DEF AfterEviction, TypeInv, RecordTypes
  <2>3. \A e \in Device : AfterEviction[e] = pending[e] \/ AfterEviction[e] = NoRequest
    BY DEF AfterEviction, TypeInv, RecordTypes
  <2>4. pending'[d] = NewRequest(ch, c, "none")
    BY <1>3, <2>1, <2>2 DEF HelloPending, Enqueue
  <2>5. \A e \in Device \ {d} : IsPending(e)' => IsPending(e) /\ pending'[e] = pending[e]
    BY <1>3, <2>2, <2>3 DEF HelloPending, Enqueue, IsPending
  <2>6. pending'[d].chal = ch /\ pending'[d].ws = c
    BY <2>4 DEF NewRequest
  <2>7. (\A b \in Conn : held'[b] = held[b]) /\ UNCHANGED sessions
    BY <1>3 DEF HelloPending
  <2> QED BY <2>1, <2>5, <2>6, <2>7, FreshGrants
<1>4. ASSUME NEW c \in Conn, NEW saved \in WriteOutcome, VerifyAccept(c, saved)
      PROVE  GrantInv'
  BY <1>4, AcceptGrants
<1>5. ASSUME NEW d \in Device, Approve(d)
      PROVE  GrantInv'
  <2>1. pending[d] \in Request /\ IsPending(d)
    BY <1>5, PendingRecord DEF Approve
  <2>2. /\ pending'[d].chal = pending[d].chal /\ pending'[d].ws = pending[d].ws
        /\ pending'[d].grant = "always"
    BY <1>5, <2>1 DEF Approve, TypeInv, RecordTypes, Request
  <2>3. /\ \A e \in Device \ {d} : pending'[e] = pending[e]
        /\ UNCHANGED sessions /\ Push(d)
    BY <1>5 DEF Approve, TypeInv, RecordTypes
  <2> QED BY <2>1, <2>2, <2>3, PushGrants
<1>6. ASSUME NEW d \in Device, AllowOnce(d)
      PROVE  GrantInv'
  <2>1. pending[d] \in Request /\ IsPending(d)
    BY <1>6, PendingRecord DEF AllowOnce
  <2>2. /\ pending'[d].chal = pending[d].chal /\ pending'[d].ws = pending[d].ws
        /\ pending'[d].grant # "none" /\ pending'[d].allowOnce
    BY <1>6, <2>1 DEF AllowOnce, TypeInv, RecordTypes, Request
  <2>3. /\ \A e \in Device \ {d} : pending'[e] = pending[e]
        /\ UNCHANGED sessions /\ Push(d)
    BY <1>6 DEF AllowOnce, TypeInv, RecordTypes
  <2> QED BY <2>1, <2>2, <2>3, PushGrants
<1> QED BY <1>1, <1>2, <1>3, <1>4, <1>5, <1>6, QuietOrBusy, Zenon DEF Busy

\* SessionsGranted: every session descends from a challenge that the operator
\* granted while it was pending, whatever writes fail.
THEOREM SessionsAreGranted == Spec => []SessionsGranted
<1>1. Init => GrantInv
  BY DEF Init, GrantInv, Offered, OneOwner, SessionsGranted, IsPending, HasSession
<1>2. TypeInv /\ GrantInv /\ [Next]_vars => GrantInv'
  BY GrantsKept
<1>3. Spec => []TypeInv
  BY TypeInvInductive, PTL DEF Spec
<1>4. GrantInv => SessionsGranted
  BY DEF GrantInv
<1> QED BY <1>1, <1>2, <1>3, <1>4, PTL DEF Spec

=============================================================================
