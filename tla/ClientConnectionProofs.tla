------------------------ MODULE ClientConnectionProofs ------------------------
(***************************************************************************)
(* Proofs about ClientConnection, for any queue, exponent and number of    *)
(* pushes.                                                                 *)
(*                                                                         *)
(* Two invariants carry them.  Resting says which tasks and sockets there  *)
(* can be at each await of _main_loop, Talking what can be in flight on    *)
(* the auth socket at each point of the handshake.                         *)
(***************************************************************************)
EXTENDS ClientConnection, SequenceTheorems, TLAPS

\* Away from the stream no loop runs, and after the backoff none is left;
\* the same holds while a cancellation is due.  Who stops waits for main.
Resting ==
  /\ main \notin {"stream", "backoff", "done"} => \A k \in Loop : loops[k] = "none"
  /\ main # "stream" \/ cancel => \A k \in Loop : loops[k] # "running"
  /\ main # "stream" \/ cancel => ~transport
  /\ stop # "no" => main = "done" \/ "main" \in gathered
  /\ stop = "returned" => main = "done"

\* The awaits before the client has answered its challenge.
Unanswered == {"hello", "waiting", "ping"}

\* HELLO is the first message of a socket and the answer the last, so nothing
\* the server still has to read can change an acceptance.
Talking ==
  /\ \A i \in DOMAIN toServer : toServer[i] = "HELLO" => i = 1
  /\ \A i \in DOMAIN toServer :
       toServer[i] = "CHALLENGE_RESPONSE" => i = Len(toServer) /\ main \notin Unanswered
  /\ verdict = "accepted" =>
       /\ request = "none"
       /\ main \notin Unanswered
       /\ \A i \in DOMAIN toServer : toServer[i] = "PING"
  /\ \A i \in DOMAIN toClient : toClient[i] = "authenticated" => verdict = "accepted"
  /\ main \in {"bind", "stream"} => verdict = "accepted"

-----------------------------------------------------------------------------
\* Messages appended, taken and lost keep a channel a channel.
LEMMA Channels ==
  ASSUME NEW S, NEW s \in Seq(S)
  PROVE  /\ \A m \in S : Append(s, m) \in Seq(S)
         /\ s # <<>> => Head(s) \in S /\ Tail(s) \in Seq(S)
         /\ \A n \in 0..Len(s) : SubSeq(s, 1, n) \in Seq(S)
<1>1. \A m \in S : Append(s, m) \in Seq(S)
  OBVIOUS
<1>2. s # <<>> => Head(s) \in S /\ Tail(s) \in Seq(S)
  OBVIOUS
<1>3. ASSUME NEW n \in 0..Len(s) PROVE SubSeq(s, 1, n) \in Seq(S)
  BY <1>3, SubSeqProperties
<1> QED BY <1>1, <1>2, <1>3

\* The exceptions are those of Error.
LEMMA Exceptions == \A m : Exception(m) \in Error
BY DEF Exception, Error

LEMMA Bounds ==
  /\ MaxQueue \in Nat /\ MaxExponent \in Nat /\ MaxPushes \in Nat
  /\ 0 \in 0..MaxQueue /\ 0 \in 0..MaxExponent /\ 0 \in 0..MaxPushes
BY BoundsAreNaturals

LEMMA EndTypes ==
  ASSUME TypeOK, CleanupAndDelay
  PROVE  /\ main' \in Await /\ error' \in Error /\ attempts' \in 0..MaxExponent
         /\ transport' \in BOOLEAN /\ queue' \in 0..MaxQueue /\ quiet' \in BOOLEAN
<1>1. transport' \in BOOLEAN /\ queue' \in 0..MaxQueue /\ quiet' \in BOOLEAN
  BY Bounds DEF TypeOK, CleanupAndDelay, Cleanup
<1>2. attempts' \in 0..MaxExponent
  BY Bounds DEF TypeOK, CleanupAndDelay, DelayFits
<1>3. main' \in Await /\ error' \in Error
  BY DEF TypeOK, CleanupAndDelay, Await, Error
<1> QED BY <1>1, <1>2, <1>3

LEMMA ShowTypes ==
  ASSUME TypeOK, NEW s \in Connection, Show(s)
  PROVE  state' \in Connection /\ picture' \in BOOLEAN
BY DEF TypeOK, Show, PictureIn

LEMMA FailTypes ==
  ASSUME TypeOK, NEW e, Fail(e)
  PROVE  /\ main' \in Await /\ error' \in Error /\ attempts' \in 0..MaxExponent
         /\ transport' \in BOOLEAN /\ queue' \in 0..MaxQueue /\ quiet' \in BOOLEAN
         /\ state' \in Connection /\ picture' \in BOOLEAN
<1>1. CASE e \in {"security", "denied"}
  <2>1. Show("BLOCKED") /\ main' \in {"done", "barred"} /\ error' = e
        /\ UNCHANGED <<attempts, stream>>
    BY <1>1 DEF Fail
  <2> QED
    BY <1>1, <2>1, ShowTypes DEF TypeOK, stream, Await, Error, Connection
<1>2. CASE e = "other"
  BY <1>2, EndTypes, ShowTypes DEF Fail, Connection
<1> QED BY <1>1, <1>2 DEF Fail

LEMMA AnswerTypes ==
  ASSUME TypeOK, Answer
  PROVE  main' \in Await /\ error' \in Error /\ toServer' \in Seq(ClientMessage)
<1>1. "CHALLENGE_RESPONSE" \in ClientMessage
  BY DEF ClientMessage
<1> QED BY <1>1, Channels DEF TypeOK, Answer, Raise, Await, Error

LEMMA CancelledTypes ==
  TypeOK => Cancelled \in [Loop -> {"none", "running", "cancelled"}]
BY DEF TypeOK, Cancelled

-----------------------------------------------------------------------------
LEMMA TypeInit == Init => TypeOK
<1> SUFFICES ASSUME Init PROVE TypeOK
  OBVIOUS
<1>1. loops \in [Loop -> {"none", "running", "cancelled"}]
  BY DEF Init
<1>2. toServer \in Seq(ClientMessage) /\ toClient \in Seq(ServerMessage)
  BY DEF Init
<1> QED
  BY <1>1, <1>2, Bounds DEF Init, TypeOK, Await, Error, Connection

\* The client's own steps keep the types.
LEMMA MainTypes == TypeOK /\ Main => TypeOK'
<1> SUFFICES ASSUME TypeOK, Main PROVE TypeOK'
  OBVIOUS
<1>0. /\ "connect" \in Await /\ "hello" \in Await /\ "waiting" \in Await /\ "ping" \in Await
      /\ "answered" \in Await /\ "closing" \in Await /\ "bind" \in Await
      /\ "stream" \in Await /\ "done" \in Await
      /\ "none" \in Error /\ "denied" \in Error /\ "other" \in Error
      /\ "AUTHENTICATING" \in Connection /\ "PENDING_APPROVAL" \in Connection
      /\ "CONNECTED" \in Connection /\ "BLOCKED" \in Connection /\ "ERROR" \in Connection
  BY DEF Await, Error, Connection
<1>1. CASE Start \/ Retry
  <2>1. BeginAttempt
    BY <1>1 DEF Start, Retry
  <2>2. state' \in Connection /\ picture' \in BOOLEAN
    BY <1>0, <2>1, ShowTypes DEF BeginAttempt
  <2> QED
    BY <1>0, <2>1, <2>2 DEF BeginAttempt, TypeOK, ending, stream, wire, server
<1>2. CASE ConnectFails
  BY <1>2, FailTypes DEF ConnectFails, TypeOK, ending, wire, server
<1>3. CASE Connect
  <2>1. "HELLO" \in ClientMessage
    BY DEF ClientMessage
  <2> QED
    BY <1>0, <1>3, <2>1, Bounds DEF Connect, TypeOK, ending, stream, screen
<1>4. ASSUME NEW m \in ServerMessage, ReadHelloReply(m) PROVE TypeOK'
  <2>1. toClient' \in Seq(ServerMessage)
    BY <1>4, Channels DEF ReadHelloReply, Receive, TypeOK
  <2>2. CASE m = "challenge"
    BY <1>4, <2>1, <2>2, AnswerTypes DEF ReadHelloReply, TypeOK, ending, stream, screen, server
  <2>3. CASE m = "pending"
    BY <1>0, <1>4, <2>1, <2>3, ShowTypes DEF ReadHelloReply, TypeOK, ending, stream, server
  <2>4. CASE m \notin {"challenge", "pending"}
    <3>1. state' \in Connection /\ picture' \in BOOLEAN
      BY <1>0, <1>4, <2>4, ShowTypes DEF ReadHelloReply, Warned, screen, TypeOK
    <3> QED
      BY <1>0, <1>4, <2>1, <2>4, <3>1, Exceptions
      DEF ReadHelloReply, Raise, TypeOK, ending, stream, server
  <2> QED BY <2>2, <2>3, <2>4
<1>5. ASSUME NEW m \in ServerMessage, ReadWhileWaiting(m) PROVE TypeOK'
  <2>1. toClient' \in Seq(ServerMessage)
    BY <1>5, Channels DEF ReadWhileWaiting, Receive, TypeOK
  <2>2. state' \in Connection /\ picture' \in BOOLEAN
    BY <1>0, <1>5, ShowTypes DEF ReadWhileWaiting, screen, TypeOK
  <2>3. main' \in Await /\ error' \in Error
    BY <1>0, <1>5, Exceptions DEF ReadWhileWaiting, TypeOK
  <2> QED
    BY <1>5, <2>1, <2>2, <2>3 DEF ReadWhileWaiting, TypeOK, ending, stream, server
<1>6. ASSUME NEW m \in ServerMessage, ReadAuthReply(m) PROVE TypeOK'
  <2>1. toClient' \in Seq(ServerMessage)
    BY <1>6, Channels DEF ReadAuthReply, Receive, TypeOK
  <2>2. state' \in Connection /\ picture' \in BOOLEAN
    BY <1>0, <1>6, ShowTypes DEF ReadAuthReply, screen, TypeOK
  <2>3. main' \in Await /\ error' \in Error
    BY <1>0, <1>6 DEF ReadAuthReply, Raise, TypeOK
  <2> QED
    BY <1>6, <2>1, <2>2, <2>3 DEF ReadAuthReply, TypeOK, ending, stream, server
<1>7. CASE PingTaskEnded
  <2>1. main' \in Await /\ error' \in Error /\ toServer' \in Seq(ClientMessage)
    BY <1>0, <1>7, AnswerTypes DEF PingTaskEnded, Raise, TypeOK
  <2>2. state' \in Connection /\ picture' \in BOOLEAN
    BY <1>0, <1>7, ShowTypes DEF PingTaskEnded, Warned, screen, TypeOK
  <2> QED
    BY <1>7, <2>1, <2>2 DEF PingTaskEnded, TypeOK, ending, stream, server
<1>8. CASE ReadClosed
  BY <1>0, <1>8 DEF ReadClosed, TypeOK, ending, stream, screen, wire, server
<1>9. CASE Disconnected
  <2>1. <<>> \in Seq(ClientMessage) /\ <<>> \in Seq(ServerMessage)
    OBVIOUS
  <2> QED
    BY <1>9, <2>1, FailTypes DEF Disconnected, TypeOK, ending, server
<1>10. CASE Bound
  <2>1. state' \in Connection /\ picture' \in BOOLEAN
    BY <1>0, <1>10, ShowTypes DEF Bound
  <2>2. loops' \in [Loop -> {"none", "running", "cancelled"}]
    BY <1>10 DEF Bound
  <2> QED
    BY <1>0, <1>10, <2>1, <2>2, Bounds DEF Bound, TypeOK, ending, wire, server
<1>11. CASE BindFails
  BY <1>11, FailTypes DEF BindFails, TypeOK, ending, wire, server
<1>12. CASE BarredWakes
  BY <1>12, EndTypes DEF BarredWakes, TypeOK, ending, screen, wire, server
<1>13. CASE StreamEnds
  BY <1>13, EndTypes, CancelledTypes DEF StreamEnds, TypeOK, ending, screen, wire, server
<1>14. CASE TakeCancel
  BY <1>0, <1>14 DEF TakeCancel, TypeOK, ending, stream, screen, wire, server
<1> QED
  BY <1>1, <1>2, <1>3, <1>4, <1>5, <1>6, <1>7, <1>8, <1>9, <1>10, <1>11, <1>12, <1>13,
     <1>14 DEF Main, Handshake, Streaming

\* The other steps do.
LEMMA TypeStep == TypeOK /\ [Next]_vars => TypeOK'
<1> SUFFICES ASSUME TypeOK, [Next]_vars PROVE TypeOK'
  OBVIOUS
<1>0. /\ \A m \in HelloReply : m \in ServerMessage
      /\ \A m \in Challenges : m \in ServerMessage
      /\ \A m \in {"PONG", "authenticated", "refused", "rejected", "blocked"} : m \in ServerMessage
      /\ "PING" \in ClientMessage
  BY DEF ServerMessage, HelloReply, Challenges, ClientMessage
<1>1. CASE Main
  BY <1>1, MainTypes
<1>2. CASE Ping
  BY <1>0, <1>2 DEF Ping, TypeOK, task, ending, stream, screen, server
<1>3. ASSUME NEW k \in Loop, LoopEnds(k) PROVE TypeOK'
  BY <1>3 DEF LoopEnds, TypeOK, task, ending, stream, screen, wire, server
<1>4. ASSUME NEW frame \in BOOLEAN, TakePacket(frame) PROVE TypeOK'
  <2>1. queue' \in 0..MaxQueue
    BY <1>4, Bounds DEF TakePacket, TypeOK
  <2>2. picture' \in BOOLEAN
    BY <1>4 DEF TakePacket
  <2> QED
    BY <1>4, <2>1, <2>2 DEF TakePacket, TypeOK, task, ending, wire, server
<1>5. CASE TimeoutGuard
  BY <1>5 DEF TimeoutGuard, TypeOK, task, ending, stream, screen, wire, server
<1>6. CASE Datagram
  <2>1. queue' \in 0..MaxQueue
    BY <1>6, Bounds DEF Datagram, TypeOK
  <2> QED
    BY <1>6, <2>1 DEF Datagram, TypeOK, task, ending, screen, wire, server
<1>7. CASE FifteenSecondsPass
  BY <1>7 DEF FifteenSecondsPass, TypeOK, task, ending, screen, wire, server
<1>8. ASSUME NEW m \in ClientMessage, ServerTakes(m) PROVE toServer' \in Seq(ClientMessage)
  BY <1>8, Channels DEF ServerTakes, TypeOK
<1>9. ASSUME NEW m \in ServerMessage, Send(m) PROVE toClient' \in Seq(ServerMessage)
  BY <1>9, Channels DEF Send, TypeOK
<1>10. "HELLO" \in ClientMessage /\ "CHALLENGE_RESPONSE" \in ClientMessage
  BY DEF ClientMessage
<1>11. ASSUME NEW m \in HelloReply, ServerHello(m) PROVE TypeOK'
  BY <1>0, <1>8, <1>9, <1>10, <1>11
  DEF ServerHello, ServerTakes, TypeOK, task, ending, stream, screen
<1>12. CASE ServerPong
  BY <1>0, <1>8, <1>9, <1>12
  DEF ServerPong, ServerTakes, TypeOK, task, ending, stream, screen, server
<1>13. ASSUME NEW m \in {"authenticated", "refused"}, ServerVerify(m) PROVE TypeOK'
  BY <1>0, <1>8, <1>9, <1>10, <1>13
  DEF ServerVerify, ServerTakes, TypeOK, task, ending, stream, screen
<1>14. ASSUME NEW m \in Challenges, Push(m) PROVE TypeOK'
  <2>1. pushes' \in 0..MaxPushes
    BY <1>14, Bounds DEF Push, TypeOK
  <2> QED
    BY <1>0, <1>9, <1>14, <2>1 DEF Push, TypeOK, task, ending, stream, screen
<1>15. ASSUME NEW m \in {"rejected", "blocked"}, Refuse(m) PROVE TypeOK'
  <2>1. <<>> \in Seq(ClientMessage)
    OBVIOUS
  <2> QED
    BY <1>0, <1>9, <1>15, <2>1 DEF Refuse, TypeOK, task, ending, stream, screen
<1>16. CASE RequestVanishes
  BY <1>16 DEF RequestVanishes, TypeOK, task, ending, stream, screen, wire
<1>17. CASE LinkLost
  <2>1. <<>> \in Seq(ClientMessage)
    OBVIOUS
  <2>2. toClient' \in Seq(ServerMessage)
    BY <1>17, Channels DEF LinkLost, TypeOK
  <2> QED
    BY <1>17, <2>1, <2>2 DEF LinkLost, TypeOK, task, ending, stream, screen, server
<1>18. CASE Stop
  <2>1. gathered' \subseteq Loop \cup {"main"}
    BY <1>18 DEF Stop, Tasks
  <2> QED
    BY <1>18, <2>1, CancelledTypes, Bounds DEF Stop, Cleanup, TypeOK, screen, wire, server
<1>19. CASE StopReturns
  BY <1>19 DEF StopReturns, TypeOK, task, stream, screen, wire, server
<1>20. CASE UNCHANGED vars
  BY <1>20 DEF vars, TypeOK, task, ending, stream, screen, wire, server
<1> QED
  BY <1>1, <1>2, <1>3, <1>4, <1>5, <1>6, <1>7, <1>11, <1>12, <1>13, <1>14, <1>15, <1>16,
     <1>17, <1>18, <1>19, <1>20 DEF Next, ServerNext

-----------------------------------------------------------------------------
\* How an iteration ends: without the transport, in a backoff or for good.
LEMMA EndRests ==
  ASSUME CleanupAndDelay
  PROVE  main' \in {"backoff", "done"} /\ ~transport'
BY DEF CleanupAndDelay, Cleanup

LEMMA FailRests ==
  ASSUME NEW e, Fail(e)
  PROVE  main' \in {"backoff", "done", "barred"} /\ (transport' => transport)
BY EndRests DEF Fail, stream

\* The client's own steps but Bound leave the loops cancelled where they leave
\* the stream.
LEMMA RestingStep == TypeOK /\ Resting /\ [Next]_vars => Resting'
<1> SUFFICES ASSUME TypeOK, Resting, [Next]_vars PROVE Resting'
  OBVIOUS
<1> USE DEF Resting
<1>1. CASE Start \/ Retry
  <2>1. main \in {"created", "backoff"} /\ ~cancel /\ main' = "connect"
        /\ UNCHANGED <<cancel, loops, stop, gathered, transport>>
    BY <1>1 DEF Start, Retry, BeginAttempt, At, ending, stream
  <2>2. \A k \in Loop : loops[k] = "none"
    BY <1>1, <2>1 DEF Start, Retry, TypeOK, At
  <2> QED BY <2>1, <2>2
<1>2. CASE ConnectFails \/ Disconnected \/ BindFails \/ BarredWakes
  <2>1. main \in {"connect", "closing", "bind", "barred"}
        /\ UNCHANGED <<cancel, loops, stop, gathered>>
    BY <1>2 DEF ConnectFails, Disconnected, BindFails, BarredWakes, At, ending
  <2>2. main' \in {"backoff", "done", "barred"} /\ ~transport'
    BY <1>2, <2>1, EndRests, FailRests DEF ConnectFails, Disconnected, BindFails, BarredWakes
  <2>3. stop = "no" \/ "main" \in gathered
    BY <2>1
  <2> QED BY <2>1, <2>2, <2>3
<1>3. ASSUME NEW m \in ServerMessage,
             ReadHelloReply(m) \/ ReadWhileWaiting(m) \/ ReadAuthReply(m)
             \/ Connect \/ PingTaskEnded \/ ReadClosed
      PROVE  Resting'
  <2>1. /\ main \in {"connect", "hello", "waiting", "ping", "answered"}
        /\ UNCHANGED <<cancel, loops, ending, transport>>
    BY <1>3 DEF ReadHelloReply, ReadWhileWaiting, ReadAuthReply, Connect, PingTaskEnded,
       ReadClosed, At, stream
  <2>2. main' \in {"hello", "waiting", "ping", "answered", "closing", "bind"}
    BY <1>3 DEF ReadHelloReply, ReadWhileWaiting, ReadAuthReply, Connect, PingTaskEnded,
       ReadClosed, Answer, Raise, At
  <2> QED BY <2>1, <2>2 DEF ending
<1>4. CASE Bound
  BY <1>4 DEF Bound, At, ending
<1>5. CASE StreamEnds
  <2>1. main' \in {"backoff", "done"} /\ ~transport'
    BY <1>5, EndRests DEF StreamEnds
  <2>2. \A k \in Loop : loops'[k] # "running"
    BY <1>5 DEF StreamEnds, Cancelled
  <2>3. main = "stream" /\ UNCHANGED <<cancel, stop, gathered>>
    BY <1>5 DEF StreamEnds, At, ending
  <2> QED BY <2>1, <2>2, <2>3
<1>6. CASE TakeCancel
  BY <1>6 DEF TakeCancel, Swallowing, ending, stream
<1>7. ASSUME NEW k \in Loop, LoopEnds(k) PROVE Resting'
  BY <1>7 DEF LoopEnds, TypeOK, task, ending, stream
<1>8. CASE TimeoutGuard
  BY <1>8 DEF TimeoutGuard, TypeOK, task, ending, stream
<1>9. ASSUME NEW frame \in BOOLEAN, TakePacket(frame) PROVE Resting'
  BY <1>9 DEF TakePacket, task, ending
<1>10. CASE Datagram \/ FifteenSecondsPass
  BY <1>10 DEF Datagram, FifteenSecondsPass, task, ending
<1>11. CASE Stop
  <2>1. \A k \in Loop : loops'[k] # "running" /\ (loops[k] = "none" => loops'[k] = "none")
    BY <1>11 DEF Stop, Cancelled
  <2>2. ~transport' /\ main' = main /\ stop' = "gathering"
    BY <1>11 DEF Stop, Cleanup
  <2>3. main # "done" => "main" \in gathered'
    BY <1>11 DEF Stop, Tasks
  <2> QED BY <2>1, <2>2, <2>3
<1>12. CASE StopReturns
  BY <1>12 DEF StopReturns, Tasks, task, stream
<1>13. CASE UNCHANGED <<task, loops, ending, stream>>
  BY <1>13 DEF task, ending, stream
<1>14. CASE Ping \/ RequestVanishes \/ LinkLost \/ UNCHANGED vars
  BY <1>13, <1>14 DEF Ping, RequestVanishes, LinkLost, vars
<1>15. CASE ServerNext
  <2>1. \E m \in ClientMessage : ServerTakes(m)
    BY <1>15, Zenon DEF ServerNext, ServerHello, ServerPong, ServerVerify, ClientMessage
  <2> QED BY <1>13, <2>1 DEF ServerTakes
<1>16. ASSUME NEW m \in ServerMessage, Push(m) \/ Refuse(m)
       PROVE  Resting'
  BY <1>13, <1>16 DEF Push, Refuse
<1>17. Challenges \subseteq ServerMessage /\ {"rejected", "blocked"} \subseteq ServerMessage
  BY DEF Challenges, ServerMessage, HelloReply
<1> QED
  BY <1>1, <1>2, <1>3, <1>4, <1>5, <1>6, <1>7, <1>8, <1>9, <1>10, <1>11, <1>12, <1>14,
     <1>15, <1>16, <1>17 DEF Next, Main, Handshake, Streaming

\* Between the stream and the next attempt every loop of the old connection
\* ends (_main_loop cancels the others and sleeps).
THEOREM LoopsBelongToOneConnection == Spec => []LoopsOfOneConnection
<1>1. Init => Resting
  BY DEF Init, Resting
<1>2. Resting => LoopsOfOneConnection
  BY DEF Resting, LoopsOfOneConnection
<1> QED BY <1>1, <1>2, TypeInit, TypeStep, RestingStep, PTL DEF Spec

\* When stop has returned nothing of the connection runs on, at whatever await
\* the program was.
THEOREM StoppedClientIsClean == Spec => []StoppedIsClean
<1>1. Init => Resting
  BY DEF Init, Resting
<1>2. Resting => StoppedIsClean
  BY DEF Resting, StoppedIsClean
<1> QED BY <1>1, <1>2, TypeInit, TypeStep, RestingStep, PTL DEF Spec

\* Type correctness of the client and its socket, with the bounds on the packet
\* queue and the attempts.
THEOREM TypeCorrect == Spec => []TypeOK
BY TypeInit, TypeStep, PTL DEF Spec

-----------------------------------------------------------------------------
\* The messages of a channel after one has been sent, taken or lost.
LEMMA ChannelItems ==
  ASSUME NEW S, NEW s \in Seq(S), NEW m
  PROVE  /\ \A i \in DOMAIN Append(s, m) :
              \/ i \in DOMAIN s /\ Append(s, m)[i] = s[i]
              \/ i = Len(s) + 1 /\ Append(s, m)[i] = m
         /\ Len(Append(s, m)) = Len(s) + 1
         /\ s # <<>> =>
              /\ Len(Tail(s)) = Len(s) - 1
              /\ 1 \in DOMAIN s /\ Head(s) = s[1]
              /\ \A i \in DOMAIN Tail(s) :
                   i \in Nat \ {0} /\ i + 1 \in DOMAIN s /\ Tail(s)[i] = s[i + 1]
         /\ \A n \in 0..Len(s) : \A i \in DOMAIN SubSeq(s, 1, n) :
              i \in DOMAIN s /\ SubSeq(s, 1, n)[i] = s[i]
<1>1. \A i \in DOMAIN Append(s, m) :
        \/ i \in DOMAIN s /\ Append(s, m)[i] = s[i]
        \/ i = Len(s) + 1 /\ Append(s, m)[i] = m
  OBVIOUS
<1>2. Len(Append(s, m)) = Len(s) + 1
  OBVIOUS
<1>3. s # <<>> =>
        /\ Len(Tail(s)) = Len(s) - 1
        /\ 1 \in DOMAIN s /\ Head(s) = s[1]
        /\ \A i \in DOMAIN Tail(s) :
             i \in Nat \ {0} /\ i + 1 \in DOMAIN s /\ Tail(s)[i] = s[i + 1]
  OBVIOUS
<1>4. ASSUME NEW n \in 0..Len(s), NEW i \in DOMAIN SubSeq(s, 1, n)
      PROVE  i \in DOMAIN s /\ SubSeq(s, 1, n)[i] = s[i]
  BY <1>4, SubSeqProperties
<1> QED BY <1>1, <1>2, <1>3, <1>4

\* Steps without a message say nothing new.
LEMMA SilentTalk ==
  ASSUME Talking, UNCHANGED <<toServer, toClient, verdict>>, request' \in {request, "none"},
         main' \in Unanswered => main \in Unanswered,
         main' \in {"bind", "stream"} => main \in {"bind", "stream"}
  PROVE  Talking'
BY DEF Talking

\* Taking a message from the server says nothing new either, unless the client
\* goes on to stream.
LEMMA ReceiveTalk ==
  ASSUME TypeOK, Talking, NEW m \in ServerMessage, Receive(m),
         UNCHANGED <<toServer, verdict, request>>,
         main' \in Unanswered => main \in Unanswered,
         main' \in {"bind", "stream"} => m = "authenticated"
  PROVE  Talking'
<1>1. /\ \A i \in DOMAIN toClient' : i + 1 \in DOMAIN toClient /\ toClient'[i] = toClient[i + 1]
      /\ 1 \in DOMAIN toClient /\ m = toClient[1]
  BY ChannelItems DEF Receive, TypeOK
<1>2. \A i \in DOMAIN toClient' : toClient'[i] = "authenticated" => verdict = "accepted"
  BY <1>1 DEF Talking
<1>3. m = "authenticated" => verdict = "accepted"
  BY <1>1 DEF Talking
<1> QED BY <1>2, <1>3 DEF Talking

\* Before the client has answered, no acceptance is on its way.
LEMMA NothingAccepted ==
  ASSUME TypeOK, Talking, NEW m \in ServerMessage, Receive(m), main \in Unanswered
  PROVE  \A i \in DOMAIN toClient' : toClient'[i] # "authenticated"
<1>1. \A i \in DOMAIN toClient' : i + 1 \in DOMAIN toClient /\ toClient'[i] = toClient[i + 1]
  BY ChannelItems DEF Receive, TypeOK
<1> QED BY <1>1 DEF Talking

\* The answer is the client's last word on the socket.
LEMMA AnswerTalk ==
  ASSUME TypeOK, Talking, main \in Unanswered, Answer \/ (Raise(error) /\ UNCHANGED toServer),
         UNCHANGED <<verdict, request>>,
         \A i \in DOMAIN toClient' : toClient'[i] # "authenticated"
  PROVE  Talking'
<1>1. verdict # "accepted"
  BY DEF Talking
<1>2. main' \in {"answered", "closing"}
  BY DEF Answer, Raise
<1>3. CASE UNCHANGED toServer
  BY <1>1, <1>2, <1>3 DEF Talking, Unanswered
<1>4. CASE toServer' = Append(toServer, "CHALLENGE_RESPONSE")
  <2>1. /\ \A i \in DOMAIN toServer' :
             \/ i \in DOMAIN toServer /\ toServer'[i] = toServer[i]
             \/ i = Len(toServer') /\ toServer'[i] = "CHALLENGE_RESPONSE"
    BY <1>4, ChannelItems DEF TypeOK
  <2>2. \A i \in DOMAIN toServer : toServer[i] # "CHALLENGE_RESPONSE"
    BY DEF Talking
  <2> QED BY <1>1, <1>2, <2>1, <2>2 DEF Talking, Unanswered
<1> QED BY <1>3, <1>4 DEF Answer

\* What the server reads, it reads once.
LEMMA TakenItems ==
  ASSUME TypeOK, Talking, NEW m, ServerTakes(m)
  PROVE  /\ m = "CHALLENGE_RESPONSE" => toServer' = <<>> /\ main \notin Unanswered
         /\ m # "PING" => verdict # "accepted"
         /\ \A i \in DOMAIN toServer' : toServer'[i] # "HELLO"
         /\ \A i \in DOMAIN toServer' :
              toServer'[i] = "CHALLENGE_RESPONSE" => i = Len(toServer') /\ main \notin Unanswered
         /\ verdict = "accepted" => \A i \in DOMAIN toServer' : toServer'[i] = "PING"
<1>1. toServer # <<>> /\ m = Head(toServer) /\ toServer' = Tail(toServer)
  BY DEF ServerTakes
<1>2. /\ Len(toServer') = Len(toServer) - 1
      /\ 1 \in DOMAIN toServer /\ m = toServer[1]
      /\ \A i \in DOMAIN toServer' :
           i \in Nat \ {0} /\ i + 1 \in DOMAIN toServer /\ toServer'[i] = toServer[i + 1]
  BY <1>1, ChannelItems DEF TypeOK
<1>3. \A i \in DOMAIN toServer' : toServer'[i] # "HELLO"
  BY <1>2 DEF Talking
<1>4. m = "CHALLENGE_RESPONSE" => toServer' = <<>> /\ main \notin Unanswered
  <2>1. m = "CHALLENGE_RESPONSE" => Len(toServer) = 1 /\ main \notin Unanswered
    BY <1>2 DEF Talking
  <2> QED BY <1>1, <2>1 DEF TypeOK
<1>5. m # "PING" => verdict # "accepted"
  BY <1>2 DEF Talking
<1>6. \A i \in DOMAIN toServer' :
        toServer'[i] = "CHALLENGE_RESPONSE" => i = Len(toServer') /\ main \notin Unanswered
  BY <1>2 DEF Talking, TypeOK
<1>7. verdict = "accepted" => \A i \in DOMAIN toServer' : toServer'[i] = "PING"
  BY <1>2 DEF Talking
<1> QED BY <1>3, <1>4, <1>5, <1>6, <1>7

\* Sending a message that is no acceptance puts none in flight.
LEMMA SendTalk ==
  ASSUME TypeOK, Talking, NEW m, m # "authenticated", Send(m)
  PROVE  \A i \in DOMAIN toClient' : toClient'[i] = "authenticated" => verdict = "accepted"
<1>1. \A i \in DOMAIN toClient' :
        \/ i \in DOMAIN toClient /\ toClient'[i] = toClient[i]
        \/ toClient'[i] = m
  BY ChannelItems DEF Send, TypeOK
<1> QED BY <1>1 DEF Talking

\* Each step of the client.
LEMMA MainTalks == TypeOK /\ Talking /\ Main => Talking'
<1> SUFFICES ASSUME TypeOK, Talking, Main PROVE Talking'
  OBVIOUS
<1>1. CASE Start \/ Retry \/ ConnectFails \/ ReadClosed \/ Streaming \/ TakeCancel
  <2>1. UNCHANGED <<toServer, toClient, verdict, request>>
    BY <1>1 DEF Start, Retry, BeginAttempt, ConnectFails, ReadClosed, Streaming, Bound,
       BindFails, BarredWakes, StreamEnds, TakeCancel, wire, server
  <2>2. CASE Start \/ Retry
    BY <2>1, <2>2, SilentTalk DEF Start, Retry, BeginAttempt, Unanswered
  <2>3. CASE ConnectFails \/ BindFails \/ BarredWakes \/ StreamEnds
    <3>1. main' \in {"backoff", "done", "barred"}
      BY <2>3, EndRests, FailRests DEF ConnectFails, BindFails, BarredWakes, StreamEnds
    <3> QED BY <2>1, <3>1, SilentTalk DEF Unanswered
  <2>4. CASE ReadClosed
    BY <2>1, <2>4, SilentTalk DEF ReadClosed, Unanswered
  <2>5. CASE Bound
    BY <2>1, <2>5, SilentTalk DEF Bound, At, Unanswered
  <2>6. CASE TakeCancel
    BY <2>1, <2>6, SilentTalk DEF TakeCancel, Unanswered
  <2> QED BY <1>1, <2>2, <2>3, <2>4, <2>5, <2>6 DEF Streaming
<1>2. CASE Connect
  <2>1. /\ main' = "hello" /\ verdict' = "none"
        /\ toServer' = <<"HELLO">> /\ toClient' = <<>>
    BY <1>2 DEF Connect
  <2>2. \A i \in DOMAIN toServer' : i = 1 /\ toServer'[i] = "HELLO"
    BY <2>1
  <2>3. DOMAIN toClient' = {}
    BY <2>1
  <2> QED BY <2>1, <2>2, <2>3 DEF Talking
<1>3. ASSUME NEW m \in ServerMessage, ReadHelloReply(m) PROVE Talking'
  <2>1. main = "hello" /\ Receive(m) /\ UNCHANGED <<verdict, request>>
    BY <1>3 DEF ReadHelloReply, At, server
  <2>2. CASE m = "challenge"
    <3>1. Answer
      BY <1>3, <2>2 DEF ReadHelloReply
    <3>2. \A i \in DOMAIN toClient' : toClient'[i] # "authenticated"
      BY <2>1, NothingAccepted DEF Unanswered
    <3> QED BY <2>1, <3>1, <3>2, AnswerTalk DEF Unanswered
  <2>3. CASE m # "challenge"
    BY <1>3, <2>1, <2>3, ReceiveTalk DEF ReadHelloReply, Raise, Unanswered
  <2> QED BY <2>2, <2>3
<1>4. ASSUME NEW m \in ServerMessage, ReadWhileWaiting(m) PROVE Talking'
  <2>1. main = "waiting" /\ Receive(m) /\ UNCHANGED <<toServer, verdict, request>>
    BY <1>4 DEF ReadWhileWaiting, At, server
  <2>2. main' \in {"waiting", "ping"}
    BY <1>4, <2>1 DEF ReadWhileWaiting
  <2> QED BY <2>1, <2>2, ReceiveTalk DEF Unanswered
<1>5. ASSUME NEW m \in ServerMessage, ReadAuthReply(m) PROVE Talking'
  <2>1. Receive(m) /\ UNCHANGED <<toServer, verdict, request>>
    BY <1>5 DEF ReadAuthReply, server
  <2>2. main' \in {"closing", "bind"} /\ (main' = "bind" => m = "authenticated")
    BY <1>5 DEF ReadAuthReply, Raise, IsNoSuccess
  <2> QED BY <2>1, <2>2, ReceiveTalk DEF Unanswered
<1>6. CASE PingTaskEnded
  <2>1. main = "ping" /\ UNCHANGED <<toClient, verdict, request>>
    BY <1>6 DEF PingTaskEnded, At, server
  <2>2. Answer \/ (Raise(error) /\ UNCHANGED toServer)
    BY <1>6 DEF PingTaskEnded
  <2>3. \A i \in DOMAIN toClient' : toClient'[i] # "authenticated"
    BY <2>1 DEF Talking, Unanswered
  <2> QED BY <2>1, <2>2, <2>3, AnswerTalk DEF Unanswered
<1>7. CASE Disconnected
  <2>1. main' \in {"backoff", "done", "barred"}
    BY <1>7, FailRests DEF Disconnected
  <2>2. toServer' = <<>> /\ toClient' = <<>> /\ UNCHANGED <<verdict, request>>
    BY <1>7 DEF Disconnected, server
  <2>3. DOMAIN toServer' = {} /\ DOMAIN toClient' = {}
    BY <2>2
  <2> QED BY <2>1, <2>2, <2>3 DEF Talking, Unanswered
<1> QED
  BY <1>1, <1>2, <1>3, <1>4, <1>5, <1>6, <1>7 DEF Main, Handshake

\* A server that has something to read on the socket has accepted nothing on
\* it but by the answer it reads.
LEMMA ServerTalks == TypeOK /\ Talking /\ ServerNext => Talking'
<1> SUFFICES ASSUME TypeOK, Talking, ServerNext PROVE Talking'
  OBVIOUS
<1>1. ASSUME NEW m \in HelloReply, ServerHello(m) PROVE Talking'
  <2>1. ServerTakes("HELLO") /\ Send(m) /\ m # "authenticated" /\ verdict' # "accepted"
    BY <1>1 DEF ServerHello, HelloReply, Challenges
  <2>2. main' = main
    BY <2>1 DEF ServerTakes, task
  <2>3. verdict # "accepted"
    BY <2>1, TakenItems
  <2>4. \A i \in DOMAIN toClient' : toClient'[i] # "authenticated"
    BY <2>1, <2>3, SendTalk
  <2>5. main \notin {"bind", "stream"}
    BY <2>3 DEF Talking
  <2>6. /\ \A i \in DOMAIN toServer' : toServer'[i] # "HELLO"
        /\ \A i \in DOMAIN toServer' :
             toServer'[i] = "CHALLENGE_RESPONSE" => i = Len(toServer') /\ main \notin Unanswered
    BY <2>1, TakenItems
  <2> QED BY <2>1, <2>2, <2>4, <2>5, <2>6 DEF Talking
<1>2. CASE ServerPong
  <2>1. ServerTakes("PING") /\ Send("PONG") /\ UNCHANGED <<verdict, request>>
    BY <1>2 DEF ServerPong, server
  <2>2. main' = main
    BY <2>1 DEF ServerTakes, task
  <2>3. \A i \in DOMAIN toClient' : toClient'[i] = "authenticated" => verdict = "accepted"
    BY <2>1, SendTalk
  <2>4. /\ \A i \in DOMAIN toServer' : toServer'[i] # "HELLO"
        /\ \A i \in DOMAIN toServer' :
             toServer'[i] = "CHALLENGE_RESPONSE" => i = Len(toServer') /\ main \notin Unanswered
        /\ verdict = "accepted" => \A i \in DOMAIN toServer' : toServer'[i] = "PING"
    BY <2>1, TakenItems
  <2> QED BY <2>1, <2>2, <2>3, <2>4 DEF Talking
<1>3. ASSUME NEW m \in {"authenticated", "refused"}, ServerVerify(m) PROVE Talking'
  <2>1. ServerTakes("CHALLENGE_RESPONSE") /\ Send(m) /\ request' = "none"
    BY <1>3 DEF ServerVerify
  <2>2. main' = main
    BY <2>1 DEF ServerTakes, task
  <2>3. toServer' = <<>> /\ main \notin Unanswered /\ verdict # "accepted"
    BY <2>1, TakenItems
  <2>4. DOMAIN toServer' = {} /\ main \notin {"bind", "stream"}
    BY <2>3 DEF Talking
  <2>5. \A i \in DOMAIN toClient' : toClient'[i] = "authenticated" => verdict' = "accepted"
    <3>1. CASE m = "authenticated"
      BY <1>3, <3>1 DEF ServerVerify
    <3>2. CASE m # "authenticated"
      BY <2>1, <2>3, <3>2, SendTalk
    <3> QED BY <3>1, <3>2
  <2> QED BY <2>1, <2>2, <2>3, <2>4, <2>5 DEF Talking
<1> QED BY <1>1, <1>2, <1>3 DEF ServerNext

LEMMA TalkingStep == TypeOK /\ Talking /\ [Next]_vars => Talking'
<1> SUFFICES ASSUME TypeOK, Talking, [Next]_vars PROVE Talking'
  OBVIOUS
<1>1. CASE Main
  BY <1>1, MainTalks
<1>2. CASE ServerNext
  BY <1>2, ServerTalks
<1>3. CASE Ping
  <2>1. /\ main = "waiting" /\ toServer' = <<"PING">>
        /\ UNCHANGED <<main, toClient, verdict, request>>
    BY <1>3 DEF Ping, At, task, server
  <2>2. \A i \in DOMAIN toServer' : toServer'[i] = "PING"
    BY <2>1
  <2> QED BY <2>1, <2>2 DEF Talking
<1>4. CASE UNCHANGED <<main, toServer, toClient, verdict>> /\ request' \in {request, "none"}
  BY <1>4, SilentTalk
<1>5. ASSUME NEW k \in Loop, LoopEnds(k) PROVE Talking'
  BY <1>4, <1>5 DEF LoopEnds, task, wire, server
<1>6. ASSUME NEW frame \in BOOLEAN, TakePacket(frame) PROVE Talking'
  BY <1>4, <1>6 DEF TakePacket, task, wire, server
<1>7. CASE TimeoutGuard \/ Datagram \/ FifteenSecondsPass
  BY <1>4, <1>7 DEF TimeoutGuard, Datagram, FifteenSecondsPass, task, wire, server
<1>8. CASE RequestVanishes \/ Stop \/ StopReturns \/ UNCHANGED vars
  BY <1>4, <1>8 DEF RequestVanishes, Stop, StopReturns, vars, task, wire, server
<1>9. ASSUME NEW m \in Challenges, Push(m) PROVE Talking'
  <2>1. Send(m) /\ m # "authenticated" /\ UNCHANGED <<main, toServer, verdict, request>>
    BY <1>9 DEF Push, Challenges, task
  <2>2. \A i \in DOMAIN toClient' : toClient'[i] = "authenticated" => verdict = "accepted"
    BY <2>1, SendTalk
  <2> QED BY <2>1, <2>2 DEF Talking
<1>10. ASSUME NEW m \in {"rejected", "blocked"}, Refuse(m) PROVE Talking'
  <2>1. /\ Send(m) /\ m # "authenticated" /\ request # "none" /\ toServer' = <<>>
        /\ verdict' = "refused" /\ main' = main
    BY <1>10 DEF Refuse, task
  <2>2. verdict # "accepted"
    BY <2>1 DEF Talking
  <2>3. \A i \in DOMAIN toClient' : toClient'[i] # "authenticated"
    BY <2>1, <2>2, SendTalk
  <2>4. DOMAIN toServer' = {} /\ main \notin {"bind", "stream"}
    BY <2>1, <2>2 DEF Talking
  <2> QED BY <2>1, <2>3, <2>4 DEF Talking
<1>11. CASE LinkLost
  <2>1. toServer' = <<>> /\ UNCHANGED <<main, verdict, request>>
    BY <1>11 DEF LinkLost, task, server
  <2>2. \A i \in DOMAIN toClient' : i \in DOMAIN toClient /\ toClient'[i] = toClient[i]
    BY <1>11, ChannelItems DEF LinkLost, TypeOK
  <2>3. DOMAIN toServer' = {}
    BY <2>1
  <2> QED BY <2>1, <2>2, <2>3 DEF Talking
<1> QED
  BY <1>1, <1>2, <1>3, <1>5, <1>6, <1>7, <1>8, <1>9, <1>10, <1>11 DEF Next

\* The client streams only on a socket on which the server accepted its
\* answer, however many challenges, PONGs and refusals crossed it.
THEOREM StreamsAreAccepted == Spec => []ConnectedWasAccepted
<1>1. Init => Talking
  BY DEF Init, Talking
<1>2. Talking => ConnectedWasAccepted
  BY DEF Talking, ConnectedWasAccepted
<1> QED BY <1>1, <1>2, TypeInit, TypeStep, TalkingStep, PTL DEF Spec

=============================================================================
