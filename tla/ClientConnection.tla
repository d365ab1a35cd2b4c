--------------------------- MODULE ClientConnection ---------------------------
(***************************************************************************)
(* The Windows client's connection: one attempt after another, each a      *)
(* handshake on a /ws/auth socket with the messages in flight, a stream    *)
(* until it falls silent, a backoff; and the shutdown that may come at any *)
(* await.                                                                  *)
(*                                                                         *)
(*   WindowsClient/core/connection_manager.py   ConnectionManager          *)
(*   WindowsClient/core/lifecycle.py, state_machine.py, retry_policy.py    *)
(*   WindowsClient/services/auth_service.py     authenticate, disconnect   *)
(*   WindowsClient/ui/video_window.py           VideoWindow                *)
(*   server/backend/main.py, services/auth_service.py   the other end      *)
(*                                                                         *)
(* The client is one asyncio loop.  main is the await at which the task of *)
(* _main_loop is suspended; what the task does between two awaits is one   *)
(* action.  A cancelled task gets its CancelledError at that await.        *)
(***************************************************************************)
EXTENDS Naturals, Sequences

CONSTANTS
  MaxQueue,     \* maxsize of packet_queue
  MaxExponent,  \* the attempts for which backoff_factor ** attempts overflows
  MaxPushes     \* bound on the challenges pushed for one request, for TLC

ASSUME BoundsAreNaturals ==
  /\ {MaxQueue, MaxExponent} \subseteq Nat \ {0}
  /\ MaxPushes \in Nat

VARIABLES
  main,      \* where _main_loop is suspended
  error,     \* the exception that ends the attempt, or the loop
  cancel,    \* a CancelledError is due at that await
  attempts,  \* RetryPolicy.attempts
  loops,     \* the heartbeat, packet and timeout tasks
  stop,      \* ConnectionManager.stop: not called, awaiting its tasks, returned
  gathered,  \* the tasks Lifecycle.shutdown awaits
  state,     \* StateMachine.state
  transport, \* whether udp_transport is open (and session_key set)
  queue,     \* the number of packets in packet_queue
  quiet,     \* last_frame_time is more than 15 seconds ago
  picture,   \* VideoWindow has a _latest_frame
  link,      \* the client's /ws/auth socket
  toServer, toClient,   \* messages in flight on it, in order
  request,   \* the server's pending request of this socket
  pushes,    \* challenges pushed for it
  verdict    \* what the server has decided on this socket (history)

task    == <<main, error, cancel, attempts>>
ending  == <<stop, gathered>>
stream  == <<transport, queue, quiet>>
screen  == <<state, picture>>
wire    == <<link, toServer, toClient>>
server  == <<request, pushes, verdict>>
vars    == <<task, loops, ending, stream, screen, wire, server>>

-----------------------------------------------------------------------------
Loop == {"heartbeat", "packets", "timeout"}

\* "ping" is the await of the cancelled ping_task, "closing" that of
\* disconnect, "barred" the sleep after a PermissionError.
Await == {"created", "connect", "hello", "waiting", "ping", "answered",
          "closing", "bind", "stream", "barred", "backoff", "done"}

\* "overflow" is the OverflowError of get_delay.
Error == {"none", "security", "denied", "other", "overflow"}

Connection == {"AUTHENTICATING", "PENDING_APPROVAL", "CONNECTED",
               "BLOCKED", "ERROR", "DISCONNECTED"}

\* A foreign challenge is one whose fingerprint or signature is not that of
\* the server the client trusts.
Challenges   == {"challenge", "foreign"}
HelloReply   == Challenges \cup {"pending", "blocked", "rate_limited", "error"}
ServerMessage == HelloReply \cup {"rejected", "PONG", "authenticated", "refused"}
ClientMessage == {"HELLO", "PING", "CHALLENGE_RESPONSE"}

(***************************************************************************)
(* Types, and the bound of the packet queue.                               *)
(***************************************************************************)
TypeOK ==
  /\ main \in Await
  /\ error \in Error
  /\ cancel \in BOOLEAN
  /\ attempts \in 0..MaxExponent
  /\ loops \in [Loop -> {"none", "running", "cancelled"}]
  /\ stop \in {"no", "gathering", "returned"}
  /\ gathered \subseteq Loop \cup {"main"}
  /\ state \in Connection
  /\ transport \in BOOLEAN /\ quiet \in BOOLEAN /\ picture \in BOOLEAN
  /\ queue \in 0..MaxQueue
  /\ link \in {"none", "up", "lost"}
  /\ toServer \in Seq(ClientMessage)
  /\ toClient \in Seq(ServerMessage)
  /\ request \in {"none", "pending", "challenged"}
  /\ pushes \in 0..MaxPushes
  /\ verdict \in {"none", "refused", "accepted"}

-----------------------------------------------------------------------------
\* Effects shared by the steps of _main_loop.

\* Mutant: the window keeps its frame.
PictureAnyway(s) == picture

\* VideoWindow._on_state_changed drops the frame unless CONNECTED.
PictureIn(s) == picture /\ s = "CONNECTED"

\* transition_to, with its listener.
Show(s) == state' = s /\ picture' = PictureIn(s)

Cancelled == [k \in Loop |-> IF loops[k] = "running" THEN "cancelled" ELSE loops[k]]

\* _cleanup_connection
Cleanup ==
  /\ transport' = FALSE
  /\ queue' = 0
  /\ UNCHANGED quiet

\* get_delay raises once the power is too large for a float.
DelayFits == attempts < MaxExponent

\* The end of an iteration: clean up, then sleep for get_delay, which is
\* called outside the try.
CleanupAndDelay ==
  /\ Cleanup
  /\ \/ /\ stop = "no" /\ DelayFits
        /\ main' = "backoff" /\ attempts' = attempts + 1
        /\ UNCHANGED error
     \/ /\ stop = "no" /\ ~DelayFits
        /\ main' = "done" /\ error' = "overflow"
        /\ UNCHANGED attempts
     \/ /\ stop # "no"
        /\ main' = "done"
        /\ UNCHANGED <<error, attempts>>

\* Mutant: a refusal ends the loop.
FailForGood(e) ==
  IF e \in {"security", "denied"}
  THEN /\ Show("BLOCKED")
       /\ main' = "done"
       /\ error' = e
       /\ UNCHANGED <<attempts, stream>>
  ELSE Show("ERROR") /\ CleanupAndDelay

\* The except clauses of _main_loop.  A SecurityError leaves the loop at once.
Fail(e) ==
  \/ /\ e \in {"security", "denied"}
     /\ Show("BLOCKED")
     /\ main' = IF e = "security" THEN "done" ELSE "barred"
     /\ error' = e
     /\ UNCHANGED <<attempts, stream>>
  \/ /\ e = "other"
     /\ Show("ERROR")
     /\ CleanupAndDelay

\* An exception in authenticate, once connected: disconnect comes first.
Raise(e) == main' = "closing" /\ error' = e

\* The signed challenge goes out, unless the socket is gone.
Answer ==
  IF link = "up"
  THEN /\ main' = "answered"
       /\ toServer' = Append(toServer, "CHALLENGE_RESPONSE")
       /\ UNCHANGED error
  ELSE Raise("other") /\ UNCHANGED toServer

Receive(m) == toClient # <<>> /\ m = Head(toClient) /\ toClient' = Tail(toClient)

\* recv raises when everything sent before the close has been read.
ConnectionClosed == link = "lost" /\ toClient = <<>>

-----------------------------------------------------------------------------
\* The attempt, await by await.

At(a) == main = a /\ ~cancel

\* CONNECTING and AUTHENTICATING follow each other without an await.
BeginAttempt ==
  /\ main' = "connect"
  /\ error' = "none"
  /\ Show("AUTHENTICATING")
  /\ UNCHANGED <<cancel, attempts, loops, ending, stream, wire, server>>

Start == At("created") /\ BeginAttempt

\* A delay is 0.75 seconds at least: tasks cancelled before it have ended.
Retry == At("backoff") /\ (\A k \in Loop : loops[k] # "cancelled") /\ BeginAttempt

ConnectFails ==
  /\ At("connect")
  /\ Fail("other")
  /\ UNCHANGED <<cancel, loops, ending, wire, server>>

Connect ==
  /\ At("connect")
  /\ main' = "hello"
  /\ link' = "up"
  /\ toServer' = <<"HELLO">>
  /\ toClient' = <<>>
  /\ request' = "none" /\ pushes' = 0 /\ verdict' = "none"
  /\ UNCHANGED <<error, cancel, attempts, loops, ending, stream, screen>>

\* The exceptions that messages and the end of the socket raise.
Exception(m) ==
  CASE m \in {"blocked", "rejected"} -> "denied"
    [] m = "foreign"                 -> "security"
    [] OTHER                         -> "other"

\* AUTH_FAILED, for a bad or missing signature, shows ERROR; MITM_WARNING, for
\* a fingerprint that is not the trusted one, shows nothing.
Warned(e) == UNCHANGED screen \/ (e = "security" /\ Show("ERROR"))

ReadHelloReply(m) ==
  /\ At("hello") /\ Receive(m)
  /\ \/ /\ m = "challenge"
        /\ Answer
        /\ UNCHANGED screen
     \/ /\ m = "pending"
        /\ main' = "waiting"
        /\ Show("PENDING_APPROVAL")
        /\ UNCHANGED <<error, toServer>>
     \/ /\ m \notin {"challenge", "pending"}
        /\ Raise(Exception(m))
        /\ IF m = "blocked" THEN Show("BLOCKED") ELSE Warned(Exception(m))
        /\ UNCHANGED toServer
  /\ UNCHANGED <<cancel, attempts, loops, ending, stream, link, server>>

\* ping_loop: a PING every 10 seconds, and never two under way.
Ping ==
  /\ At("waiting") /\ link = "up"
  /\ toServer = <<>> /\ "PONG" \notin {toClient[i] : i \in DOMAIN toClient}
  /\ toServer' = <<"PING">>
  /\ UNCHANGED <<task, loops, ending, stream, screen, link, toClient, server>>

\* PONG is skipped; everything else ends the wait, through a finally block
\* that cancels the ping task and awaits it.
ReadWhileWaiting(m) ==
  /\ At("waiting") /\ Receive(m)
  /\ IF m = "PONG" THEN UNCHANGED <<main, error>>
     ELSE main' = "ping" /\ error' = IF m = "challenge" THEN "none" ELSE Exception(m)
  /\ IF m = "blocked" THEN Show("BLOCKED") ELSE UNCHANGED screen
  /\ UNCHANGED <<cancel, attempts, loops, ending, stream, link, toServer, server>>

PingTaskEnded ==
  /\ At("ping")
  /\ IF error = "none" THEN Answer /\ UNCHANGED screen
     ELSE Raise(error) /\ Warned(error) /\ UNCHANGED toServer
  /\ UNCHANGED <<cancel, attempts, loops, ending, stream, link, toClient, server>>

\* Mutant: only the status "refused" is a refusal.
IsRefusal(m) == m = "refused"

IsNoSuccess(m) == m # "authenticated"

ReadAuthReply(m) ==
  /\ At("answered") /\ Receive(m)
  /\ IF IsNoSuccess(m) THEN Show("ERROR") /\ Raise("denied")
     ELSE main' = "bind" /\ UNCHANGED <<error, screen>>
  /\ UNCHANGED <<cancel, attempts, loops, ending, stream, link, toServer, server>>

ReadClosed ==
  /\ At("hello") \/ At("waiting") \/ At("answered")
  /\ ConnectionClosed
  /\ main' = IF main = "waiting" THEN "ping" ELSE "closing"
  /\ error' = "other"
  /\ UNCHANGED <<cancel, attempts, loops, ending, stream, screen, wire, server>>

Disconnected ==
  /\ At("closing")
  /\ Fail(error)
  /\ link' = "none" /\ toServer' = <<>> /\ toClient' = <<>>
  /\ UNCHANGED <<cancel, loops, ending, server>>

BindFails ==
  /\ At("bind")
  /\ Fail("other")
  /\ UNCHANGED <<cancel, loops, ending, wire, server>>

\* The UDP socket is open: the state is CONNECTED, the three loops run.
Bound ==
  /\ At("bind")
  /\ main' = "stream"
  /\ transport' = TRUE /\ quiet' = FALSE
  /\ Show("CONNECTED")
  /\ attempts' = 0
  /\ loops' = [k \in Loop |-> "running"]
  /\ UNCHANGED <<error, cancel, ending, queue, wire, server>>

BarredWakes ==
  /\ At("barred")
  /\ CleanupAndDelay
  /\ UNCHANGED <<cancel, loops, ending, screen, wire, server>>

\* Mutant: the other loops run on.
StreamEndsAlone ==
  /\ At("stream") /\ \E k \in Loop : loops[k] = "none"
  /\ CleanupAndDelay
  /\ UNCHANGED <<loops, cancel, ending, screen, wire, server>>

\* asyncio.wait returns at the first loop that ends; the others are
\* cancelled, not awaited.  The state stays CONNECTED.
StreamEnds ==
  /\ At("stream") /\ \E k \in Loop : loops[k] = "none"
  /\ loops' = Cancelled
  /\ CleanupAndDelay
  /\ UNCHANGED <<cancel, ending, screen, wire, server>>

\* Mutant: the finally block of the wait swallows it too.
SwallowingMore == {"waiting", "ping"}

\* The finally block takes the CancelledError for that of the ping task.
Swallowing == {"ping"}

\* The CancelledError is thrown; no except clause on its way takes it, and
\* the finally block's own await is over at once.
TakeCancel ==
  /\ cancel
  /\ cancel' = FALSE
  /\ main' = IF main \in Swallowing THEN main ELSE "done"
  /\ UNCHANGED <<error, attempts, loops, ending, stream, screen, wire, server>>

-----------------------------------------------------------------------------
\* The three loops and the UDP socket.

LoopEnds(k) ==
  /\ loops[k] = "cancelled"
  /\ loops' = [loops EXCEPT ![k] = "none"]
  /\ UNCHANGED <<task, ending, stream, screen, wire, server>>

\* Mutant: the queue has no limit.
DatagramAlwaysQueued ==
  /\ transport
  /\ queue' = queue + 1
  /\ UNCHANGED <<task, loops, ending, transport, quiet, screen, wire, server>>

\* datagram_received drops the packet when the queue is full.
Datagram ==
  /\ transport
  /\ queue' = IF queue < MaxQueue THEN queue + 1 ELSE queue
  /\ UNCHANGED <<task, loops, ending, transport, quiet, screen, wire, server>>

\* One turn of _packet_process_loop; the packet may complete a frame.
TakePacket(frame) ==
  /\ loops["packets"] = "running" /\ queue > 0
  /\ queue' = queue - 1
  /\ quiet' = FALSE
  /\ picture' = (picture \/ frame)
  /\ UNCHANGED <<task, loops, ending, transport, state, wire, server>>

FifteenSecondsPass ==
  /\ main = "stream" /\ queue = 0 /\ ~quiet
  /\ quiet' = TRUE
  /\ UNCHANGED <<task, loops, ending, transport, queue, screen, wire, server>>

TimeoutGuard ==
  /\ loops["timeout"] = "running" /\ quiet
  /\ loops' = [loops EXCEPT !["timeout"] = "none"]
  /\ UNCHANGED <<task, ending, stream, screen, wire, server>>

-----------------------------------------------------------------------------
\* The server's end of the socket: auth_ws takes one message at a time, the
\* operator's routes send when they like.

Send(m) == toClient' = Append(toClient, m)

ServerTakes(m) ==
  /\ link = "up" /\ toServer # <<>> /\ Head(toServer) = m
  /\ toServer' = Tail(toServer)
  /\ UNCHANGED <<task, loops, ending, stream, screen, link>>

\* Mutant: an exception in handle_hello is only logged.
ServerHelloQuiet(m) ==
  /\ ServerTakes("HELLO")
  /\ IF m = "error" THEN UNCHANGED toClient ELSE Send(m)
  /\ request' = IF m = "pending" THEN "pending"
                ELSE IF m \in Challenges THEN "challenged" ELSE "none"
  /\ verdict' = IF m = "blocked" THEN "refused" ELSE "none"
  /\ UNCHANGED pushes

ServerHello(m) ==
  /\ ServerTakes("HELLO")
  /\ Send(m)
  /\ request' = IF m = "pending" THEN "pending"
                ELSE IF m \in Challenges THEN "challenged" ELSE "none"
  /\ verdict' = IF m = "blocked" THEN "refused" ELSE "none"
  /\ UNCHANGED pushes

ServerPong ==
  /\ ServerTakes("PING")
  /\ Send("PONG")
  /\ UNCHANGED server

\* verify_challenge may also find the request expired or the answer wrong.
ServerVerify(m) ==
  /\ ServerTakes("CHALLENGE_RESPONSE")
  /\ m = "authenticated" => request # "none"
  /\ Send(m)
  /\ verdict' = IF m = "authenticated" THEN "accepted" ELSE "refused"
  /\ request' = "none"
  /\ UNCHANGED pushes

ServerNext ==
  \/ \E m \in HelloReply : ServerHello(m)
  \/ ServerPong
  \/ \E m \in {"authenticated", "refused"} : ServerVerify(m)

\* approve and allow_once both push the challenge of a pending request.
Push(m) ==
  /\ link = "up" /\ request = "pending" /\ pushes < MaxPushes
  /\ Send(m)
  /\ pushes' = pushes + 1
  /\ UNCHANGED <<task, loops, ending, stream, screen, link, toServer, request, verdict>>

\* reject and block_permanently send, then close.
Refuse(m) ==
  /\ link = "up" /\ request # "none"
  /\ Send(m)
  /\ link' = "lost" /\ toServer' = <<>>
  /\ request' = "none" /\ verdict' = "refused"
  /\ UNCHANGED <<task, loops, ending, stream, screen, pushes>>

\* The request expires and is collected, or is evicted.
RequestVanishes ==
  /\ request # "none"
  /\ request' = "none"
  /\ UNCHANGED <<task, loops, ending, stream, screen, wire, pushes, verdict>>

\* The connection breaks; what was on its way is lost.
LinkLost ==
  /\ link = "up"
  /\ link' = "lost" /\ toServer' = <<>>
  /\ \E n \in 0..Len(toClient) : toClient' = SubSeq(toClient, 1, n)
  /\ UNCHANGED <<task, loops, ending, stream, screen, server>>

-----------------------------------------------------------------------------
\* The end of the program: q in the window, its close, or Ctrl+C.

Tasks == {k \in Loop : loops[k] # "none"} \cup IF main = "done" THEN {} ELSE {"main"}

\* Mutant: the transport is left to the tasks.
StopWithoutCleanup ==
  /\ stop = "no"
  /\ stop' = "gathering" /\ gathered' = Tasks
  /\ cancel' = (main # "done")
  /\ loops' = Cancelled
  /\ UNCHANGED <<main, error, attempts, stream, screen, wire, server>>

\* stop cancels the loop's task, cleans up and has Lifecycle.shutdown cancel
\* every tracked task, all without an await, then awaits them.
Stop ==
  /\ stop = "no"
  /\ stop' = "gathering" /\ gathered' = Tasks
  /\ cancel' = (main # "done")
  /\ loops' = Cancelled
  /\ Cleanup
  /\ UNCHANGED <<main, error, attempts, screen, wire, server>>

StopReturns ==
  /\ stop = "gathering" /\ gathered \cap Tasks = {}
  /\ stop' = "returned"
  /\ UNCHANGED <<task, loops, gathered, stream, screen, wire, server>>

-----------------------------------------------------------------------------
Init ==
  /\ main = "created" /\ error = "none" /\ cancel = FALSE /\ attempts = 0
  /\ loops = [k \in Loop |-> "none"]
  /\ stop = "no" /\ gathered = {}
  /\ transport = FALSE /\ queue = 0 /\ quiet = FALSE
  /\ state = "DISCONNECTED" /\ picture = FALSE
  /\ link = "none" /\ toServer = <<>> /\ toClient = <<>>
  /\ request = "none" /\ pushes = 0 /\ verdict = "none"

Handshake ==
  \/ Start \/ Retry
  \/ Connect \/ ConnectFails
  \/ \E m \in ServerMessage : ReadHelloReply(m) \/ ReadWhileWaiting(m) \/ ReadAuthReply(m)
  \/ PingTaskEnded \/ ReadClosed \/ Disconnected

Streaming == Bound \/ BindFails \/ BarredWakes \/ StreamEnds

Main == Handshake \/ Streaming \/ TakeCancel

Next ==
  \/ Main
  \/ Ping
  \/ \E k \in Loop : LoopEnds(k)
  \/ \E frame \in BOOLEAN : TakePacket(frame)
  \/ TimeoutGuard
  \/ Datagram \/ FifteenSecondsPass
  \/ ServerNext
  \/ \E m \in Challenges : Push(m)
  \/ \E m \in {"rejected", "blocked"} : Refuse(m)
  \/ RequestVanishes \/ LinkLost
  \/ Stop \/ StopReturns

Spec == Init /\ [][Next]_vars

\* The event loop resumes every task whose await has ended, sleeps and
\* timeouts of the websockets library end, and auth_ws answers each message.
\* Nothing is assumed of the network, the operator or the user.
FairSpec ==
  /\ Spec
  /\ WF_vars(Main) /\ WF_vars(TimeoutGuard) /\ WF_vars(StopReturns)
  /\ \A k \in Loop : WF_vars(LoopEnds(k))
  /\ WF_vars(ServerNext)

-----------------------------------------------------------------------------
(***************************************************************************)
(* No loop of one connection lives into the next attempt: _main_loop       *)
(* cancels the others without awaiting them, and a packet loop left over   *)
(* would take the new connection's packets and decode them twice.          *)
(***************************************************************************)
LoopsOfOneConnection ==
  main \notin {"stream", "backoff", "done"} =>
    \A k \in Loop : loops[k] = "none"

(***************************************************************************)
(* The client streams, and shows CONNECTED, only on a socket on which the  *)
(* server accepted its answer, whatever else it sent on it (PONGs, second  *)
(* pushes, refusals).                                                      *)
(***************************************************************************)
ConnectedWasAccepted ==
  main \in {"bind", "stream"} => verdict = "accepted"

(***************************************************************************)
(* When stop has returned, nothing is left: the loop's task has ended, the *)
(* UDP socket is closed and no task runs on.  main and the loops start     *)
(* tasks and open the socket at awaits that stop does not see.             *)
(***************************************************************************)
StoppedIsClean ==
  stop = "returned" =>
    /\ main = "done" /\ ~transport
    /\ \A k \in Loop : loops[k] # "running"

(***************************************************************************)
(* A handshake the server has to answer comes to an end, although the      *)
(* client's recv has no timeout: auth_ws answers each message whatever     *)
(* happens, and a broken socket raises.                                    *)
(***************************************************************************)
HandshakeEnds ==
  (main \in {"hello", "answered"}) ~> (main \notin {"hello", "answered"})

(***************************************************************************)
(* "automatic retries" (_main_loop): a failed attempt is followed by       *)
(* another, unless the program ends, the server is not the trusted one, or *)
(* the attempts have reached the exponent that overflows.                  *)
(***************************************************************************)
FailedAttemptsRetried ==
  (main \in {"closing", "barred", "backoff"})
    ~> (main = "connect" \/ stop # "no" \/ error \in {"security", "overflow"})

(***************************************************************************)
(* Graceful shutdown: stop returns, unless its cancellation reached        *)
(* authenticate while it awaited its ping task, where it is lost.          *)
(***************************************************************************)
StopEnds ==
  (stop = "gathering" /\ (main = "done" \/ (cancel /\ main # "ping")))
    ~> (stop = "returned")

(***************************************************************************)
(* A picture of a stream that has ended leaves the window, although the    *)
(* state stays CONNECTED through the cleanup and the backoff.              *)
(***************************************************************************)
StalePictureLeaves ==
  (picture /\ ~transport /\ stop = "no") ~> (~picture \/ stop # "no")

-----------------------------------------------------------------------------
\* What the repository says of itself and the code does not keep.

(***************************************************************************)
(* _main_loop on a PermissionError: "Device is blocked on server -> do not *)
(* retry immediately".  So the client is barred only if the server has     *)
(* refused it.                                                             *)
(***************************************************************************)
BarredWasRefused == main = "barred" => verdict = "refused"

=============================================================================
