# Secure streaming platform: specifications, model checking and proofs

The repository is a screen-streaming system for a local network. A server
(`server/backend`, FastAPI on one asyncio loop) captures its screen and sends
encrypted frames over UDP to Windows clients (`WindowsClient`) that an operator
has approved on a web dashboard (`server/frontend`). These modules model the
parts whose correctness depends on the order in which things happen. TLC checks
them on small instances; TLAPS proves the main theorems for every value of the
constants.

## Inventory

| Component | Source | State | Operations | What is hard | What makes it correct |
|---|---|---|---|---|---|
| Authentication service | `services/auth_service.py` | `_pending`, `_pending_order`, `_sessions` | hello, refresh, verify, approve, allow once, reject, block, collect, revoke | several sockets per device, operator clicks between any two messages, expiry, one `await` in the middle of a block | sessions only by grant; single-use ends with its socket; the queue's two halves agree; a challenge works once |
| Device registry | `services/device_registry.py` | `trusted/`, `blocked/` files, logs `recent/`, `rejected/` | write, delete, list | writes that raise, a crash between a write and a delete | a blocked device is not admitted, also when a crash between the write and the delete has left it trusted and blocked |
| Auth endpoint | `main.py` `auth_ws` | `pending_fingerprint`, `authed_fingerprint`, connection count | accept, HELLO, PING, CHALLENGE_RESPONSE, idle timeout, `finally` | the `finally` block acts on state that others have changed since | revokes what it made; caps hold |
| Device routes | `main.py` | none of their own | the operator's buttons | act on what the dashboard showed some time ago | stale clicks are harmless |
| Stream service | `services/stream_service.py` | `_clients`, nonces, heartbeat windows, sequence numbers | heartbeat, broadcast, stale cleanup, eviction after errors | the broadcast awaits while it iterates a snapshot; three parties remove clients | only clients with a session are sent frames; a revoked client leaves |
| Capture service | `services/capture_service.py` | `_running`, `_task`, `_latest_frame`, `_last_frame_hash`, `_error_count` | start, stop, configure, loop, worker | a real thread that a cancelled task does not stop; two locks | no frame after stop or of an old region; flags agree; requests return |
| Client handshake | `WindowsClient/services/auth_service.py` | the socket, what is in flight on it | HELLO, PING while waiting, one answer | pushes and PONGs arrive between any two messages; waits without a timeout; a swallowed cancellation | streams only when accepted; ends when the server answers |
| Client connection manager | `WindowsClient/core/*` | state machine, retry count, tasks, packet queue | connect, run, back off, shut down | cancellation at any await, tasks cancelled and not awaited, backoff overflow | no loop outlives its connection; attempts go on; stop returns and leaves nothing |
| Frame reassembler, transport | `WindowsClient/services/frame_reassembler.py`, `transport.py` | buffered fragments, last delivered sequence | add a fragment, expire, deliver | loss, duplication, reordering, limits | each frame whole, at most once, in order |
| Key pairs and trust | `crypto_service.py`, `WindowsClient/storage/key_store.py`, `trust_store.py` | passphrase, two key files, trusted server | create, load, migrate, trust at first use, refuse | deaths and failed writes between the files, which are written in place; what a checkout brings is half a pair | pairs match but for one kind of death; an identity, once known, is kept; a refusal has a cause; what can be repaired is |
| Dashboard | `main.py` `dashboard_ws`, `_push_dashboard`, `frontend/src` | socket list; per tab the reducer's list, the popup, the polls | accept, push, remove; poll, show, decide | list changed while iterated across awaits; check before `await`, append after; old answers | places come back; the tab's list comes to be the queue |
| Rate limiters | `auth_service.py`, `stream_service.py` | windows of times | allow, prune | pruning of windows when there are many keys | at most n in any window |
| Logger | `services/logger.py` | queue, writer thread | put, drain, flush | full queue, shutdown | order kept; bounded |
| Configuration, entry, cryptography, decoder, windows, pages | the rest | | | library calls, presentation | |

How they interact: the client's HELLO creates a request; the operator's click
(a REST route) changes the registry and pushes the challenge over the client's
socket; the answer turns the request into a session; each UDP heartbeat asks the
authentication service for that session and creates or refreshes an entry of the
stream service; the broadcast loop takes the capture's latest frame while
`_capture_enabled` is set. The stream service revokes single-use sessions of
clients that fall silent, and the socket's end does so too. The client's connection
manager runs one handshake after another, each followed by a stream until that falls
silent. A new request is pushed to the dashboard's sockets; its tabs also poll for the
queue. Every signature rests on the key pairs the two sides load when they start.

## Modules

| Module | Models | Kind |
|---|---|---|
| `Admission` | what the authentication service promises the operator: an admission uses up a permit worth at least as much | abstract specification |
| `AuthService` | authentication service, registry, `auth_ws`, device routes, the client's handshake | component; implements `Admission` |
| `MCAuthService` | instances for TLC, symmetry | model checking |
| `AuthServiceProofs` | theorems about `AuthService`, with and without disk faults | proofs |
| `AuthSessionProofs` | theorems about what becomes of a granted request; the refinement of `Admission` | proofs |
| `CaptureService` | capture service, its worker thread, the stream routes, the broadcast flag | component |
| `MCCaptureService` | instances for TLC | model checking |
| `CaptureServiceProofs` | theorems about `CaptureService` | proofs |
| `StreamService` | heartbeats, client table, broadcast loop, cleanup, over sessions that come and go | component |
| `MCStreamService` | instances for TLC, symmetry | model checking |
| `StreamServiceProofs` | theorems about `StreamService` and `StreamPath` | proofs |
| `StreamPath` | `StreamService` with its clients: the key each holds, the last frame each has decoded | composition |
| `MCStreamPath` | instances for TLC | model checking |
| `FrameChannel` | what a client's viewer is promised: whole frames, each at most once, of one stream in order | abstract specification |
| `FrameReassembler` | one client's frames from the broadcast loop through lost, repeated and reordered fragments to the viewer | component; implements `FrameChannel` |
| `MCFrameReassembler` | instance for TLC | model checking |
| `FrameReassemblerProofs` | theorems about `FrameReassembler` | proofs |
| `ClientConnection` | the client's attempts: handshake with the messages in flight, stream, backoff, shutdown; the server's end of the socket | component, composed with what it talks to |
| `MCClientConnection` | instance for TLC | model checking |
| `ClientConnectionProofs` | theorems about `ClientConnection` | proofs |
| `Dashboard` | socket list, pushes, `dashboard_ws`; of each tab the socket, polls, list and popup | component, server and frontend composed |
| `MCDashboard` | instance for TLC | model checking |
| `DashboardProofs` | theorems about `Dashboard`, and about lists that are filtered | proofs |
| `Identity` | passphrase, key files and trust of server and client, with deaths and failed writes | component |
| `MCIdentity` | instance for TLC | model checking |
| `IdentityProofs` | theorems about `Identity` | proofs |

### AuthService

The server is one asyncio loop, so what a coroutine does between two awaits that
matter is one action. `pending`, `order`, `sessions` are the service's three
containers; `trusted` and `blocked` the registry's directories; for each socket,
`peer`, `phase` and `held` are the client's side and `pendingFp`, `authedFp` the
two local variables of `auth_ws`. `block_permanently` awaits the client's socket
between taking the request out and writing the block: it is the two actions
`BlockPending` and `BlockResumes`, and `blocking` counts those in between.

A `Challenge` value stands for the random challenge and the ephemeral key made
with it. A signature is the challenge it was made over. Time is abstract: a
deadline passes by an action (`RequestExpires`, `SessionExpires`), a PING or a
HELLO sets it back. A restart forgets everything but the registry. With
`DiskFaults` every registry write and delete may raise, and what the code does
before the exception stays done.

`grant` in requests and sessions is history, not code: what the operator had
decided about that challenge. It is what `SessionsGranted` and the refinement
talk about; no action's guard reads it.

More behaviours than the code's: the limiters refuse at will; a challenge may be
delivered only to a waiting client. Fewer: PING intervals and timeouts have no
length, so nothing says that a waiting client's request does not expire between
two PINGs.

### CaptureService

The worker (a `ThreadPoolExecutor` of one thread) moves between any two steps of
the event loop. `Submit` gives it a job and the task awaits; `Grab`, `Duplicate`,
`Hash`, `Encode` and `Raise` are the steps of `_capture_frame_worker` that read or
write shared fields; `Return` delivers only to a task that still waits. Cancelling
the task (`Stop`) does not stop the worker: the next loop's first job waits behind
the abandoned one (`queued`). `Stop` and `Join` are `stop` before and after its
`await` of the task, under `_lifecycle_lock`, whose waiters are `line`; a
configure request stops, then queues for the lock again and starts.
`enabled` is the stream service's `_capture_enabled`, which the routes set on
different sides of the awaits.

More behaviours than the code's: a request that finds the lock free still takes
a separate step to get it. Fewer: a configure request that waits for
`_reconfigure_lock` has not begun (`ConfigureRoute` needs that lock free), so
`RequestsReturn` is about requests that have; the one that holds the lock returns,
and asyncio then gives it to the next. Pictures stand for their hashes, so two
different pictures never share one. The test pattern drawn without `mss` or `cv2` is left
out, and so are frame rate, quality and the key-frame flag, which is always true.

### StreamService

`table` is `_clients`; `session` is the part of `AuthService._sessions` that the
stream service reads and writes. Sessions start and end at any time here, as the
steps of `AuthService` allow and more; an expired session counts as gone, which
is what `has_session` makes of it. `silent` marks an entry whose `last_hb` is more
than `CLIENT_TIMEOUT` old.

A round (`BeginRound`) takes a snapshot of the table and serves its clients one by
one; the awaits between fragments let everything else happen between `Encrypt` and
`Finish`. The snapshot holds the entries themselves, not copies: an entry that has
left the table during the round is kept in `orphan`, and the loop goes on with that
one even when the client has a new entry by then. `Serve` is what ends the work on
one client; with the last client, and without an await in between, it evicts the
`dead`, by fingerprint. So the old entry's errors evict the new entry: the model has
that, and `SingleUseEndsWithPlace` says what must hold even so.

More behaviours than the code's: a round serves its clients in any order, may begin
while no frame is new, and everything may happen between any two clients, not only
at an await; encrypting and sending may raise whenever `Faults` says so, though the
event loop reports most socket errors elsewhere. Fewer: the nonce window and the
packet limiter are left out (a heartbeat stands for one they let pass; a lost or
refused one is one that does not happen), and so are start, stop and statistics. A
fresh session key is one that nothing in the system holds.

`StreamPath` adds what a client keeps: `mine`, the key of its last authentication,
until it gives up the connection; and `last`, the reassembler's last decoded
sequence number, reset only with a new session. Frames arrive whole and in order or
not at all; `FrameReassembler` has the fragments. `OwnFramesOnly` (no client holds the
key of a frame under way to another) and `FirstStreams` (no step readmits a client under
a session it has had a stream in, which the code does not see to) are there for the
proofs; no run checks them.

### FrameReassembler

`sent` is every frame ever encrypted for the client; its fragments are pairs of a
frame and an index. The network, and the bounded queue in front of the reassembler,
are the choice in `Next` of which fragment arrives next: any of them, any number of
times, at any time or never. One arrival is one call of `process_packet`, which has no
await: it is ignored (`Ignore`), stored (`Store`), completes a frame that decrypts
(`Show`) or one that does not (`Garbled`).

A buffer holds the frame whose nonce its first fragment brought (`of`) and the
fragments since (`have`), which may be of another frame with the same sequence number:
after a failed send (`SendFails`), a readmission, which starts again at 0 (`Readmit`),
or a reconnect. `Decrypts` is what authenticated encryption makes of that: a buffer
decrypts if all of it is one frame, made under the key the client has now. The
server's entry takes a new key with the next heartbeat (`Heartbeat`), so it may still
send under the old one. `Opened` is the cleanup of stale buffers and the eviction of
the lowest before a new one is made; `stale` stands for the second and a half.

Sizes are two for a full chunk and one for the last of a frame, enough for the byte
limit to bind at a different moment than the others. The limits on fragments and bytes
are looked at only when a buffer is opened, so later fragments exceed them; the
docstring's "Absolute limits" holds for the number of frames only.

More behaviours than the code's: a fragment may arrive before the whole frame has been
handed to the socket. Fewer: packets with a malformed header, which leave no trace,
are not sent; sequence numbers do not reach 2^64.

`FrameChannel` is the lossy channel it implements. A readmission during which the
client keeps its reassembler is a stutter there: the frames lost to it
(`stream_path`) are losses the channel allows.

### ClientConnection

The client is one asyncio loop as well. `main` is the await at which the task of
`_main_loop` is suspended, including the awaits inside `authenticate`; what it does
from one to the next is one action. `cancel` is a CancelledError that is due at that
await. The three loops of a connection are `loops`; `StreamEnds` cancels those that
still run, `LoopEnds` is each one's own end, later. `Stop` is the part of `stop` before
its first await that matters, and records in `gathered` the tasks it then waits for.

`toServer` and `toClient` are the messages in flight on the client's current socket,
in order. The server's end is abstract: `request` is what the authentication service
has for this socket, and `ServerNext` is `auth_ws`, one message at a time, with any
answer the service may give. The operator's routes (`Push`, `Refuse`) send when they
like, up to `MaxPushes` challenges for one request: approve and allow-once each push
one. `verdict` is history: what the server has decided on this socket.

The swallowed cancellation is there: `authenticate` awaits its cancelled ping task and
takes any CancelledError at that await for that task's (`Swallowing`). So is the
OverflowError: `backoff_factor ** attempts` with the configured factor of 2 overflows a
float at 1024, and `get_delay` is called outside the `try`; the constant `MaxExponent`
stands for 1024.

More behaviours than the code's: the server may answer HELLO with anything at any
time; the operator may reject a challenged request; silence comes at any time. Fewer: a
PING is sent only when the last one is answered (`ping_loop` sends one every ten
seconds), and an old socket's messages are gone once the next is open, because the
client no longer reads them; what an old socket does to sessions is in `AuthService`.

### Dashboard

`pending` is the queue as `get_pending_list` returns it; `Hello`, `TrustedHello` and
`Leaves` change it at will, as `AuthService` does. A push is the task that
`_on_pending` creates. It walks `_dashboard_sockets` by index, as Python iterates a
list, with an await at every socket; meanwhile handlers append to and remove from the
list, so a removal in front of the index makes it skip a socket. `untried` and `shifts`
are history: the sockets still to be tried of those that were there all along, and the
removals so far. `handler` is where `dashboard_ws` of a socket stands, with the cap
checked before `accept()` and the append after it.

A tab has a socket or none (`conn`), a list with the fingerprints the popup has
dismissed and the button that is loading (`tab`), and polls under way whose answers may
overtake each other (`asked`, `answers`). An action of the tab is one reducer dispatch
with the render that follows it: a popup without a card is unmounted and forgets its
button (`Rendered`).

More behaviours than the code's: a countdown may end at any time, and a handler may end
its lifetime at any ping. Fewer: a device asks again only when the push of its last
request has ended, an event is read by the tab as it is sent, and a tab has at most
`MaxPolls` polls under way. The token check is left out.

### Identity

Server and client have the same procedure, so one set of actions stands for both
(`Owners`): passphrase, then the pair, or half of one, or none. Files are opened for
writing, which empties them, and then written; a death or a failed write in between
leaves an empty file (`Torn`). Keys are numbers in the order in which they are
generated, 0 the key of an earlier installation.

An owner begins with an empty directory, with the plain pair of a version before the
passphrase (`Legacy`), or with what a checkout brings (`Checkout`). The repository holds
`server_public.pem` with a `.key_passphrase`, and `client_public.pem`; their private keys
are not in it (`.gitignore` lists them). It also holds a `trusted_server.json` with the
fingerprint of that `server_public.pem`, so `trust` begins with key 0 or nothing whatever
the server begins with. Two variables are history: `found` says which of the three it was,
`first` is the pair the owner was first known by, the plain pair or else the one it first
came up with.

The client checks a reply in the code's order: a missing signature (`MeetUnsigned`), the
fingerprint against the trusted one (`MeetFirst`, `MeetChanged`), and only then the
signature against the public key in the reply (`MeetUnverified`). At first use it has
saved the fingerprint before it verifies (`SaveTrust`, `VerifyMet`). A file it cannot read
counts as none. After any of the three refusals it stops for good.

A server whose start has raised still answers. `run.py` serves the auth listener beside
the one that drives the start, with `asyncio.gather`; uvicorn's `serve` returns when its
lifespan fails, and the other listener goes on. It has no keys then and sends challenges
without a signature. Its start may raise over the key files (`Raises`) or with these
intact before it comes to them (`StartAborts`): `cfg.initialize` cannot make a directory,
or `startup_validate` meets a file that is not text, whose `UnicodeDecodeError` it lets
through.

Fewer behaviours than the code's: two processes of one owner do not start at once; a
write that fails has written nothing; a file that exists can be opened, so
`FailsOnlyTorn` says nothing of permissions or locks; nobody deletes or edits a file. A
client whose own pair does not match is refused by the server as anyone with a wrong
signature is, which is in `AuthService`.

## Runs

| Run | Bounds | Shows |
|---|---|---|
| `auth_safety` | 2 devices, 2 sockets, 3 challenges, queue of 2, order of 3, 1 block in flight; symmetry | types, queue and order agree, single-use sessions tied to their socket, challenges used once, `Admission` implemented |
| `auth_faults` | 1 device, 2 sockets, queue of 1, order of 2, writes and deletes may raise, no symmetry | sessions are granted and blocks hold even then; single-use sessions end, expired requests leave |
| `capture` | 2 requests in flight, 2 regions, 2 screen contents, error limit 2, faults | types, frames of the configured region only, flags agree, nothing published after stop, requests return |
| `stream` | 2 clients, 3 keys, 2 addresses, 1 place, eviction at the second error, faults, no symmetry | types and cap, address pin, single-use sessions end with their place, clients without a session leave the table |
| `reassembler` | 4 frames of 1 or 2 fragments, 2 incomplete frames, 3 units of bytes, 3 fragments, 1 readmission, 1 reconnect | types and the limit on frames, sound buffers, `FrameChannel` implemented |
| `client` | packet queue of 2, overflow at the third failed attempt, 2 pushes | types, loops of one connection, streams accepted, nothing left after stop; handshakes end, attempts go on, stop returns, stale pictures leave |
| `dashboard` | 1 device, 1 tab, 2 sockets, cap of 1, 2 polls | types, list and handlers agree, pushes miss only on removal; places come back, the tab's list converges |
| `identity` | one server, one client, each of every beginning; 3 deaths or failed writes each, 3 aborted starts | types, which pairs match, identities kept, why a client refuses, starts fail only over torn files; every owner comes up or has lost a file |
| `auth_revocation` | queue of 1 | violated: an old socket's end revokes a new socket's session |
| `stream_path` | 2 clients, frames up to number 1, no faults | violated: a readmitted client discards new frames |
| `capture_frame_comes` | 1 request, 1 screen content, no faults | violated: the abandoned worker's hash hides a still screen |
| `client_reply` | 1 push | violated: an approved client is barred, because it takes a PONG for the verdict |

Why these bounds are enough for what they show.

* Authentication: two sockets are what it takes for one device to reconnect, and for two
  devices to compete; three challenges let one be in a session, one in a request and one
  in a client's hands. A queue of one with two devices evicts; a queue of two lets a
  device stand twice in the order.
* Capture: two requests are a configure and a stop or start racing it (each may come
  again without end), and two regions tell an old frame from a new one; an error limit of
  two has one error that the loop survives.
* Stream: two clients compete for one place while a round serves one of them and its old
  entry may be an orphan; three keys leave a fresh one when place and session in flight
  each have their own; a second error evicts, a first does not. `MaxSeq` in `Encrypt`
  bounds sequence numbers; 1 still tells a restarted entry from an old one.
* Reassembler (`MaxSent`, `MaxLives`, `MaxKeys` bound `Send`, `Readmit`, `Reconnect`): four
  frames are two that share a number and one on either side of them; the frame and byte
  limits both evict, while the fragment limit never binds before them, as in the code:
  38,400 fragments, all but one per frame of full size, are beyond 8 MB. The proofs cover
  it at any value.
* Client: two pushes are one that is read as the challenge and one that is read as the
  verdict; a queue of two has a packet taken while another waits, and a full queue; three
  failed attempts reach the overflow after attempts that do not, and a success resets
  them. Messages in flight need no bound of their own: the client sends at most one PING
  before it is answered.
* Dashboard: one device suffices because requests of two devices meet only in the order
  of the list; two sockets are the least for a skip, and with a cap of one both get in
  when they are checked before either is accepted; two polls overtake each other.
* Identity (`MaxFaults`, also for aborted starts): three faults tear all the files of an
  owner, or one of them again and again; one is enough to part a pair, and one aborted
  start to send a challenge without a signature. The proofs cover any number.

### Fairness

`AuthService!FairSpec`: the collector (`_gc_loop` sleeps and runs for ever) and
the idle timeout (`wait_for` around every receive) are weakly fair. Nothing is
assumed of clients, operators or the network. A waiting client can keep a request
alive for ever, which is intended.

`CaptureService!FairSpec`: the loop's task, the worker thread and a route that has
been called go on. Nothing is assumed of who calls the routes or of the screen.

`StreamService!FairSpec`: the cleanup loop runs for ever (it sleeps `CLIENT_TIMEOUT`
and catches up with whoever is silent), and time passes for a client without a
session: its heartbeats are refused, so `last_hb` grows old. Nothing is assumed of
clients with a session or of the broadcast loop.

`ClientConnection!FairSpec`: the event loop resumes a task whose await has ended and
delivers cancellations, the timeout guard wakes, and `auth_ws` answers what it has
received. Connecting and closing end because the websockets library has timeouts for
both. Nothing is assumed of the operator, the network or the user.

`Dashboard!Fairness`: push tasks go on, a handler's pings fail or its lifetime ends, a
tab's timer polls and the route answers. Polls may fail for ever in one tab, but an
answer that is sent again and again arrives once (strong fairness of `PollReturns`);
otherwise a tab whose network is gone would have to know the queue.

`Identity!Fairness`: a process goes on, and who has failed is started again, by
`_main_loop` for the client and by the operator for the server. Nobody is started again
after a refusal.

### Findings

Four runs end in a counterexample; PROJECT.json quotes the sentence of the
repository each one contradicts.

* The end of an old socket revokes the single-use session made on a newer one.
* After stop and start (or configure) a still screen may never be shown.
* A client that loses its place and not its session is readmitted at sequence number
  0, and its reassembler discards what it is sent until the numbers catch up.
* A client takes the first message after its answer for the verdict: a PONG or a second
  challenge that was under way makes it show BLOCKED, although it has just been approved.

More facts the models show, without a run of their own:

* Authentication. A device allowed once and then approved for good still gets a
  single-use session, because `refresh` keeps `allow_once`. The pending queue exceeds
  `MAX_PENDING_DEVICES` by the requests of trusted devices, which a comment exempts.
  Removing a device's trust leaves its outstanding challenge valid, and a device that says
  HELLO while its block awaits a send is treated as not yet blocked; the first goes
  against the comment at `main.py:662`. A client whose request was evicted waits until its user gives
  up. The idle timeout also ends the socket of a client that streams, and with it a
  single-use session.
* Stream. A device whose trust was removed is sent frames until the cleanup finds it
  silent, for up to twice `CLIENT_TIMEOUT`, because the broadcast loop does not look at
  sessions. A failed send costs the next frame too, which reuses its number. Errors on an
  entry that has left the table evict the same client's new entry.
* Capture. A suspended capture leaves its last frame on offer. An encoder that raises has
  already stored the hash, so its picture is taken for a duplicate.
* Client. `stop` is lost when it arrives while `authenticate` awaits its ping task, and
  then returns only when the stream that follows falls silent. After 1024 failed attempts
  in a row the retry loop dies of an OverflowError. The state stays CONNECTED through the
  cleanup and the backoff after a stream has fallen silent.
* Dashboard. The popup removes and dismisses a request even when the call that decides it
  fails, and a dismissed fingerprint never pops up again in that tab, while the home page
  counts it and says that a popup will appear. A new request goes to the front of the list
  and so takes the place of the card under the operator's pointer. `ADD_PENDING` ignores a
  new request while an expired one of the same device is listed. A 401 to a slow call
  clears whatever token is stored by then (`api.js:29`).
* Identity. A passphrase file, or one file of a complete pair, that a failed write has
  emptied is never written again: its owner never starts again. The other torn files are
  repaired by the next start. The first start of a checkout draws a new pair, because the
  private key is missing, while the client's `trusted_server.json` from the same checkout
  has the old fingerprint: the client reports a possible MITM attack and stops, with
  nobody attacking. When that first start dies between writing the private key
  (`crypto_service.py:79`) and opening the public one (80), the next start finds both
  files, loads a new private key with the old public one, and no client can verify its
  signatures any more; `PairMatches` and `SecurityErrorsJustified` state this as their
  exception, so it is no violation of theirs. A client trusts a fingerprint before it
  has verified the signature that goes with it. A server whose start has raised makes
  its clients stop for good, also when its keys are intact.

## Proofs

All theorems hold for any sets and bounds, under the modules' named assumptions:
null values are outside the sets they stand beside (`NullsAreNull`,
`CaptureConstants`, `KeyAssumption`), bounds are natural numbers (`BoundsAreNaturals`,
`FaultsAssumption`), and the reassembler's limits are positive (`LimitsArePositive`).
`DashboardAssumption` says besides that devices and WebSocket ids are finitely many,
because the model counts them, and that both bounds allow one.

`AuthServiceProofs`, with and without disk faults:

* `TypeCorrect`. The inductive `TypeInv` is `TypeOK` cut into record, socket and
  registry parts, which different actions disturb.
* `QueueCoversDevices`. Inductive once `TypeInv` is known. The lemma that carries it
  is `WithoutFirstKeeps`: taking first occurrences of some devices out of a sequence
  leaves every other device in it; `EvictionCovers` says the same of `popleft`.
* `SessionsAreGranted`. Not inductive by itself: a session takes the grant of the
  request whose challenge the client holds. The invariant adds `Offered` (a
  challenge in a client's hands that is also the pending one has been granted) and
  `OneOwner` (a challenge belongs to one request only). Most actions are `Quiet`:
  they move no request, session or held challenge in a way that matters, and
  one lemma disposes of them all.

`AuthSessionProofs` goes on from there. Three theorems are proved from `~DiskFaults`, the
case in which registry writes succeed, because `verify_challenge` stores the session
before it writes and removes the request after: when the write raises, the challenge is
pending and used at once, and `auth_ws` never learns of the session.

* `ChallengesAreUsedOnce`: the step that makes a session of a challenge takes its request
  out, and no later request gets the same challenge.
* `SingleUseSessionsAreTied`: the socket of a single-use session is still authenticated and
  `auth_ws` knows the device it has to revoke; another socket's end can only remove sessions.
* `AdmissionIsImplemented`: every step is an admission with a permit that `SessionsGranted`
  and `GrantInv` show to be there, a grant, a withdrawal, or a stutter.
* `BlocksHold`, with disk faults too.

`CaptureServiceProofs`:

* `TypeCorrect`, with the bound on the error count: a live loop is below the limit.
* `StoppedCapturePublishesNothing`, from `LiveRuns`: a live loop belongs to a running
  capture, and a job is wanted only while the loop awaits it.
* `RunningCaptureIsEnabled`, from `StopComes`: over a running capture the flag is down
  only while some request is about to stop it.
* `FramesAreOfRegion`, from `RegionInv`: while a configure request has not yet stopped
  the capture anything goes; once it has, neither the frame, the result under way
  nor the worker's wanted picture is of another region.
* `RequestsAreNeverStuck`, what `RequestsReturn` comes to without fairness: some step of
  the task or of a request can always bring the lock on. From `LockInv`: who waits stands
  in `line`, once, and nobody else does (`InLine`); one request holds the lock, and its
  task goes on no more (`OneHolder`). Fairness and `RequestsReturn` itself stay with the
  `capture` run.

`StreamServiceProofs`, with and without faults:

* `TypeCorrect`. `TypeOK` is inductive; it is cut into `Shapes`, which every action
  touches, and `Capped`, for which only an admission matters (`OneMorePlace`) because
  every other step leaves the places taken within the old ones (`FewerPlaces`).
* `AddressIsPinned`. Inductive with `Shapes`: most steps are `Calm` for a client (its
  session is the old one or gone, its entry keeps key and address), a heartbeat sets
  pin and address together, and a new session's key is in no entry.
* `SingleUseEndsWithItsPlace`, an action property, from `Shapes`: only `Drop` and the
  eviction in `Serve` empty a place, and each revokes in the same step.
* `PathImplementsService`: each step of `StreamPath` is one of `StreamService` or leaves it
  alone, so the three theorems above hold with the clients, too.
* `FramesAreOwn`, from `KeysApart`: no key is in use for two clients, where a client's keys
  are those of its session, its entry in the table, the entry a round goes on with after
  it lost its place, the frame under way, and its own. Only `Reconnect` brings a key into
  use (`NewKey`); every other step only passes keys on (`OldKeys`).
* `OnlyReadmissionHidesFrames` is the counterpart of the violation `stream_path` shows. That
  run finds a client that ignores new frames after a readmission, whose entry counts
  from 0; the theorem says that there is no other way: wherever `FirstStreams` holds, in a
  behaviour of any length with any clients, every frame that arrives under the client's key
  is newer than all it took. From `PathInv`: the entries of a listening client are `Ahead`
  of what it has taken, and while it has one in the table and one outside, the one
  outside, like the frame under way, is of an older key (`SentAs`, `Current`).
  `FirstStreams` leaves out one kind of step only; sessions, losses, refusals and reconnects
  go on as ever.

`FrameReassemblerProofs`, for frames of any size and any number of frames,
readmissions and reconnects:

* `TypeCorrect` and `FramesAhead`, from one inductive `Inv` in four parts:
  `SentInOrder` (under one admission neither numbers nor keys go back), `Buffers`
  (each sound, ahead of `last` and incomplete), `Capped` and `ShownCounted` (what was
  shown under the present key is not beyond `last`). `EvictedShape`, `OpenedShape` and
  `AddedShape` say what the eviction and a fragment do to the buffers, whatever the
  limits; the limit on frames rests on eviction leaving a place.
* `FramesInOrder`, the refinement of `FrameChannel`: a frame shown is newer than every
  earlier one of its admission, because those of its key have lower numbers
  (`ShownCounted`) and the others an earlier key (`SentInOrder`).

`ClientConnectionProofs`, for any packet queue, exponent and number of pushes:

* `TypeCorrect`.
* `LoopsBelongToOneConnection` and `StoppedClientIsClean`, from `Resting`: which tasks and
  which transport there can be at each await, also while a cancellation is due, and that
  whoever stops waits for `main` unless it has ended.
* `StreamsAreAccepted`, from `Talking`: HELLO is the first message the server can read on a
  socket and the answer the last, so once the server has accepted, what it still has to
  read are PINGs, and no refusal can follow, because no request is left.

`IdentityProofs`, for any number of deaths and failed writes:

* `TypeCorrect`, `LoadedPairsMatch`, `IdentitiesAreKept`, `SecurityErrorsAreJustified` and
  `StartsFailOnlyTorn`, all from one inductive `IInv`: `Disk` (what the files say of each
  other and of the first pair, whatever a death has left), `Stage` (what a start has put on
  the disk by the time it reaches each stage) and `Trusts` (what the client has saved or
  refuses). The point of the argument is that a public key without a private one is
  `Leftover` from the beginning or absent, so that a new pair is drawn only while the
  owner has never been up, and that the two files disagree only halfway through that
  (`Stage`'s "half") or when a death there has `Parted` them.

`DashboardProofs`, for any number of devices, tabs, sockets and polls:

* The list lemmas. `Kept(q, S)[n]` is what is left of the first n elements of `q`, a
  recursive function, so what it returns is shown by induction on n. The induction comes
  from `LeastElement` and `UpTo` (a set of numbers that holds 0 and with n also n + 1 holds
  all of them), which need no operator as a parameter. `KeptElements` says which elements
  are left, `KeptPlaces` that they keep their order, `KeptFirst` that filtering only adds at
  the end, `KeptCount` how many are gone.
* `TypeCorrect`: the queue, the socket list and every tab's list never have anything twice.
* `ListedSocketsAreServed`: needs `DeadAreDown`, that a push removes only sockets nobody
  has open any more. That no socket is appended twice needs this invariant in turn, so it
  is proved together with the types.
* `PushesMissOnlyOnRemoval` says something only of a push that is through, so it is not
  inductive. `PushesCount` says it of the push under way: of the sockets it has yet to try,
  those its index has passed (`Passed`) are at most as many as the entries others took out.
  The lemma that carries it is `PassedByRemoval`: when S is taken out, the prefix of length
  n shrinks to m = n - |S in the prefix|, and only what then stands between m and n is newly
  passed.

Every invariant and every action property of the passing runs is proved. Model-checked
only: every property that something eventually happens, which is beyond the prover.

## Not modelled

* The rate limiters' windows, the nonce window and the packet limiter: the models let them
  refuse at will, which is all other parts see of them.
* The connection cap of `auth_ws`: the same check, await and count as the dashboard's.
* The registry's logs of recent and rejected devices, their pruning, and the recovery from
  unreadable files; `device_info.json` and `local_db.py` of the client.
* The logger: a library queue and one thread, read by nobody else.
* Cryptography and the dashboard token: library calls, for which a value that cannot be
  forged stands.
* Configuration values, decoding, drawing, and pages that only show what the routes return.
* Lengths of time: intervals and timeouts are events that may come at any time, so nothing
  here says that a PING every ten seconds keeps a request alive, or that two timeouts fit
  each other.

## Plan

What would add most next: `StreamPath` over fragments, with what holds along the whole path
(a client never shows a frame twice under one session, nor one of another session); a
dashboard with two tabs that decide about one request; intervals and timeouts as numbers,
to relate the PING interval, the request's deadline and the idle timeout.
