---------------------------- MODULE CaptureService ----------------------------
(***************************************************************************)
(* Capturing the screen: the dashboard's start, stop and configure routes, *)
(* the capture loop on the event loop, and the worker thread that grabs    *)
(* and encodes.                                                            *)
(*                                                                         *)
(*   server/backend/services/capture_service.py   ScreenCaptureService     *)
(*   server/backend/services/stream_service.py    _capture_enabled         *)
(*   server/backend/main.py                       the stream routes        *)
(*                                                                         *)
(* The worker is a real thread: it moves between any two steps of the      *)
(* event loop, and cancelling the loop's await does not stop it.  Without  *)
(* mss or cv2 the server draws a test pattern instead; that loop is not    *)
(* modelled.                                                               *)
(***************************************************************************)
EXTENDS Naturals, Sequences

CONSTANTS
  Call,       \* requests to the stream routes
  Region,     \* configured parts of the screen
  Content,    \* what the screen can show
  NoPicture,  \* Python's None
  Failed,     \* the worker's call raised
  MaxErrors,  \* settings.MAX_CAPTURE_ERRORS
  Faults      \* whether grabbing and encoding may raise

\* A picture stands for its hash and for the frame encoded from it.
Picture == [region: Region, content: Content]

ASSUME CaptureConstants ==
  /\ NoPicture \notin Picture
  /\ Failed \notin Picture \cup {NoPicture}
  /\ MaxErrors \in Nat \ {0}
  /\ Faults \in BOOLEAN

VARIABLES
  screen,    \* what the screen shows now
  region,    \* _region
  running,   \* _running
  latest,    \* _latest_frame
  lastHash,  \* _last_frame_hash
  errors,    \* _error_count
  enabled,   \* the stream service's _capture_enabled
  task,      \* how far the capture task has come
  result,    \* what its executor call returned
  worker,    \* how far the worker thread has come
  shot,      \* the picture in the worker's hands
  wanted,    \* whether the task still awaits the worker
  call,      \* how far each request has come
  line       \* requests waiting for _lifecycle_lock

settings == <<screen, region>>
shared   == <<running, latest, lastHash, errors, enabled>>
loop     == <<task, result>>
thread   == <<worker, shot, wanted>>
requests == <<call, line>>
vars     == <<settings, shared, loop, thread, requests>>

\* ready: before it submits; queued: behind a job nobody awaits any more; got:
\* woken with a result; cancelled: not yet unwound; ended: gave up by itself.
Task == {"none", "ready", "queued", "awaiting", "got", "cancelled", "ended"}

Worker == {"idle", "begun", "grabbed", "hashed"}

\* A configure request stops and then starts.
Progress == {"idle", "start", "stop", "join", "restop", "rejoin", "restart"}

Outcome == Picture \cup {NoPicture, Failed}

(***************************************************************************)
(* Types: the fields of ScreenCaptureService, and the error count below    *)
(* the limit that suspends the capture while the loop runs.                *)
(***************************************************************************)
TypeOK ==
  /\ screen \in Content /\ region \in Region
  /\ running \in BOOLEAN /\ enabled \in BOOLEAN /\ wanted \in BOOLEAN
  /\ latest \in Picture \cup {NoPicture}
  /\ lastHash \in Picture \cup {NoPicture}
  /\ shot \in Picture \cup {NoPicture}
  /\ errors \in 0 .. MaxErrors
  /\ task \in Task /\ worker \in Worker
  /\ result \in Outcome
  /\ call \in [Call -> Progress]
  /\ line \in Seq(Call)

Live == task \in {"ready", "queued", "awaiting", "got"}

LockFree == \A r \in Call : call[r] \notin {"join", "rejoin"}

Configuring == \E r \in Call : call[r] \in {"restop", "rejoin", "restart"}

Settled == \A r \in Call : call[r] = "idle"

-----------------------------------------------------------------------------
\* The routes.  A request takes its turn on _lifecycle_lock in the order of
\* arrival; on a free lock it would not wait at all.

Arrive(r, next) ==
  /\ call[r] = "idle"
  /\ call' = [call EXCEPT ![r] = next]
  /\ line' = Append(line, r)

StartRoute(r) ==
  /\ Arrive(r, "start")
  /\ UNCHANGED <<settings, shared, loop, thread>>

\* capture_stopped comes before the await of stop.
StopRoute(r) ==
  /\ Arrive(r, "stop")
  /\ enabled' = FALSE
  /\ UNCHANGED <<settings, running, latest, lastHash, errors, loop, thread>>

\* Under _reconfigure_lock: one at a time.  The capture goes on meanwhile.
ConfigureRoute(r, reg) ==
  /\ ~Configuring
  /\ Arrive(r, "restop")
  /\ region' = reg
  /\ lastHash' = NoPicture
  /\ enabled' = FALSE
  /\ UNCHANGED <<screen, running, latest, errors, loop, thread>>

Turn(r) == line # <<>> /\ r = Head(line) /\ LockFree /\ line' = Tail(line)

\* Mutant: the error count of a suspended capture is kept.
StartKeepsErrors(r) ==
  /\ call[r] \in {"start", "restart"} /\ Turn(r)
  /\ call' = [call EXCEPT ![r] = "idle"]
  /\ enabled' = TRUE
  /\ running' = TRUE
  /\ IF running THEN UNCHANGED <<lastHash, task>>
     ELSE lastHash' = NoPicture /\ task' = "ready"
  /\ UNCHANGED <<settings, latest, errors, result, thread>>

\* Mutant: nothing follows it.
StartQuietly(r) ==
  /\ call[r] \in {"start", "restart"} /\ Turn(r)
  /\ call' = [call EXCEPT ![r] = "idle"]
  /\ running' = TRUE
  /\ IF running THEN UNCHANGED <<lastHash, errors, task>>
     ELSE lastHash' = NoPicture /\ errors' = 0 /\ task' = "ready"
  /\ UNCHANGED <<settings, latest, enabled, result, thread>>

\* start does nothing when the capture runs; capture_started follows it.
Start(r) ==
  /\ call[r] \in {"start", "restart"} /\ Turn(r)
  /\ call' = [call EXCEPT ![r] = "idle"]
  /\ enabled' = TRUE
  /\ running' = TRUE
  /\ IF running THEN UNCHANGED <<lastHash, errors, task>>
     ELSE lastHash' = NoPicture /\ errors' = 0 /\ task' = "ready"
  /\ UNCHANGED <<settings, latest, result, thread>>

\* Mutant: the task is told to end but not cancelled.
StopUncancelled(r) ==
  /\ call[r] \in {"stop", "restop"} /\ Turn(r)
  /\ call' = [call EXCEPT ![r] = IF @ = "stop" THEN "join" ELSE "rejoin"]
  /\ running' = FALSE
  /\ UNCHANGED <<settings, latest, lastHash, errors, enabled, loop, thread>>

\* The lock is kept while stop awaits the cancelled task.
Stop(r) ==
  /\ call[r] \in {"stop", "restop"} /\ Turn(r)
  /\ call' = [call EXCEPT ![r] = IF @ = "stop" THEN "join" ELSE "rejoin"]
  /\ running' = FALSE
  /\ task' = IF Live THEN "cancelled" ELSE task
  /\ result' = NoPicture
  /\ wanted' = FALSE
  /\ UNCHANGED <<settings, latest, lastHash, errors, enabled, worker, shot>>

\* Mutant: the last frame is left for the broadcast loop.
JoinKeepsFrame(r) ==
  /\ call[r] \in {"join", "rejoin"} /\ task \in {"none", "ended"}
  /\ lastHash' = NoPicture
  /\ call' = [call EXCEPT ![r] = IF @ = "join" THEN "idle" ELSE "restart"]
  /\ line' = IF call[r] = "join" THEN line ELSE Append(line, r)
  /\ UNCHANGED <<settings, running, latest, errors, enabled, loop, thread>>

\* stop ends; a configure request queues for the lock again, to start.
Join(r) ==
  /\ call[r] \in {"join", "rejoin"} /\ task \in {"none", "ended"}
  /\ latest' = NoPicture
  /\ lastHash' = NoPicture
  /\ call' = [call EXCEPT ![r] = IF @ = "join" THEN "idle" ELSE "restart"]
  /\ line' = IF call[r] = "join" THEN line ELSE Append(line, r)
  /\ UNCHANGED <<settings, running, errors, enabled, loop, thread>>

-----------------------------------------------------------------------------
\* The capture task.

\* The executor has one thread; an abandoned job may still have it.
Submit ==
  /\ task = "ready"
  /\ IF worker = "idle"
     THEN task' = "awaiting" /\ worker' = "begun" /\ wanted' = TRUE
     ELSE task' = "queued" /\ UNCHANGED <<worker, wanted>>
  /\ UNCHANGED <<settings, shared, result, shot, requests>>

Dispatch ==
  /\ task = "queued" /\ worker = "idle"
  /\ task' = "awaiting" /\ worker' = "begun" /\ wanted' = TRUE
  /\ UNCHANGED <<settings, shared, result, shot, requests>>

Continue == task' = "ready" /\ result' = NoPicture

TakeFrame ==
  /\ task = "got" /\ result \notin {NoPicture, Failed}
  /\ latest' = result
  /\ errors' = 0
  /\ Continue
  /\ UNCHANGED <<settings, running, lastHash, enabled, thread, requests>>

TakeDuplicate ==
  /\ task = "got" /\ result = NoPicture
  /\ Continue
  /\ UNCHANGED <<settings, shared, thread, requests>>

\* Too many errors suspend the capture, and leave its last frame in place.
TakeError ==
  /\ task = "got" /\ result = Failed
  /\ errors' = errors + 1
  /\ running' = IF errors' < MaxErrors THEN running ELSE FALSE
  /\ IF errors' < MaxErrors THEN Continue ELSE task' = "ended" /\ result' = NoPicture
  /\ UNCHANGED <<settings, latest, lastHash, enabled, thread, requests>>

\* Mutant: the loop swallows the cancellation and goes on.
UnwindGoesOn ==
  /\ task = "cancelled"
  /\ task' = "ready"
  /\ UNCHANGED <<settings, shared, result, thread, requests>>

Unwind ==
  /\ task = "cancelled"
  /\ task' = "none"
  /\ UNCHANGED <<settings, shared, result, thread, requests>>

-----------------------------------------------------------------------------
\* The worker thread, in _capture_frame_worker.

\* What it returns reaches the task only if that still waits.
Return(outcome) ==
  /\ worker' = "idle" /\ shot' = NoPicture
  /\ IF wanted THEN result' = outcome /\ task' = "got" ELSE UNCHANGED loop
  /\ wanted' = FALSE

Grab ==
  /\ worker = "begun"
  /\ shot' = [region |-> region, content |-> screen]
  /\ worker' = "grabbed"
  /\ UNCHANGED <<settings, shared, loop, wanted, requests>>

Duplicate ==
  /\ worker = "grabbed" /\ shot = lastHash
  /\ Return(NoPicture)
  /\ UNCHANGED <<settings, shared, requests>>

Hash ==
  /\ worker = "grabbed" /\ shot # lastHash
  /\ lastHash' = shot
  /\ worker' = "hashed"
  /\ UNCHANGED <<settings, running, latest, errors, enabled, loop, shot, wanted, requests>>

Encode ==
  /\ worker = "hashed"
  /\ Return(shot)
  /\ UNCHANGED <<settings, shared, requests>>

\* The hash stays when the encoder raises.
Raise ==
  /\ Faults /\ worker \in {"begun", "hashed"}
  /\ Return(Failed)
  /\ UNCHANGED <<settings, shared, requests>>

ScreenChanges ==
  /\ screen' \in Content \ {screen}
  /\ UNCHANGED <<region, shared, loop, thread, requests>>

-----------------------------------------------------------------------------
\* lifespan has configured and started the capture.
Init ==
  /\ screen \in Content /\ region \in Region
  /\ running = TRUE /\ enabled = TRUE
  /\ latest = NoPicture /\ lastHash = NoPicture /\ errors = 0
  /\ task = "ready" /\ result = NoPicture
  /\ worker = "idle" /\ shot = NoPicture /\ wanted = FALSE
  /\ call = [r \in Call |-> "idle"]
  /\ line = <<>>

LoopNext == Submit \/ Dispatch \/ TakeFrame \/ TakeDuplicate \/ TakeError \/ Unwind

WorkerNext == Grab \/ Duplicate \/ Hash \/ Encode \/ Raise

RouteNext(r) ==
  \/ StartRoute(r)
  \/ StopRoute(r)
  \/ \E reg \in Region : ConfigureRoute(r, reg)
  \/ Start(r)
  \/ Stop(r)
  \/ Join(r)

Next == LoopNext \/ WorkerNext \/ ScreenChanges \/ \E r \in Call : RouteNext(r)

Spec == Init /\ [][Next]_vars

\* Threads and tasks are scheduled; a request that came in goes on.  Nobody
\* promises that the operator acts or that the screen changes.
FairSpec ==
  /\ Spec
  /\ WF_vars(LoopNext) /\ WF_vars(WorkerNext)
  /\ \A r \in Call : WF_vars(Start(r)) /\ WF_vars(Stop(r)) /\ WF_vars(Join(r))

-----------------------------------------------------------------------------
(***************************************************************************)
(* The frame offered to the stream shows the configured region: a grab of  *)
(* the old region, in flight while configure ran, never arrives.  The task *)
(* is cancelled and its frame cleared while the thread goes on.            *)
(***************************************************************************)
FramesOfRegion ==
  ~Configuring /\ latest # NoPicture => latest.region = region

(***************************************************************************)
(* Once the requests have returned, a capture that runs is also broadcast: *)
(* the routes set _running and _capture_enabled on different sides of an   *)
(* await, in opposite orders for start and stop.                           *)
(***************************************************************************)
RunningIsEnabled == Settled /\ running => enabled

(***************************************************************************)
(* A stopped capture publishes nothing more: stop waits for the loop to    *)
(* unwind, and the worker's late result has nowhere to go.                 *)
(***************************************************************************)
NothingAfterStop == [][latest' \notin {latest, NoPicture} => running]_vars

(***************************************************************************)
(* No request is stuck, whatever the others have done: either one holds    *)
(* the lifecycle lock and awaits a task that has ended or been cancelled,  *)
(* or the lock is free and the first in line can take it.  stop keeps the  *)
(* lock over its await, and a configure request leaves it and queues anew. *)
(***************************************************************************)
NobodyStuck ==
  ~Settled =>
    \/ /\ ~LockFree
       /\ task \in {"none", "ended", "cancelled"}
    \/ /\ LockFree /\ line # <<>>
       /\ call[Head(line)] \in {"start", "stop", "restop", "restart"}

(***************************************************************************)
(* Every request to the routes returns: stop holds the lifecycle lock      *)
(* while it awaits the task, and configure takes that lock twice.          *)
(***************************************************************************)
RequestsReturn == \A r \in Call : (call[r] # "idle") ~> (call[r] = "idle")

-----------------------------------------------------------------------------
(***************************************************************************)
(* configure resets the hash "so next frame reflects new region": a        *)
(* running capture that is left alone comes to offer a frame of its        *)
(* region.                                                                 *)
(***************************************************************************)
FrameComes ==
  (Settled /\ running)
    ~> (~Settled \/ ~running \/ (latest # NoPicture /\ latest.region = region))
=============================================================================
