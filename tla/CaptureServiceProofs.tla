------------------------ MODULE CaptureServiceProofs ------------------------
(***************************************************************************)
(* Theorems about CaptureService for any requests, regions and contents,   *)
(* with or without faults.                                                 *)
(***************************************************************************)
EXTENDS CaptureService, TLAPS

\* A loop that lives belongs to a capture that runs, and a job is wanted only
\* while the loop awaits it.
LiveRuns == (Live => running) /\ (wanted => task = "awaiting")

\* While the capture runs unheard, somebody is about to stop it.
StopComes ==
  running /\ ~enabled => \E r \in Call : call[r] \in {"stop", "restop"}

-----------------------------------------------------------------------------
\* Every step keeps LiveRuns.
LEMMA LiveRunsStep == LiveRuns /\ [Next]_vars => LiveRuns'
<1> SUFFICES ASSUME LiveRuns, [Next]_vars PROVE LiveRuns'
  OBVIOUS
<1> USE DEF LiveRuns, Live
<1>1. CASE LoopNext
  <2>1. CASE Submit BY <2>1 DEF Submit, shared
  <2>2. CASE Dispatch BY <2>2 DEF Dispatch, shared
  <2>3. CASE TakeFrame BY <2>3 DEF TakeFrame, Continue, thread
  <2>4. CASE TakeDuplicate BY <2>4 DEF TakeDuplicate, Continue, shared, thread
  <2>5. CASE TakeError BY <2>5 DEF TakeError, Continue, thread
  <2>6. CASE Unwind BY <2>6 DEF Unwind, shared, thread
  <2> QED BY <1>1, <2>1, <2>2, <2>3, <2>4, <2>5, <2>6 DEF LoopNext
<1>2. CASE WorkerNext
  BY <1>2 DEF WorkerNext, Grab, Duplicate, Hash, Encode, Raise, Return, shared, loop
<1>3. CASE ScreenChanges
  BY <1>3 DEF ScreenChanges, shared, loop, thread
<1>4. ASSUME NEW r \in Call, RouteNext(r) PROVE LiveRuns'
  BY <1>4 DEF RouteNext, StartRoute, StopRoute, ConfigureRoute, Start, Stop, Join,
       shared, loop, thread
<1>5. CASE UNCHANGED vars
  BY <1>5 DEF vars, shared, loop, thread
<1> QED BY <1>1, <1>2, <1>3, <1>4, <1>5 DEF Next

(***************************************************************************)
(* A stopped capture publishes nothing more: only a live loop publishes,   *)
(* and a live loop runs.                                                   *)
(***************************************************************************)
THEOREM StoppedCapturePublishesNothing == Spec => NothingAfterStop
<1>1. Init => LiveRuns
  BY DEF Init, LiveRuns
<1>2. LiveRuns /\ [Next]_vars => [latest' \notin {latest, NoPicture} => running]_vars
  <2> SUFFICES ASSUME LiveRuns, Next, latest' \notin {latest, NoPicture} PROVE running
    BY DEF vars, shared
  <2>1. CASE LoopNext
    BY <2>1 DEF LiveRuns, Live, LoopNext, Submit, Dispatch, TakeFrame, TakeDuplicate,
         TakeError, Unwind, shared
  <2>2. CASE WorkerNext
    BY <2>2 DEF WorkerNext, Grab, Duplicate, Hash, Encode, Raise, shared
  <2>3. CASE ScreenChanges
    BY <2>3 DEF ScreenChanges, shared
  <2>4. ASSUME NEW r \in Call, RouteNext(r) PROVE running
    BY <2>4 DEF RouteNext, StartRoute, StopRoute, ConfigureRoute, Start, Stop, Join, shared
  <2> QED BY <2>1, <2>2, <2>3, <2>4 DEF Next
<1> QED BY <1>1, LiveRunsStep, <1>2, PTL DEF Spec, NothingAfterStop

-----------------------------------------------------------------------------
(***************************************************************************)
(* A capture that runs is broadcast once the requests have returned: the   *)
(* flag is down over a running capture only between the first line of a    *)
(* stop or configure request and its turn on the lock.                     *)
(***************************************************************************)
THEOREM RunningCaptureIsEnabled == Spec => []RunningIsEnabled
<1> DEFINE Inv == StopComes /\ call \in [Call -> Progress]
<1>1. Init => Inv
  BY DEF Init, StopComes, Progress
<1>2. Inv /\ [Next]_vars => Inv'
  <2> SUFFICES ASSUME Inv, [Next]_vars PROVE Inv'
    OBVIOUS
  <2> USE DEF StopComes
  <2>1. CASE LoopNext
    <3>1. CASE Submit BY <3>1 DEF Submit, shared, requests
    <3>2. CASE Dispatch BY <3>2 DEF Dispatch, shared, requests
    <3>3. CASE TakeFrame BY <3>3 DEF TakeFrame, requests
    <3>4. CASE TakeDuplicate BY <3>4 DEF TakeDuplicate, shared, requests
    <3>5. CASE TakeError BY <3>5 DEF TakeError, requests
    <3>6. CASE Unwind BY <3>6 DEF Unwind, shared, requests
    <3> QED BY <2>1, <3>1, <3>2, <3>3, <3>4, <3>5, <3>6 DEF LoopNext
  <2>2. CASE WorkerNext
    BY <2>2 DEF WorkerNext, Grab, Duplicate, Hash, Encode, Raise, shared, requests
  <2>3. CASE ScreenChanges
    BY <2>3 DEF ScreenChanges, shared, requests
  <2>4. ASSUME NEW r \in Call, RouteNext(r) PROVE Inv'
    <3>1. CASE StartRoute(r)
      BY <3>1 DEF StartRoute, Arrive, shared, Progress
    <3>2. CASE StopRoute(r)
      BY <3>2 DEF StopRoute, Arrive, Progress
    <3>3. ASSUME NEW reg \in Region, ConfigureRoute(r, reg) PROVE Inv'
      BY <3>3 DEF ConfigureRoute, Arrive, Progress
    <3>4. CASE Start(r)
      BY <3>4 DEF Start, Progress
    <3>5. CASE Stop(r)
      BY <3>5 DEF Stop, Progress
    <3>6. CASE Join(r)
      BY <3>6 DEF Join, Progress
    <3> QED BY <2>4, <3>1, <3>2, <3>3, <3>4, <3>5, <3>6 DEF RouteNext
  <2>5. CASE UNCHANGED vars
    BY <2>5 DEF vars, shared, requests
  <2> QED BY <2>1, <2>2, <2>3, <2>4, <2>5 DEF Next
<1>3. Inv => RunningIsEnabled
  BY DEF StopComes, RunningIsEnabled, Settled
<1> QED BY <1>1, <1>2, <1>3, PTL DEF Spec

-----------------------------------------------------------------------------
\* The flags, apart from the rest: they are for another prover.
Flags == running \in BOOLEAN /\ enabled \in BOOLEAN /\ wanted \in BOOLEAN

\* A loop that lives has errors left.
Data ==
  /\ screen \in Content /\ region \in Region
  /\ latest \in Picture \cup {NoPicture}
  /\ lastHash \in Picture \cup {NoPicture}
  /\ shot \in Picture \cup {NoPicture}
  /\ errors \in 0 .. MaxErrors
  /\ Live => errors < MaxErrors
  /\ task \in Task /\ worker \in Worker
  /\ result \in Outcome
  /\ call \in [Call -> Progress]
  /\ line \in Seq(Call)

\* Every step keeps the flags Boolean.
LEMMA FlagsStep == Flags /\ [Next]_vars => Flags'
<1> SUFFICES ASSUME Flags, [Next]_vars PROVE Flags'
  OBVIOUS
<1> USE DEF Flags
<1>1. CASE LoopNext
  <2>1. CASE Submit BY <2>1, Zenon DEF Submit, shared
  <2>2. CASE Dispatch BY <2>2, Zenon DEF Dispatch, shared
  <2>3. CASE TakeFrame BY <2>3, Zenon DEF TakeFrame, thread
  <2>4. CASE TakeDuplicate BY <2>4, Zenon DEF TakeDuplicate, shared, thread
  <2>5. CASE TakeError
    <3>1. CASE errors' < MaxErrors BY <2>5, <3>1, Zenon DEF TakeError, thread
    <3>2. CASE ~(errors' < MaxErrors) BY <2>5, <3>2, Zenon DEF TakeError, thread
    <3> QED BY <3>1, <3>2
  <2>6. CASE Unwind BY <2>6, Zenon DEF Unwind, shared, thread
  <2> QED BY <1>1, <2>1, <2>2, <2>3, <2>4, <2>5, <2>6 DEF LoopNext
<1>2. CASE WorkerNext
  BY <1>2, Zenon DEF WorkerNext, Grab, Duplicate, Hash, Encode, Raise, Return, shared
<1>3. CASE ScreenChanges
  BY <1>3, Zenon DEF ScreenChanges, shared, thread
<1>4. ASSUME NEW r \in Call, RouteNext(r) PROVE Flags'
  BY <1>4, Zenon DEF RouteNext, StartRoute, StopRoute, ConfigureRoute, Start, Stop, Join,
       shared, thread
<1>5. CASE UNCHANGED vars
  BY <1>5, Zenon DEF vars, shared, thread
<1> QED BY <1>1, <1>2, <1>3, <1>4, <1>5 DEF Next

\* Every step keeps the rest.
LEMMA DataStep == Data /\ LiveRuns /\ [Next]_vars => Data'
<1> USE CaptureConstants
<1> SUFFICES ASSUME Data, LiveRuns, [Next]_vars PROVE Data'
  OBVIOUS
<1> USE DEF Data, Live, LiveRuns
<1>1. CASE LoopNext
  <2>1. CASE Submit
    BY <2>1 DEF Submit, settings, shared, requests, Task, Worker
  <2>2. CASE Dispatch
    BY <2>2 DEF Dispatch, settings, shared, requests, Task, Worker
  <2>3. CASE TakeFrame
    BY <2>3 DEF TakeFrame, Continue, settings, thread, requests, Task, Outcome
  <2>4. CASE TakeDuplicate
    BY <2>4 DEF TakeDuplicate, Continue, settings, shared, thread, requests, Task, Outcome
  <2>5. CASE TakeError
    BY <2>5 DEF TakeError, Continue, settings, thread, requests, Task, Outcome
  <2>6. CASE Unwind
    BY <2>6 DEF Unwind, settings, shared, thread, requests, Task
  <2> QED BY <1>1, <2>1, <2>2, <2>3, <2>4, <2>5, <2>6 DEF LoopNext
<1>2. CASE WorkerNext
  <2>1. CASE Grab
    BY <2>1 DEF Grab, settings, shared, loop, requests, Worker, Picture
  <2>2. CASE Duplicate
    <3>1. CASE wanted
      BY <2>2, <3>1 DEF Duplicate, Return, settings, shared, requests, Worker, Task, Outcome
    <3>2. CASE ~wanted
      BY <2>2, <3>2 DEF Duplicate, Return, settings, shared, loop, requests, Worker
    <3> QED BY <3>1, <3>2
  <2>3. CASE Hash
    BY <2>3 DEF Hash, settings, loop, requests, Worker
  <2>4. CASE Encode
    <3>1. CASE wanted
      BY <2>4, <3>1 DEF Encode, Return, settings, shared, requests, Worker, Task, Outcome
    <3>2. CASE ~wanted
      BY <2>4, <3>2 DEF Encode, Return, settings, shared, loop, requests, Worker
    <3> QED BY <3>1, <3>2
  <2>5. CASE Raise
    <3>1. CASE wanted
      BY <2>5, <3>1 DEF Raise, Return, settings, shared, requests, Worker, Task, Outcome
    <3>2. CASE ~wanted
      BY <2>5, <3>2 DEF Raise, Return, settings, shared, loop, requests, Worker
    <3> QED BY <3>1, <3>2
  <2> QED BY <1>2, <2>1, <2>2, <2>3, <2>4, <2>5 DEF WorkerNext
<1>3. CASE ScreenChanges
  BY <1>3 DEF ScreenChanges, shared, loop, thread, requests
<1>4. ASSUME NEW r \in Call, RouteNext(r) PROVE Data'
  <2>1. CASE StartRoute(r)
    BY <2>1 DEF StartRoute, Arrive, settings, shared, loop, thread, Progress
  <2>2. CASE StopRoute(r)
    BY <2>2 DEF StopRoute, Arrive, settings, loop, thread, Progress
  <2>3. ASSUME NEW reg \in Region, ConfigureRoute(r, reg) PROVE Data'
    BY <2>3 DEF ConfigureRoute, Arrive, loop, thread, Progress
  <2>4. CASE Start(r)
    BY <2>4 DEF Start, Turn, settings, thread, Progress, Task
  <2>5. CASE Stop(r)
    BY <2>5 DEF Stop, Turn, settings, Progress, Task, Outcome
  <2>6. CASE Join(r)
    BY <2>6 DEF Join, settings, loop, thread, Progress
  <2> QED BY <1>4, <2>1, <2>2, <2>3, <2>4, <2>5, <2>6 DEF RouteNext
<1>5. CASE UNCHANGED vars
  BY <1>5 DEF vars, settings, shared, loop, thread, requests
<1> QED BY <1>1, <1>2, <1>3, <1>4, <1>5 DEF Next

(***************************************************************************)
(* Type correctness, the bound on the error count included: the loop that  *)
(* reaches the limit ends with it, and the next start counts afresh.       *)
(***************************************************************************)
THEOREM TypeCorrect == Spec => []TypeOK
<1>1. Init => Flags /\ Data /\ LiveRuns
  <2>1. Init => Flags
    BY Zenon DEF Init, Flags
  <2>2. Init => Data
    BY CaptureConstants DEF Init, Data, Live, Task, Worker, Progress, Outcome
  <2>3. Init => LiveRuns
    BY DEF Init, LiveRuns
  <2> QED BY <2>1, <2>2, <2>3
<1>2. Flags /\ Data => TypeOK
  BY DEF Flags, Data, TypeOK
<1> QED BY <1>1, <1>2, FlagsStep, DataStep, LiveRunsStep, PTL DEF Spec

-----------------------------------------------------------------------------
\* A frame, or no frame, that is not of an old region.
Current(outcome) == outcome \notin {NoPicture, Failed} => outcome.region = region

Cleared == \A r \in Call : call[r] \notin {"restop", "rejoin"}

\* One request configures and one holds the lock.  Until the former has
\* stopped the capture anything goes; then nothing of the old region is left
\* that could reach the loop.
RegionInv ==
  /\ call \in [Call -> Progress]
  /\ \A q, r \in Call :
       /\ call[q] \in {"restop", "rejoin", "restart"}
       /\ call[r] \in {"restop", "rejoin", "restart"}
       => q = r
  /\ \A q, r \in Call :
       call[q] \in {"join", "rejoin"} /\ call[r] \in {"join", "rejoin"} => q = r
  /\ Cleared => Current(latest) /\ Current(result) /\ (wanted => Current(shot))
  /\ (\E r \in Call : call[r] = "rejoin") =>
       ~Live /\ ~wanted /\ result = NoPicture
  /\ worker = "idle" => shot = NoPicture

(***************************************************************************)
(* Outside a configure request the frame on offer is of the configured     *)
(* region, however the worker's late results, other requests and the loop  *)
(* interleave.                                                             *)
(***************************************************************************)
THEOREM FramesAreOfRegion == Spec => []FramesOfRegion
<1>1. Init => RegionInv
  BY DEF Init, RegionInv, Cleared, Current, Progress
<1>2. RegionInv /\ [Next]_vars => RegionInv'
  <2> SUFFICES ASSUME RegionInv, [Next]_vars PROVE RegionInv'
    OBVIOUS
  <2> USE DEF RegionInv, Cleared, Current, Live
  <2>1. CASE LoopNext
    <3>1. CASE Submit
      BY <3>1 DEF Submit, settings, shared, requests
    <3>2. CASE Dispatch
      BY <3>2 DEF Dispatch, settings, shared, requests
    <3>3. CASE TakeFrame
      BY <3>3 DEF TakeFrame, Continue, settings, thread, requests
    <3>4. CASE TakeDuplicate
      BY <3>4 DEF TakeDuplicate, Continue, settings, shared, thread, requests
    <3>5. CASE TakeError
      BY <3>5 DEF TakeError, Continue, settings, thread, requests
    <3>6. CASE Unwind
      BY <3>6 DEF Unwind, settings, shared, thread, requests
    <3> QED BY <2>1, <3>1, <3>2, <3>3, <3>4, <3>5, <3>6 DEF LoopNext
  <2>2. CASE WorkerNext
    <3>1. CASE Grab
      BY <3>1 DEF Grab, settings, shared, loop, requests
    <3>2. CASE Duplicate
      BY <3>2 DEF Duplicate, Return, settings, shared, loop, requests
    <3>3. CASE Hash
      BY <3>3 DEF Hash, settings, loop, requests
    <3>4. CASE Encode
      BY <3>4 DEF Encode, Return, settings, shared, loop, requests
    <3>5. CASE Raise
      BY <3>5 DEF Raise, Return, settings, shared, loop, requests
    <3> QED BY <2>2, <3>1, <3>2, <3>3, <3>4, <3>5 DEF WorkerNext
  <2>3. CASE ScreenChanges
    BY <2>3 DEF ScreenChanges, shared, loop, thread, requests
  <2>4. ASSUME NEW r \in Call, RouteNext(r) PROVE RegionInv'
    <3>1. CASE StartRoute(r)
      BY <3>1 DEF StartRoute, Arrive, settings, shared, loop, thread, Progress
    <3>2. CASE StopRoute(r)
      BY <3>2 DEF StopRoute, Arrive, settings, loop, thread, Progress
    <3>3. ASSUME NEW reg \in Region, ConfigureRoute(r, reg) PROVE RegionInv'
      BY <3>3 DEF ConfigureRoute, Configuring, Arrive, loop, thread, Progress
    <3>4. CASE Start(r)
      BY <3>4 DEF Start, Turn, LockFree, settings, thread, Progress
    <3>5. CASE Stop(r)
      BY <3>5 DEF Stop, Turn, LockFree, settings, Progress
    <3>6. CASE Join(r)
      BY <3>6 DEF Join, settings, loop, thread, Progress
    <3> QED BY <2>4, <3>1, <3>2, <3>3, <3>4, <3>5, <3>6 DEF RouteNext
  <2>5. CASE UNCHANGED vars
    BY <2>5 DEF vars, settings, shared, loop, thread, requests
  <2> QED BY <2>1, <2>2, <2>3, <2>4, <2>5 DEF Next
<1>3. TypeOK /\ RegionInv => FramesOfRegion
  BY CaptureConstants
     DEF TypeOK, RegionInv, FramesOfRegion, Configuring, Cleared, Current
<1> QED BY <1>1, <1>2, <1>3, TypeCorrect, PTL DEF Spec

-----------------------------------------------------------------------------
Waiting == {"start", "stop", "restop", "restart"}

Holding == {"join", "rejoin"}

\* Who waits stands in line, once, and nobody else does.
InLine ==
  /\ \A i \in 1 .. Len(line) : call[line[i]] \in Waiting
  /\ \A i, j \in 1 .. Len(line) : line[i] = line[j] => i = j
  /\ \A r \in Call : call[r] \in Waiting => \E i \in 1 .. Len(line) : line[i] = r

\* One request holds the lock, and the task it awaits goes on no more.
OneHolder ==
  /\ \A q, r \in Call : call[q] \in Holding /\ call[r] \in Holding => q = r
  /\ \A r \in Call : call[r] \in Holding => ~Live

LockInv ==
  /\ call \in [Call -> Progress]
  /\ line \in Seq(Call)
  /\ task \in Task
  /\ InLine
  /\ OneHolder

\* A request that goes to the end of the line waits there.
LEMMA LinedUp ==
  ASSUME call \in [Call -> Progress], line \in Seq(Call), InLine,
         NEW r \in Call, call[r] \notin Waiting, NEW next \in Waiting,
         call' = [call EXCEPT ![r] = next], line' = Append(line, r)
  PROVE  InLine'
<1>1. /\ Len(line') = Len(line) + 1 /\ Len(line) \in Nat
      /\ line'[Len(line) + 1] = r
      /\ \A i \in 1 .. Len(line) : line'[i] = line[i] /\ line[i] \in Call
  OBVIOUS
<1>2. \A i \in 1 .. Len(line) : line[i] # r
  BY DEF InLine
<1>3. /\ \A q \in Call \ {r} : call'[q] = call[q]
      /\ call'[r] = next
  OBVIOUS
<1>4. \A i \in 1 .. Len(line') : i \in 1 .. Len(line) \/ i = Len(line) + 1
  BY <1>1
<1>5. \A i \in 1 .. Len(line') : call'[line'[i]] \in Waiting
  BY <1>1, <1>2, <1>3, <1>4 DEF InLine
<1>6. \A i, j \in 1 .. Len(line') : line'[i] = line'[j] => i = j
  BY <1>1, <1>2, <1>4 DEF InLine
<1>7. ASSUME NEW q \in Call, call'[q] \in Waiting
      PROVE  \E i \in 1 .. Len(line') : line'[i] = q
  <2>1. CASE q = r BY <2>1, <1>1
  <2>2. CASE q # r
    <3>1. PICK i \in 1 .. Len(line) : line[i] = q
      BY <1>3, <1>7, <2>2 DEF InLine
    <3> QED BY <3>1, <1>1
  <2> QED BY <2>1, <2>2
<1> QED BY <1>5, <1>6, <1>7 DEF InLine

\* A request whose turn it is leaves the line.
LEMMA TurnTaken ==
  ASSUME call \in [Call -> Progress], line \in Seq(Call), InLine,
         NEW r \in Call, Turn(r), NEW next, next \notin Waiting,
         call' = [call EXCEPT ![r] = next]
  PROVE  InLine'
<1>1. /\ Len(line) \in Nat \ {0} /\ r = line[1]
      /\ Len(line') = Len(line) - 1
      /\ \A i \in 1 .. Len(line') : line'[i] = line[i + 1] /\ line[i + 1] \in Call
  BY DEF Turn
<1>2. \A i \in 1 .. Len(line') : i + 1 \in 1 .. Len(line) /\ line[i + 1] # r
  BY <1>1 DEF InLine
<1>3. /\ \A q \in Call \ {r} : call'[q] = call[q]
      /\ call'[r] = next
  OBVIOUS
<1>4. \A i \in 1 .. Len(line') : call'[line'[i]] \in Waiting
  BY <1>1, <1>2, <1>3 DEF InLine
<1>5. ASSUME NEW i \in 1 .. Len(line'), NEW j \in 1 .. Len(line'), line'[i] = line'[j]
      PROVE  i = j
  <2>1. i + 1 = j + 1
    BY <1>1, <1>2, <1>5 DEF InLine
  <2> QED BY <2>1
<1>6. ASSUME NEW q \in Call, call'[q] \in Waiting
      PROVE  \E i \in 1 .. Len(line') : line'[i] = q
  <2>1. q # r
    BY <1>3, <1>6
  <2>2. PICK i \in 1 .. Len(line) : line[i] = q
    BY <1>3, <1>6, <2>1 DEF InLine
  <2>3. i - 1 \in 1 .. Len(line')
    BY <2>1, <2>2, <1>1
  <2>4. line'[i - 1] = line[(i - 1) + 1] /\ (i - 1) + 1 = i
    BY <2>3, <1>1
  <2>5. line'[i - 1] = q
    BY <2>2, <2>4
  <2> QED BY <2>3, <2>5, Zenon
<1> QED BY <1>4, <1>5, <1>6 DEF InLine

\* The capture and its thread leave the requests alone, and only Start gives
\* a task that has ended a new life.
LEMMA OthersKeepLock ==
  LockInv /\ (LoopNext \/ WorkerNext \/ ScreenChanges \/ UNCHANGED vars)
    /\ (wanted => task = "awaiting")
    => LockInv'
<1> SUFFICES ASSUME LockInv, wanted => task = "awaiting",
                    LoopNext \/ WorkerNext \/ ScreenChanges \/ UNCHANGED vars
             PROVE  LockInv'
  OBVIOUS
<1>1. call' = call /\ line' = line
  BY DEF LoopNext, Submit, Dispatch, TakeFrame, TakeDuplicate, TakeError, Unwind,
       WorkerNext, Grab, Duplicate, Hash, Encode, Raise, ScreenChanges, vars, requests
<1>2. task' \in Task /\ (~Live => ~Live')
  BY DEF LockInv, Live, Task, LoopNext, Submit, Dispatch, TakeFrame, TakeDuplicate,
       TakeError, Unwind, Continue, WorkerNext, Grab, Duplicate, Hash, Encode, Raise,
       Return, ScreenChanges, vars, loop
<1> QED BY <1>1, <1>2 DEF LockInv, InLine, OneHolder

\* The routes keep it.
LEMMA RoutesKeepLock ==
  ASSUME LockInv, NEW r \in Call, RouteNext(r)
  PROVE  LockInv'
<1> USE DEF LockInv
<1>1. ASSUME NEW next \in Waiting, Arrive(r, next), UNCHANGED task PROVE LockInv'
  <2>1. InLine'
    BY <1>1, LinedUp DEF Arrive, Waiting
  <2>2. OneHolder'
    BY <1>1 DEF Arrive, OneHolder, Waiting, Holding, Live
  <2> QED BY <1>1, <2>1, <2>2 DEF Arrive, Waiting, Progress
<1>2. CASE StartRoute(r)
  BY <1>1, <1>2 DEF StartRoute, loop, Waiting
<1>3. CASE StopRoute(r)
  BY <1>1, <1>3 DEF StopRoute, loop, Waiting
<1>4. ASSUME NEW reg \in Region, ConfigureRoute(r, reg) PROVE LockInv'
  BY <1>1, <1>4 DEF ConfigureRoute, loop, Waiting
<1>5. CASE Start(r)
  <2>1. InLine'
    <3>1. Turn(r) /\ call' = [call EXCEPT ![r] = "idle"]
      BY <1>5 DEF Start
    <3> QED BY <3>1, TurnTaken DEF Waiting
  <2>2. OneHolder'
    BY <1>5 DEF Start, Turn, LockFree, OneHolder, Holding
  <2> QED BY <1>5, <2>1, <2>2 DEF Start, Turn, Progress, Task
<1>6. CASE Stop(r)
  <2> DEFINE next == IF call[r] = "stop" THEN "join" ELSE "rejoin"
  <2>1. InLine'
    <3>1. Turn(r) /\ call' = [call EXCEPT ![r] = next] /\ next \notin Waiting
      BY <1>6 DEF Stop, Waiting
    <3> HIDE DEF next
    <3> QED BY <3>1, TurnTaken
  <2>2. OneHolder'
    BY <1>6 DEF Stop, Turn, LockFree, OneHolder, Holding, Live
  <2> QED BY <1>6, <2>1, <2>2 DEF Stop, Turn, Progress, Task
<1>7. CASE Join(r)
  <2>1. InLine'
    <3>1. CASE call[r] = "join"
      <4>1. line' = line /\ call' = [call EXCEPT ![r] = "idle"]
        BY <1>7, <3>1 DEF Join
      <4> QED BY <3>1, <4>1 DEF InLine, Waiting
    <3>2. CASE call[r] = "rejoin"
      <4>1. line' = Append(line, r) /\ call' = [call EXCEPT ![r] = "restart"]
        BY <1>7, <3>2 DEF Join
      <4> QED BY <3>2, <4>1, LinedUp DEF Waiting
    <3> QED BY <1>7, <3>1, <3>2 DEF Join
  <2>2. OneHolder'
    BY <1>7 DEF Join, OneHolder, Holding, Live, loop
  <2> QED BY <1>7, <2>1, <2>2 DEF Join, Progress, loop
<1> QED BY <1>2, <1>3, <1>4, <1>5, <1>6, <1>7 DEF RouteNext

(***************************************************************************)
(* No request is ever stuck: the lock is held only by a request whose task *)
(* will not go on, and while it is free the line is empty or led by a      *)
(* request that waits for it.                                              *)
(***************************************************************************)
THEOREM RequestsAreNeverStuck == Spec => []NobodyStuck
<1>1. Init => LockInv /\ LiveRuns
  BY DEF Init, LockInv, LiveRuns, InLine, OneHolder, Progress, Task, Waiting, Holding
<1>2. LockInv /\ LiveRuns /\ [Next]_vars => LockInv'
  BY OthersKeepLock, RoutesKeepLock DEF Next, LiveRuns
<1>3. LockInv => NobodyStuck
  <2> SUFFICES ASSUME LockInv, ~Settled PROVE NobodyStuck
    BY DEF NobodyStuck
  <2>1. CASE ~LockFree
    BY <2>1 DEF LockInv, OneHolder, Holding, LockFree, Live, Task, NobodyStuck
  <2>2. CASE LockFree
    <3>1. PICK r \in Call : call[r] \in Waiting
      BY <2>2 DEF Settled, LockFree, LockInv, Progress, Waiting
    <3>2. line # <<>> /\ call[Head(line)] \in Waiting
      BY <3>1 DEF LockInv, InLine
    <3> QED BY <2>2, <3>2 DEF NobodyStuck, Waiting
  <2> QED BY <2>1, <2>2
<1> QED BY <1>1, <1>2, <1>3, LiveRunsStep, PTL DEF Spec
=============================================================================
