--------------------------- MODULE MinerLifecycle ---------------------------
(***************************************************************************)
(* Starting, stopping and failing of runs (hansolo-engine lib.rs, run.rs). *)
(*                                                                         *)
(* Several threads call the handle.  Each start makes a run with threads   *)
(* of its own: a supervisor, which plans, spawns the devices and then      *)
(* drives the connection, a sampler, and the devices.  A run is told to    *)
(* end by its stop flag and cancel channel and winds down in the           *)
(* background, while the next one may already be starting.                 *)
(*                                                                         *)
(* Two mutexes are modelled by their owners: run (the handle of the live   *)
(* run) and state (the snapshot).  The epoch is an atomic, read under the  *)
(* state lock but bumped under the run lock only, so an update of a run    *)
(* has two steps: take the lock and compare the epoch; write and release.  *)
(***************************************************************************)
EXTENDS Naturals, FiniteSets

CONSTANTS
    Callers,  \* threads that hold a clone of the handle
    MaxRuns   \* bound: runs started

ASSUME MaxRunsAssumption == MaxRuns \in Nat

Runs == 1..MaxRuns
NoOne == <<"no one", 0>>
CallerId(c) == <<"caller", c>>
SupId(k) == <<"supervisor", k>>
SamplerId(k) == <<"sampler", k>>

VARIABLES
    \* Shared
    epoch,       \* bumped by every start, stop and failure
    runLock,     \* owner of the run mutex
    run,         \* the handle in it: a run, or 0 for None
    stateLock,   \* owner of the state mutex
    snap,        \* the snapshot behind it
    \* The thread that holds the run lock
    callerpc,    \* caller: "idle", "start", "reset", "spawn", "stop"
    closing,     \* RunHandle::shutdown: "no", "held", "bump", "flag", "empty", "cancel"
    victim,      \* the run being shut down, or 0
    \* Per run
    started,     \* number of runs created
    runEpoch,    \* RunCtx::epoch
    stopFlag, cancelled,
    cell,        \* the work cell holds work
    sup,         \* the supervisor's position
    pending,     \* the update it is making, or "none"
    tried,       \* it has attempted a connection
    sampler,     \* "off", "on", "write" (holds the state lock)
    devices,     \* "none", "running", "ended"
    detector,    \* the detect_hardware thread: "off", "probing", "write"
    \* History
    shown,       \* the run of the last reset of the snapshot
    spawnFailed  \* the last start could not spawn its supervisor

handleVars == <<epoch, runLock, run, callerpc, closing, victim, started, runEpoch, spawnFailed>>
stateVars == <<stateLock, snap, shown>>
ctlVars == <<stopFlag, cancelled>>
supVars == <<sup, pending, tried>>
workVars == <<cell, sampler, devices, detector>>
vars == <<handleVars, stateVars, ctlVars, supVars, workVars>>

Stages == {"Detecting", "Benchmarking", "Connecting", "Mining", "Reconnecting"}
Updates == {"benchmarking", "devices", "connecting", "reconnecting", "connected",
            "mining", "lost", "error"}

\* Where a supervisor is.
Positions == {"off", "plan", "spawn", "runtime", "head", "dial", "session", "cellset", "lost",
              "fail", "failing", "clear", "done"}

\* snapshot.hardware: 0 at first, the run whose plan it shows, or this.
Detected == MaxRuns + 1

Init ==
    /\ epoch = 0 /\ runLock = NoOne /\ run = 0
    /\ stateLock = NoOne
    /\ snap = [status |-> "Stopped", connected |-> FALSE, hashing |-> FALSE, hardware |-> 0]
    /\ callerpc = [c \in Callers |-> "idle"]
    /\ closing = "no" /\ victim = 0
    /\ started = 0
    /\ runEpoch = [k \in Runs |-> 0]
    /\ stopFlag = [k \in Runs |-> FALSE]
    /\ cancelled = [k \in Runs |-> FALSE]
    /\ cell = [k \in Runs |-> FALSE]
    /\ sup = [k \in Runs |-> "off"]
    /\ pending = [k \in Runs |-> "none"]
    /\ tried = [k \in Runs |-> FALSE]
    /\ sampler = [k \in Runs |-> "off"]
    /\ devices = [k \in Runs |-> "none"]
    /\ detector = "off"
    /\ shown = 0
    /\ spawnFailed = FALSE

-----------------------------------------------------------------------------
(* Callers of the handle. *)

\* run.take(): the holder of the run lock now owns the handle.
Take == victim' = run /\ run' = 0

StartLock(c) ==
    /\ callerpc[c] = "idle" /\ runLock = NoOne
    /\ started < MaxRuns
    /\ runLock' = CallerId(c)
    /\ callerpc' = [callerpc EXCEPT ![c] = "start"]
    /\ IF run # 0 THEN Take /\ closing' = "bump" ELSE UNCHANGED <<run, victim, closing>>
    /\ UNCHANGED <<epoch, started, runEpoch, spawnFailed, stateVars, ctlVars, supVars, workVars>>

\* Mutant: the run is given the counter's value from before the bump.
OldEpoch == epoch

\* epoch.fetch_add(1) + 1
NewEpoch == epoch + 1

Create(c) ==
    /\ callerpc[c] = "start" /\ closing = "no"
    /\ callerpc' = [callerpc EXCEPT ![c] = "reset"]
    /\ started' = started + 1
    /\ epoch' = epoch + 1
    /\ runEpoch' = [runEpoch EXCEPT ![started + 1] = NewEpoch]
    /\ spawnFailed' = FALSE
    /\ UNCHANGED <<runLock, run, closing, victim, stateVars, ctlVars, supVars, workVars>>

\* Shared::update: the snapshot is reset; log, hardware and best-ever stay.
Reset(c) ==
    /\ callerpc[c] = "reset" /\ stateLock = NoOne
    /\ callerpc' = [callerpc EXCEPT ![c] = "spawn"]
    /\ snap' = [snap EXCEPT !.status = "Detecting", !.connected = FALSE, !.hashing = FALSE]
    /\ shown' = started
    /\ UNCHANGED <<epoch, runLock, run, closing, victim, started, runEpoch, spawnFailed,
                   stateLock, ctlVars, supVars, workVars>>

\* The supervisor may run before *run = Some(handle), but reads it only under
\* the lock, so the two are one step.
Spawn(c) ==
    /\ callerpc[c] = "spawn"
    /\ callerpc' = [callerpc EXCEPT ![c] = "idle"]
    /\ run' = started
    /\ sup' = [sup EXCEPT ![started] = "plan"]
    /\ runLock' = NoOne
    /\ UNCHANGED <<epoch, closing, victim, started, runEpoch, spawnFailed, stateVars,
                   ctlVars, pending, tried, workVars>>

\* The thread cannot be spawned: start returns the error with the lock free.
SpawnFails(c) ==
    /\ callerpc[c] = "spawn"
    /\ callerpc' = [callerpc EXCEPT ![c] = "idle"]
    /\ spawnFailed' = TRUE
    /\ runLock' = NoOne
    /\ UNCHANGED <<epoch, run, closing, victim, started, runEpoch, stateVars, ctlVars,
                   supVars, workVars>>

\* stop() without a run returns at once and is not a step.
StopLock(c) ==
    /\ callerpc[c] = "idle" /\ runLock = NoOne
    /\ run # 0
    /\ runLock' = CallerId(c)
    /\ callerpc' = [callerpc EXCEPT ![c] = "stop"]
    /\ Take /\ closing' = "bump"
    /\ UNCHANGED <<epoch, started, runEpoch, spawnFailed, stateVars, ctlVars, supVars, workVars>>

StopReport(c) ==
    /\ callerpc[c] = "stop" /\ closing = "no"
    /\ stateLock = NoOne
    /\ callerpc' = [callerpc EXCEPT ![c] = "idle"]
    /\ snap' = [snap EXCEPT !.status = "Stopped", !.connected = FALSE, !.hashing = FALSE]
    /\ runLock' = NoOne
    /\ UNCHANGED <<epoch, run, closing, victim, started, runEpoch, spawnFailed, stateLock,
                   shown, ctlVars, supVars, workVars>>

-----------------------------------------------------------------------------
(* RunHandle::shutdown, by whoever holds the run lock and took the handle.  *)
(* start and stop bump the epoch before it, fail after its own last update. *)

CloseBump ==
    /\ closing = "bump"
    /\ epoch' = epoch + 1
    /\ closing' = "flag"
    /\ UNCHANGED <<runLock, run, callerpc, victim, started, runEpoch, spawnFailed, stateVars,
                   ctlVars, supVars, workVars>>

\* stop.store(true)
CloseFlag ==
    /\ closing = "flag"
    /\ stopFlag' = [stopFlag EXCEPT ![victim] = TRUE]
    /\ closing' = "empty"
    /\ UNCHANGED <<epoch, runLock, run, callerpc, victim, started, runEpoch, spawnFailed,
                   stateVars, cancelled, supVars, workVars>>

\* work.set(None): both halves of the set; DeviceWorkers has them apart.
CloseEmpty ==
    /\ closing = "empty"
    /\ cell' = [cell EXCEPT ![victim] = FALSE]
    /\ closing' = "cancel"
    /\ UNCHANGED <<epoch, runLock, run, callerpc, victim, started, runEpoch, spawnFailed,
                   stateVars, ctlVars, supVars, sampler, devices, detector>>

\* Mutant: the message is not sent.
NotSent == cancelled

\* cancel.send(true)
Sent == [cancelled EXCEPT ![victim] = TRUE]

CloseCancel ==
    /\ closing = "cancel"
    /\ cancelled' = Sent
    /\ closing' = "no" /\ victim' = 0
    /\ UNCHANGED <<epoch, runLock, run, callerpc, started, runEpoch, spawnFailed, stateVars,
                   stopFlag, supVars, workVars>>

-----------------------------------------------------------------------------
(* RunCtx::update by the supervisor of run k. *)

\* Mutant: the epoch is not compared.
AlwaysCurrent(k) == TRUE

IsCurrent(k) == epoch = runEpoch[k]

Stopping(k) == stopFlag[k] \/ ~IsCurrent(k)

\* The supervisor of k is at p, and not inside an update.
At(k, p) == sup[k] = p /\ pending[k] = "none"

Goto(k, p) == sup' = [sup EXCEPT ![k] = p]

\* It makes update u and goes on at p.
Updating(k, u, p) ==
    /\ pending' = [pending EXCEPT ![k] = u]
    /\ Goto(k, p)

\* Back from update.  fail goes on to bump the epoch and shut its handle down.
Updated(k) ==
    /\ pending' = [pending EXCEPT ![k] = "none"]
    /\ closing' = IF pending[k] = "error" THEN "bump" ELSE closing

UpdateLock(k) ==
    /\ pending[k] # "none" /\ stateLock = NoOne
    /\ IF IsCurrent(k)
       THEN stateLock' = SupId(k) /\ UNCHANGED <<pending, closing>>
       ELSE Updated(k) /\ UNCHANGED stateLock
    /\ UNCHANGED <<epoch, runLock, run, callerpc, victim, started, runEpoch, spawnFailed,
                   snap, shown, ctlVars, sup, tried, workVars>>

Applied(u, k) ==
    CASE u = "benchmarking" ->
           IF snap.status = "Detecting" THEN [snap EXCEPT !.status = "Benchmarking"] ELSE snap
      [] u = "devices"      -> [snap EXCEPT !.hardware = k, !.status = "Connecting"]
      [] u = "connecting"   -> [snap EXCEPT !.status = "Connecting"]
      [] u = "reconnecting" -> [snap EXCEPT !.status = "Reconnecting"]
      [] u = "connected"    -> [snap EXCEPT !.connected = TRUE]
      [] u = "mining"       -> [snap EXCEPT !.status = "Mining"]
      [] u = "lost"         -> [snap EXCEPT !.connected = FALSE]
      [] u = "error"        -> [snap EXCEPT !.status = "Error", !.connected = FALSE]

\* Mutant: the guard outlives the closure.
KeepStateLock == UNCHANGED stateLock

DropStateLock == stateLock' = NoOne

UpdateWrite(k) ==
    /\ pending[k] # "none" /\ stateLock = SupId(k)
    /\ snap' = Applied(pending[k], k)
    /\ DropStateLock
    /\ Updated(k)
    /\ UNCHANGED <<epoch, runLock, run, callerpc, victim, started, runEpoch, spawnFailed,
                   shown, ctlVars, sup, tried, workVars>>

-----------------------------------------------------------------------------
(* The supervisor. *)

\* hansolo_hash::plan reports a line that mentions a benchmark.
Benchmark(k) ==
    /\ At(k, "plan")
    /\ Updating(k, "benchmarking", "plan")
    /\ UNCHANGED <<handleVars, stateVars, ctlVars, tried, workVars>>

Planned(k) ==
    /\ At(k, "plan")
    /\ IF Stopping(k)
       THEN Goto(k, "done") /\ UNCHANGED pending
       ELSE Updating(k, "devices", "spawn")
    /\ UNCHANGED <<handleVars, stateVars, ctlVars, tried, workVars>>

SpawnDevices(k) ==
    /\ At(k, "spawn")
    /\ devices' = [devices EXCEPT ![k] = "running"]
    /\ Goto(k, "runtime")
    /\ UNCHANGED <<handleVars, stateVars, ctlVars, pending, tried, cell, sampler, detector>>

RuntimeReady(k) ==
    /\ At(k, "runtime")
    /\ sampler' = [sampler EXCEPT ![k] = "on"]
    /\ Goto(k, "head")
    /\ UNCHANGED <<handleVars, stateVars, ctlVars, pending, tried, cell, devices, detector>>

RuntimeFails(k) ==
    /\ At(k, "runtime")
    /\ Goto(k, "fail")
    /\ UNCHANGED <<handleVars, stateVars, ctlVars, pending, tried, workVars>>

\* Top of the connection loop.  The back-off is part of the dialling below.
Attempt(k) ==
    /\ At(k, "head")
    /\ Updating(k, IF tried[k] THEN "reconnecting" ELSE "connecting", "dial")
    /\ tried' = [tried EXCEPT ![k] = TRUE]
    /\ UNCHANGED <<handleVars, stateVars, ctlVars, workVars>>

Connect(k) ==
    /\ At(k, "dial")
    /\ Updating(k, "connected", "session")
    /\ UNCHANGED <<handleVars, stateVars, ctlVars, tried, workVars>>

DialFails(k) ==
    /\ At(k, "dial")
    /\ Goto(k, "lost")
    /\ UNCHANGED <<handleVars, stateVars, ctlVars, pending, tried, workVars>>

\* RunCtx::publish: a job from the pool, a template from the node.
PublishCheck(k) ==
    /\ At(k, "session")
    /\ ~Stopping(k)
    /\ Updating(k, "mining", "cellset")
    /\ UNCHANGED <<handleVars, stateVars, ctlVars, tried, workVars>>

\* Its last line; the run may have been stopped since the check.
PublishSet(k) ==
    /\ At(k, "cellset")
    /\ cell' = [cell EXCEPT ![k] = TRUE]
    /\ Goto(k, "session")
    /\ UNCHANGED <<handleVars, stateVars, ctlVars, pending, tried, sampler, devices, detector>>

Lost(k) ==
    /\ At(k, "session")
    /\ Goto(k, "lost")
    /\ UNCHANGED <<handleVars, stateVars, ctlVars, pending, tried, workVars>>

\* Work that cannot be built from the pool's job; the node is on another chain.
Incompatible(k) ==
    /\ At(k, "session")
    /\ Goto(k, "fail")
    /\ UNCHANGED <<handleVars, stateVars, ctlVars, pending, tried, workVars>>

\* After a session: clear_work, then the update that reports the loss.
ClearLost(k) ==
    /\ At(k, "lost")
    /\ cell' = [cell EXCEPT ![k] = FALSE]
    /\ Updating(k, "lost", "head")
    /\ UNCHANGED <<handleVars, stateVars, ctlVars, tried, sampler, devices, detector>>

\* Where fail returns to.  A failed session may end or go on (republish); the
\* node client then waits to be cancelled, one of the things a session may do.
AfterFail(k) == IF tried[k] THEN {"lost", "session"} ELSE {"done"}

\* Mutant: fail takes whatever handle is there.
AnyRun(k) == run # 0

\* run.as_ref().is_some_and(|h| h.epoch == self.epoch)
OwnsHandle(k) == run # 0 /\ runEpoch[run] = runEpoch[k]

FailLock(k) ==
    /\ At(k, "fail")
    /\ runLock = NoOne
    /\ IF OwnsHandle(k)
       THEN /\ runLock' = SupId(k)
            /\ Take /\ closing' = "held"
            /\ Updating(k, "error", "failing")
       ELSE /\ \E p \in AfterFail(k) : Goto(k, p)
            /\ UNCHANGED <<runLock, run, victim, closing, pending>>
    /\ UNCHANGED <<epoch, callerpc, started, runEpoch, spawnFailed, stateVars, ctlVars,
                   tried, workVars>>

FailUnlock(k) ==
    /\ At(k, "failing")
    /\ closing = "no"
    /\ runLock' = NoOne
    /\ \E p \in AfterFail(k) : Goto(k, p)
    /\ UNCHANGED <<epoch, run, callerpc, closing, victim, started, runEpoch, spawnFailed,
                   stateVars, ctlVars, pending, tried, workVars>>

\* select! drops the source wherever it waits; the sampler is aborted, or ends
\* after the update it is in.
Cancelled(k) ==
    /\ At(k, "dial") \/ At(k, "session")
    /\ cancelled[k]
    /\ Goto(k, "clear")
    /\ sampler' = [sampler EXCEPT ![k] = IF @ = "on" THEN "off" ELSE @]
    /\ UNCHANGED <<handleVars, stateVars, ctlVars, pending, tried, cell, devices, detector>>

\* Mutant: the supervisor ends without clearing its work.
KeepWork(k) == UNCHANGED cell

ClearWork(k) == cell' = [cell EXCEPT ![k] = FALSE]

\* The supervisor's last line.
FinalClear(k) ==
    /\ At(k, "clear")
    /\ ClearWork(k)
    /\ Goto(k, "done")
    /\ UNCHANGED <<handleVars, stateVars, ctlVars, pending, tried, sampler, devices, detector>>

-----------------------------------------------------------------------------
(* The other threads. *)

SampleLock(k) ==
    /\ sampler[k] = "on"
    /\ stateLock = NoOne
    /\ IsCurrent(k) /\ ~stopFlag[k]
    /\ stateLock' = SamplerId(k)
    /\ sampler' = [sampler EXCEPT ![k] = "write"]
    /\ UNCHANGED <<handleVars, snap, shown, ctlVars, supVars, cell, devices, detector>>

SampleWrite(k) ==
    /\ sampler[k] = "write"
    /\ snap' = [snap EXCEPT !.hashing = TRUE]
    /\ DropStateLock
    /\ sampler' = [sampler EXCEPT ![k] = IF sup[k] \in {"clear", "done"} THEN "off" ELSE "on"]
    /\ UNCHANGED <<handleVars, shown, ctlVars, supVars, cell, devices, detector>>

SampleStops(k) ==
    /\ sampler[k] = "on"
    /\ Stopping(k)
    /\ sampler' = [sampler EXCEPT ![k] = "off"]
    /\ UNCHANGED <<handleVars, stateVars, ctlVars, supVars, cell, devices, detector>>

\* The devices end at the stop flag: StopEndsThreads of DeviceWorkers.
DevicesEnd(k) ==
    /\ devices[k] = "running" /\ stopFlag[k]
    /\ devices' = [devices EXCEPT ![k] = "ended"]
    /\ UNCHANGED <<handleVars, stateVars, ctlVars, supVars, cell, sampler, detector>>

Detect ==
    /\ detector = "off"
    /\ detector' = "probing"
    /\ UNCHANGED <<handleVars, stateVars, ctlVars, supVars, cell, sampler, devices>>

\* if shared.run.lock().is_none(): the lock is free again after the condition.
DetectCheck ==
    /\ detector = "probing"
    /\ runLock = NoOne
    /\ detector' = IF run = 0 THEN "write" ELSE "off"
    /\ UNCHANGED <<handleVars, stateVars, ctlVars, supVars, cell, sampler, devices>>

DetectWrite ==
    /\ detector = "write"
    /\ stateLock = NoOne
    /\ snap' = [snap EXCEPT !.hardware = Detected]
    /\ detector' = "off"
    /\ UNCHANGED <<handleVars, stateLock, shown, ctlVars, supVars, cell, sampler, devices>>

-----------------------------------------------------------------------------
Caller(c) ==
    StartLock(c) \/ Create(c) \/ Reset(c) \/ Spawn(c) \/ SpawnFails(c) \/ StopLock(c) \/ StopReport(c)

Close == CloseBump \/ CloseFlag \/ CloseEmpty \/ CloseCancel

\* What the supervisor does of itself, and what the network does to it.
SupWork(k) ==
    \/ SpawnDevices(k) \/ RuntimeReady(k) \/ RuntimeFails(k) \/ Attempt(k)
    \/ PublishSet(k) \/ ClearLost(k) \/ FailUnlock(k) \/ FinalClear(k) \/ UpdateWrite(k)
NetEvent(k) == Connect(k) \/ DialFails(k) \/ PublishCheck(k) \/ Lost(k) \/ Incompatible(k)

Sampling(k) == SampleLock(k) \/ SampleWrite(k) \/ SampleStops(k)
Detecting == Detect \/ DetectCheck \/ DetectWrite

RunStep(k) ==
    \/ Benchmark(k) \/ Planned(k) \/ SupWork(k) \/ NetEvent(k)
    \/ UpdateLock(k) \/ FailLock(k) \/ Cancelled(k) \/ Sampling(k) \/ DevicesEnd(k)

Next == (\E c \in Callers : Caller(c)) \/ Close \/ (\E k \in Runs : RunStep(k)) \/ Detecting

\* Threads run.  parking_lot's mutexes are eventually fair, so whoever keeps
\* asking for one gets it; select! polls the cancel branch whenever the source
\* waits; planning ends, for every probe and benchmark is timed.  Nobody has to
\* start or stop, and no network event has to happen.
Fairness ==
    /\ \A c \in Callers :
         /\ WF_vars(Create(c)) /\ WF_vars(Spawn(c) \/ SpawnFails(c))
         /\ SF_vars(Reset(c)) /\ SF_vars(StopReport(c))
    /\ WF_vars(Close)
    /\ \A k \in Runs :
         /\ SF_vars(Planned(k)) /\ WF_vars(SupWork(k))
         /\ SF_vars(UpdateLock(k)) /\ SF_vars(FailLock(k)) /\ SF_vars(Cancelled(k))
         /\ WF_vars(SampleWrite(k)) /\ WF_vars(DevicesEnd(k))

Spec == Init /\ [][Next]_vars /\ Fairness

-----------------------------------------------------------------------------
(* Properties. *)

HandleTypes ==
    /\ epoch \in Nat
    /\ runLock \in {NoOne} \cup {CallerId(c) : c \in Callers} \cup {SupId(k) : k \in Runs}
    /\ run \in 0..MaxRuns /\ victim \in 0..MaxRuns /\ started \in 0..MaxRuns
    /\ callerpc \in [Callers -> {"idle", "start", "reset", "spawn", "stop"}]
    /\ closing \in {"no", "held", "bump", "flag", "empty", "cancel"}
    /\ runEpoch \in [Runs -> Nat]
    /\ spawnFailed \in BOOLEAN

StateTypes ==
    /\ stateLock \in {NoOne} \cup {SupId(k) : k \in Runs} \cup {SamplerId(k) : k \in Runs}
    /\ snap \in [status : Stages \cup {"Stopped", "Error"}, connected : BOOLEAN,
                 hashing : BOOLEAN, hardware : 0..Detected]
    /\ shown \in 0..MaxRuns

RunTypes ==
    /\ stopFlag \in [Runs -> BOOLEAN] /\ cancelled \in [Runs -> BOOLEAN]
    /\ cell \in [Runs -> BOOLEAN] /\ tried \in [Runs -> BOOLEAN]
    /\ sup \in [Runs -> Positions]
    /\ pending \in [Runs -> Updates \cup {"none"}]
    /\ sampler \in [Runs -> {"off", "on", "write"}]
    /\ devices \in [Runs -> {"none", "running", "ended"}]
    /\ detector \in {"off", "probing", "write"}

\* A lock is held only inside its holder's critical section.
LocksHeldInside ==
    \A k \in Runs :
        /\ stateLock = SupId(k) => pending[k] # "none"
        /\ stateLock = SamplerId(k) <=> sampler[k] = "write"
        /\ runLock = SupId(k) <=> sup[k] = "failing"

TypeOK == HandleTypes /\ StateTypes /\ RunTypes /\ LocksHeldInside

\* The run the handle can stop is the only one whose updates count and whose
\* devices have not been told to stop: every earlier run is muted and flagged
\* before the run lock is given back, whichever of start, stop and fail ended it.
LiveRunHasVoice ==
    runLock = NoOne =>
        \A k \in 1..started :
            IF k = run THEN IsCurrent(k) /\ ~stopFlag[k]
            ELSE sup[k] = "off" \/ (~IsCurrent(k) /\ stopFlag[k] /\ cancelled[k])

\* "Epoch first: from here on the old run cannot overwrite what we write"
\* (lib.rs): with no run in the handle the snapshot says so and stays so, in the
\* face of updates that were under way when the run ended.
IdleSnapshot ==
    runLock = NoOne /\ run = 0 /\ ~spawnFailed =>
        /\ snap.status \in {"Stopped", "Error"}
        /\ ~snap.connected
        /\ snap.status = "Stopped" => ~snap.hashing

\* The epoch is compared before the write and can be bumped in between; still,
\* no run ever writes into a snapshot that was reset for another.
WritesAreOwn ==
    \A k \in Runs : stateLock \in {SupId(k), SamplerId(k)} => shown = k

\* A supervisor that has returned left an empty cell behind, even when the run
\* was stopped between publish's check and its last line.
FinishedRunIdles == \A k \in Runs : sup[k] = "done" => ~cell[k]

\* What the handle promises, with the mutexes, epochs and threads hidden.
Handle == INSTANCE MinerHandle WITH status <- snap.status
RefinesHandle == Handle!Spec

\* A run told to stop winds down, in whatever it is: its supervisor returns and
\* its devices end.  With the lock order run before state, nobody waits for ever.
StopWindsDown ==
    \A k \in Runs : stopFlag[k] ~> sup[k] \in {"off", "done"} /\ devices[k] # "running"

\* A run that meets an error it cannot recover from does end, although its own
\* supervisor gives the order; if its handle was taken meanwhile, the taker does.
FailedRunEnds == \A k \in Runs : sup[k] = "fail" ~> sup[k] = "done" /\ devices[k] # "running"

\* "A running miner owns `hardware` (its report includes benchmarks)" (lib.rs):
\* a detection does not replace the report of the run in the handle.
RunOwnsHardware ==
    [][\A k \in Runs : run = k /\ snap.hardware = k => snap'.hardware # Detected]_vars
=============================================================================
