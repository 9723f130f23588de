------------------------ MODULE MinerLifecycleProofs ------------------------
(***************************************************************************)
(* What TLAPS proves of MinerLifecycle, for any number of callers and runs: *)
(* its safety properties, and that it implements MinerHandle.              *)
(***************************************************************************)
EXTENDS MinerLifecycle, TLAPS

\* How far a supervisor has come, and what that says of its run.
PathInv ==
    \A k \in Runs :
        /\ sup[k] = "off" => pending[k] = "none" /\ ~stopFlag[k]
        /\ sup[k] \in {"off", "plan", "spawn", "runtime"} => ~tried[k] /\ sampler[k] = "off"
        /\ sup[k] \in {"dial", "session", "cellset", "lost", "clear"} => tried[k]
        /\ pending[k] = "benchmarking" => sup[k] = "plan"
        /\ pending[k] = "devices" => sup[k] = "spawn"
        /\ pending[k] \in {"connecting", "reconnecting", "connected", "mining", "lost"} => tried[k]
        /\ cell[k] => tried[k]
        /\ sup[k] = "done" => ~cell[k]

\* Who holds the run lock, and what its holder has done with the handle.
LockInv ==
    /\ \A c \in Callers : callerpc[c] # "idle" <=> runLock = CallerId(c)
    /\ runLock # NoOne => run = 0
    /\ closing # "no" <=> victim # 0
    /\ closing # "no" => runLock # NoOne
    /\ closing = "held" => runLock = SupId(victim) /\ pending[victim] = "error"
    /\ \A c \in Callers : callerpc[c] \in {"reset", "spawn"} => closing = "no"
    /\ \A c \in Callers : callerpc[c] = "start" => started < MaxRuns
    /\ \A k \in Runs : pending[k] = "error" => closing = "held" /\ sup[k] = "failing"
    /\ \A k \in Runs : sup[k] = "failing" /\ pending[k] # "none" => pending[k] = "error"

\* Each run's epoch is higher than that of the runs before it.
EpochInv ==
    /\ \A k \in 1..started : runEpoch[k] <= epoch
    /\ \A j, k \in 1..started : j < k => runEpoch[j] < runEpoch[k]
    /\ \A k \in Runs : k > started => sup[k] = "off"

\* The run in the handle is the last one and is current; one that is being shut
\* down stays current until the bump; all others are muted and told to stop.
LiveInv ==
    /\ run # 0 => run = started /\ IsCurrent(run) /\ ~stopFlag[run] /\ sup[run] # "off"
    /\ victim # 0 => /\ victim = started /\ sup[victim] # "off"
                     /\ IsCurrent(victim) <=> closing \in {"held", "bump"}
                     /\ stopFlag[victim] <=> closing \in {"empty", "cancel"}
    /\ \A c \in Callers : callerpc[c] \in {"reset", "spawn"} =>
          started # 0 /\ sup[started] = "off" /\ IsCurrent(started)
    /\ \A k \in 1..started : k # run /\ k # victim =>
          sup[k] = "off" \/ (~IsCurrent(k) /\ stopFlag[k] /\ cancelled[k])
    /\ \A k \in Runs : sup[k] = "failing" => k = started

\* The snapshot was reset for the last run, unless its start is about to do so;
\* whoever may write into it belongs to that run.
ShownInv ==
    /\ \A c \in Callers : callerpc[c] = "reset" => started = shown + 1
    /\ (\A c \in Callers : callerpc[c] # "reset") => shown = started
    /\ WritesAreOwn

\* While a run is failing, and once no run is left, no supervisor is about to
\* write; after a stop no sampler is either.
IdleInv ==
    /\ IdleSnapshot
    /\ runLock = NoOne /\ run = 0 /\ ~spawnFailed =>
         /\ \A k \in Runs : stateLock # SupId(k)
         /\ snap.status = "Stopped" => stateLock = NoOne
    /\ \A k \in Runs : sup[k] = "failing" /\ closing # "held" =>
         snap.status = "Error" /\ ~snap.connected

\* The stages in which the snapshot can be when supervisor k is where it is.
Stage(k) ==
    IF sup[k] = "plan" \/ pending[k] = "devices" THEN {"Detecting", "Benchmarking"}
    ELSE IF ~tried[k] \/ pending[k] = "connecting" THEN {"Connecting"}
    ELSE {"Connecting", "Mining", "Reconnecting"}

\* Supervisor k may write, or is writing, a status; not after its own error.
Speaks(k) ==
    /\ sup[k] # "off"
    /\ IsCurrent(k) \/ stateLock = SupId(k)
    /\ sup[k] = "failing" => pending[k] # "none"

StatusInv ==
    /\ \A k \in Runs : Speaks(k) => snap.status \in Stage(k)
    /\ \A c \in Callers : callerpc[c] = "spawn" => snap.status = "Detecting"
    /\ \A c \in Callers : callerpc[c] = "stop" => snap.status \in Stages

Types == HandleTypes /\ StateTypes /\ RunTypes /\ LocksHeldInside
RunsInv == PathInv /\ LockInv /\ EpochInv /\ LiveInv
IndInv == Types /\ RunsInv /\ ShownInv /\ IdleInv /\ StatusInv

-----------------------------------------------------------------------------
\* The names of threads tell them apart.
LEMMA Ids ==
  /\ \A c : CallerId(c) # NoOne
  /\ \A k : SupId(k) # NoOne
  /\ \A k : SamplerId(k) # NoOne
  /\ \A c, d : CallerId(c) = CallerId(d) => c = d
  /\ \A j, k : SupId(j) = SupId(k) => j = k
  /\ \A j, k : SamplerId(j) = SamplerId(k) => j = k
  /\ \A c, k : CallerId(c) # SupId(k)
  /\ \A j, k : SamplerId(j) # SupId(k)
  BY DEF CallerId, SupId, SamplerId, NoOne

\* Of the runs that do anything only the last one can be current.
LEMMA LastIsCurrent ==
  ASSUME HandleTypes, EpochInv, LiveInv, NEW k \in Runs, sup[k] # "off", IsCurrent(k)
  PROVE  k = started /\ (k = run \/ k = victim)
  <1>1. k \in 1..started
    BY DEF HandleTypes, EpochInv, Runs
  <1> QED
    BY <1>1 DEF HandleTypes, LiveInv

\* fail recognises its handle by the epoch: it is that of its own run.
LEMMA OwnerIsRun ==
  ASSUME HandleTypes, EpochInv, LiveInv, NEW k \in Runs, sup[k] # "off", OwnsHandle(k)
  PROVE  run # 0 /\ k = run
  <1>1. run # 0 /\ run = started /\ IsCurrent(k)
    BY DEF OwnsHandle, LiveInv, IsCurrent
  <1> QED
    BY <1>1, LastIsCurrent

\* A start goes on only while there is a run to number.
LEMMA HandleTypesKept ==
  ASSUME HandleTypes, LockInv, [Next]_vars
  PROVE  HandleTypes'
  <1> USE Ids, MaxRunsAssumption
      DEF HandleTypes, LockInv, handleVars, stateVars, ctlVars, supVars, workVars, Take, At,
          Goto, Updating, Updated, DropStateLock, Sent, ClearWork, NewEpoch, Runs
  <1>1. ASSUME NEW c \in Callers, Caller(c)
        PROVE  HandleTypes'
    <2>1. CASE StartLock(c)
      BY <2>1 DEF StartLock
    <2>2. CASE Create(c)
      <3>1. started + 1 \in 0..MaxRuns /\ epoch + 1 \in Nat
        BY <2>2 DEF Create
      <3> QED
        BY <2>2, <3>1 DEF Create
    <2>3. CASE Reset(c)
      BY <2>3 DEF Reset
    <2>4. CASE Spawn(c)
      BY <2>4 DEF Spawn
    <2>5. CASE SpawnFails(c)
      BY <2>5 DEF SpawnFails
    <2>6. CASE StopLock(c)
      BY <2>6 DEF StopLock
    <2>7. CASE StopReport(c)
      BY <2>7 DEF StopReport
    <2> QED
      BY ONLY <2>1, <2>2, <2>3, <2>4, <2>5, <2>6, <2>7, <1>1 DEF Caller
  <1>2. CASE Close \/ Detecting \/ UNCHANGED vars
    <2>1. CASE CloseBump
      BY <2>1 DEF CloseBump
    <2>2. CASE CloseFlag
      BY <2>2 DEF CloseFlag
    <2>3. CASE CloseEmpty
      BY <2>3 DEF CloseEmpty
    <2>4. CASE CloseCancel
      BY <2>4 DEF CloseCancel
    <2>5. CASE Detect \/ DetectCheck \/ DetectWrite \/ UNCHANGED vars
      <3>1. UNCHANGED <<epoch, runLock, run, victim, started, callerpc, closing, runEpoch, spawnFailed>>
        BY ONLY <2>5 DEF Detect, DetectCheck, DetectWrite, vars
      <3> QED
        BY ONLY <3>1, HandleTypes
    <2> QED
      BY ONLY <2>1, <2>2, <2>3, <2>4, <2>5, <1>2 DEF Close, Detecting
  <1>3. ASSUME NEW k \in Runs, RunStep(k)
        PROVE  HandleTypes'
    <2>1. CASE UpdateLock(k)
      BY <2>1 DEF UpdateLock, IsCurrent
    <2>2. CASE UpdateWrite(k)
      BY <2>2 DEF UpdateWrite, Applied, Updates, Stages
    <2>3. CASE FailLock(k)
      BY <2>3 DEF FailLock, AfterFail, OwnsHandle
    <2>4. CASE FailUnlock(k)
      BY <2>4 DEF FailUnlock, AfterFail
    <2>5. CASE Benchmark(k) \/ Planned(k) \/ SpawnDevices(k) \/ RuntimeReady(k) \/
        RuntimeFails(k) \/ Attempt(k) \/ Connect(k) \/ DialFails(k) \/ PublishCheck(k) \/
        PublishSet(k) \/ Lost(k) \/ Incompatible(k) \/ ClearLost(k) \/ Cancelled(k) \/
        FinalClear(k) \/ SampleLock(k) \/ SampleWrite(k) \/ SampleStops(k) \/ DevicesEnd(k)
      <3>1. UNCHANGED <<epoch, runLock, run, victim, started, callerpc, closing, runEpoch, spawnFailed>>
        BY ONLY <2>5 DEF Benchmark, Planned, SpawnDevices, RuntimeReady, RuntimeFails,
            Attempt, Connect, DialFails, PublishCheck, PublishSet, Lost, Incompatible,
            ClearLost, Cancelled, FinalClear, SampleLock, SampleWrite, SampleStops, DevicesEnd
      <3> QED
        BY ONLY <3>1, HandleTypes
    <2> QED
      BY ONLY <2>1, <2>2, <2>3, <2>4, <2>5, <1>3 DEF RunStep, SupWork, NetEvent, Sampling
  <1> QED
    BY ONLY <1>1, <1>2, <1>3, [Next]_vars DEF Next

\* Every update leaves a snapshot.
LEMMA StateTypesKept ==
  ASSUME HandleTypes, RunTypes, StateTypes, [Next]_vars
  PROVE  StateTypes'
  <1> USE Ids, MaxRunsAssumption
      DEF HandleTypes, RunTypes, Positions, Updates, StateTypes, Stages, Detected, handleVars,
          stateVars, ctlVars, supVars, workVars, Take, At, Goto, Updating, Updated,
          DropStateLock, Sent, ClearWork, NewEpoch, Runs
  <1>1. ASSUME NEW c \in Callers, Caller(c)
        PROVE  StateTypes'
    <2>1. CASE Reset(c)
      BY <2>1 DEF Reset
    <2>2. CASE StopReport(c)
      BY <2>2 DEF StopReport
    <2>3. CASE StartLock(c) \/ Create(c) \/ Spawn(c) \/ SpawnFails(c) \/ StopLock(c)
      <3>1. UNCHANGED <<stateLock, snap, shown>>
        BY ONLY <2>3 DEF StartLock, Create, Spawn, SpawnFails, StopLock
      <3> QED
        BY ONLY <3>1, StateTypes
    <2> QED
      BY ONLY <2>1, <2>2, <2>3, <1>1 DEF Caller
  <1>2. CASE Close \/ Detecting \/ UNCHANGED vars
    <2>1. CASE DetectWrite
      <3>1. Detected \in 0..Detected
        OBVIOUS
      <3> QED
        BY <2>1, <3>1 DEF DetectWrite
    <2>2. CASE CloseBump \/ CloseFlag \/ CloseEmpty \/ CloseCancel \/ Detect \/ DetectCheck \/
        UNCHANGED vars
      <3>1. UNCHANGED <<stateLock, snap, shown>>
        BY ONLY <2>2 DEF CloseBump, CloseFlag, CloseEmpty, CloseCancel, Detect, DetectCheck,
            vars
      <3> QED
        BY ONLY <3>1, StateTypes
    <2> QED
      BY ONLY <2>1, <2>2, <1>2 DEF Close, Detecting
  <1>3. ASSUME NEW k \in Runs, RunStep(k)
        PROVE  StateTypes'
    <2>1. CASE UpdateLock(k)
      BY <2>1 DEF UpdateLock, IsCurrent
    <2>2. CASE UpdateWrite(k)
      <3>1. k \in 0..Detected
        OBVIOUS
      <3>2. snap.hardware \in 0..Detected /\ snap.connected \in BOOLEAN /\ snap.hashing \in BOOLEAN
        OBVIOUS
      <3>3. pending[k] \in Updates
        BY <2>2 DEF UpdateWrite, RunTypes
      <3>4. Applied(pending[k], k) \in [status : Stages \cup {"Stopped", "Error"}, connected : BOOLEAN,
                                        hashing : BOOLEAN, hardware : 0..Detected]
        BY <3>1, <3>2, <3>3 DEF Applied, Updates
      <3> QED
        BY <2>2, <3>4 DEF UpdateWrite
    <2>3. CASE SampleLock(k)
      BY <2>3 DEF SampleLock, IsCurrent
    <2>4. CASE SampleWrite(k)
      BY <2>4 DEF SampleWrite
    <2>5. CASE Benchmark(k) \/ Planned(k) \/ SpawnDevices(k) \/ RuntimeReady(k) \/
        RuntimeFails(k) \/ Attempt(k) \/ Connect(k) \/ DialFails(k) \/ PublishCheck(k) \/
        PublishSet(k) \/ Lost(k) \/ Incompatible(k) \/ ClearLost(k) \/ Cancelled(k) \/
        FinalClear(k) \/ FailLock(k) \/ FailUnlock(k) \/ SampleStops(k) \/ DevicesEnd(k)
      <3>1. UNCHANGED <<stateLock, snap, shown>>
        BY ONLY <2>5 DEF Benchmark, Planned, SpawnDevices, RuntimeReady, RuntimeFails,
            Attempt, Connect, DialFails, PublishCheck, PublishSet, Lost, Incompatible,
            ClearLost, Cancelled, FinalClear, FailLock, FailUnlock, SampleStops, DevicesEnd
      <3> QED
        BY ONLY <3>1, StateTypes
    <2> QED
      BY ONLY <2>1, <2>2, <2>3, <2>4, <2>5, <1>3 DEF RunStep, SupWork, NetEvent, Sampling
  <1> QED
    BY ONLY <1>1, <1>2, <1>3, [Next]_vars DEF Next

\* The threads of a run stay where they can be.
LEMMA RunTypesKept ==
  ASSUME RunTypes, [Next]_vars
  PROVE  RunTypes'
  <1> USE Ids, MaxRunsAssumption
      DEF RunTypes, Positions, Updates, handleVars, stateVars, ctlVars, supVars, workVars,
          Take, At, Goto, Updating, Updated, DropStateLock, Sent, ClearWork, NewEpoch, Runs
  <1>1. ASSUME NEW c \in Callers, Caller(c)
        PROVE  RunTypes'
    <2>1. CASE Spawn(c)
      BY <2>1 DEF Spawn
    <2>2. CASE StartLock(c) \/ Create(c) \/ Reset(c) \/ SpawnFails(c) \/ StopLock(c) \/
        StopReport(c)
      <3>1. UNCHANGED <<stopFlag, cancelled, cell, tried, sup, pending, sampler, devices, detector>>
        BY ONLY <2>2 DEF StartLock, Create, Reset, SpawnFails, StopLock, StopReport
      <3> QED
        BY ONLY <3>1, RunTypes
    <2> QED
      BY ONLY <2>1, <2>2, <1>1 DEF Caller
  <1>2. CASE Close \/ Detecting \/ UNCHANGED vars
    <2>1. CASE CloseFlag
      BY <2>1 DEF CloseFlag
    <2>2. CASE CloseEmpty
      BY <2>2 DEF CloseEmpty
    <2>3. CASE CloseCancel
      BY <2>3 DEF CloseCancel
    <2>4. CASE Detect
      BY <2>4 DEF Detect
    <2>5. CASE DetectCheck
      BY <2>5 DEF DetectCheck
    <2>6. CASE DetectWrite
      BY <2>6 DEF DetectWrite
    <2>7. CASE CloseBump \/ UNCHANGED vars
      <3>1. UNCHANGED <<stopFlag, cancelled, cell, tried, sup, pending, sampler, devices, detector>>
        BY ONLY <2>7 DEF CloseBump, vars
      <3> QED
        BY ONLY <3>1, RunTypes
    <2> QED
      BY ONLY <2>1, <2>2, <2>3, <2>4, <2>5, <2>6, <2>7, <1>2 DEF Close, Detecting
  <1>3. ASSUME NEW k \in Runs, RunStep(k)
        PROVE  RunTypes'
    <2>1. CASE Benchmark(k)
      BY <2>1 DEF Benchmark
    <2>2. CASE Planned(k)
      BY <2>2 DEF Planned, Stopping
    <2>3. CASE SpawnDevices(k)
      BY <2>3 DEF SpawnDevices
    <2>4. CASE RuntimeReady(k)
      BY <2>4 DEF RuntimeReady
    <2>5. CASE RuntimeFails(k)
      BY <2>5 DEF RuntimeFails
    <2>6. CASE Attempt(k)
      BY <2>6 DEF Attempt
    <2>7. CASE Connect(k)
      BY <2>7 DEF Connect
    <2>8. CASE DialFails(k)
      BY <2>8 DEF DialFails
    <2>9. CASE PublishCheck(k)
      BY <2>9 DEF PublishCheck
    <2>10. CASE PublishSet(k)
      BY <2>10 DEF PublishSet
    <2>11. CASE Lost(k)
      BY <2>11 DEF Lost
    <2>12. CASE Incompatible(k)
      BY <2>12 DEF Incompatible
    <2>13. CASE ClearLost(k)
      BY <2>13 DEF ClearLost
    <2>14. CASE Cancelled(k)
      BY <2>14 DEF Cancelled
    <2>15. CASE FinalClear(k)
      BY <2>15 DEF FinalClear
    <2>16. CASE UpdateLock(k)
      BY <2>16 DEF UpdateLock, IsCurrent
    <2>17. CASE UpdateWrite(k)
      BY <2>17 DEF UpdateWrite, Applied, Updates, Stages
    <2>18. CASE FailLock(k)
      BY <2>18, SMTT(30) DEF FailLock, AfterFail, OwnsHandle
    <2>19. CASE FailUnlock(k)
      BY <2>19 DEF FailUnlock, AfterFail
    <2>20. CASE SampleLock(k)
      BY <2>20 DEF SampleLock, IsCurrent
    <2>21. CASE SampleWrite(k)
      BY <2>21 DEF SampleWrite
    <2>22. CASE SampleStops(k)
      BY <2>22 DEF SampleStops, Stopping
    <2>23. CASE DevicesEnd(k)
      BY <2>23 DEF DevicesEnd
    <2> QED
      BY ONLY <2>1, <2>2, <2>3, <2>4, <2>5, <2>6, <2>7, <2>8, <2>9, <2>10, <2>11, <2>12,
          <2>13, <2>14, <2>15, <2>16, <2>17, <2>18, <2>19, <2>20, <2>21, <2>22, <2>23, <1>3
          DEF RunStep, SupWork, NetEvent, Sampling
  <1> QED
    BY ONLY <1>1, <1>2, <1>3, [Next]_vars DEF Next

\* Locks are taken on the way into a critical section and given back on the way out.
LEMMA LocksHeldInsideKept ==
  ASSUME HandleTypes, StateTypes, RunTypes, LocksHeldInside, PathInv, LockInv, LiveInv,
      [Next]_vars
  PROVE  LocksHeldInside'
  <1> USE Ids, MaxRunsAssumption
      DEF HandleTypes, StateTypes, Stages, Detected, RunTypes, Positions, Updates,
          LocksHeldInside, PathInv, LockInv, LiveInv, IsCurrent, handleVars, stateVars,
          ctlVars, supVars, workVars, Take, At, Goto, Updating, Updated, DropStateLock, Sent,
          ClearWork, NewEpoch, Runs
  <1>1. ASSUME NEW c \in Callers, Caller(c)
        PROVE  LocksHeldInside'
    <2>1. CASE StartLock(c)
      BY <2>1 DEF StartLock
    <2>2. CASE Spawn(c)
      BY <2>2 DEF Spawn
    <2>3. CASE SpawnFails(c)
      BY <2>3 DEF SpawnFails
    <2>4. CASE StopLock(c)
      BY <2>4 DEF StopLock
    <2>5. CASE StopReport(c)
      BY <2>5 DEF StopReport
    <2>6. CASE Create(c) \/ Reset(c)
      <3>1. UNCHANGED <<stateLock, runLock, sup, pending, sampler>>
        BY ONLY <2>6 DEF Create, Reset
      <3> QED
        BY ONLY <3>1, LocksHeldInside
    <2> QED
      BY ONLY <2>1, <2>2, <2>3, <2>4, <2>5, <2>6, <1>1 DEF Caller
  <1>2. CASE Close \/ Detecting \/ UNCHANGED vars
    <2>1. CASE CloseBump \/ CloseFlag \/ CloseEmpty \/ CloseCancel \/ Detect \/ DetectCheck \/
        DetectWrite \/ UNCHANGED vars
      <3>1. UNCHANGED <<stateLock, runLock, sup, pending, sampler>>
        BY ONLY <2>1 DEF CloseBump, CloseFlag, CloseEmpty, CloseCancel, Detect, DetectCheck,
            DetectWrite, vars
      <3> QED
        BY ONLY <3>1, LocksHeldInside
    <2> QED
      BY ONLY <2>1, <1>2 DEF Close, Detecting
  <1>3. ASSUME NEW k \in Runs, RunStep(k)
        PROVE  LocksHeldInside'
    <2>1. CASE Benchmark(k)
      BY <2>1 DEF Benchmark
    <2>2. CASE Planned(k)
      <3>1. CASE Goto(k, "done") /\ UNCHANGED pending /\ Stopping(k)
        BY <2>2, <3>1 DEF Planned, Stopping
      <3>2. CASE Updating(k, "devices", "spawn")
        BY <2>2, <3>2 DEF Planned
      <3> QED
        BY <2>2, <3>1, <3>2 DEF Planned
    <2>3. CASE SpawnDevices(k)
      BY <2>3 DEF SpawnDevices
    <2>4. CASE RuntimeReady(k)
      BY <2>4 DEF RuntimeReady
    <2>5. CASE RuntimeFails(k)
      BY <2>5 DEF RuntimeFails
    <2>6. CASE Attempt(k)
      BY <2>6 DEF Attempt
    <2>7. CASE Connect(k)
      BY <2>7 DEF Connect
    <2>8. CASE DialFails(k)
      BY <2>8 DEF DialFails
    <2>9. CASE PublishCheck(k)
      BY <2>9 DEF PublishCheck
    <2>10. CASE PublishSet(k)
      BY <2>10 DEF PublishSet
    <2>11. CASE Lost(k)
      BY <2>11 DEF Lost
    <2>12. CASE Incompatible(k)
      BY <2>12 DEF Incompatible
    <2>13. CASE ClearLost(k)
      BY <2>13 DEF ClearLost
    <2>14. CASE Cancelled(k)
      BY <2>14 DEF Cancelled
    <2>15. CASE FinalClear(k)
      BY <2>15 DEF FinalClear
    <2>16. CASE UpdateLock(k)
      BY <2>16 DEF UpdateLock, IsCurrent
    <2>17. CASE UpdateWrite(k)
      BY <2>17 DEF UpdateWrite, Applied, Updates, Stages
    <2>18. CASE FailLock(k)
      BY <2>18 DEF FailLock, AfterFail, OwnsHandle
    <2>19. CASE FailUnlock(k)
      BY <2>19 DEF FailUnlock, AfterFail
    <2>20. CASE SampleLock(k)
      BY <2>20 DEF SampleLock, IsCurrent
    <2>21. CASE SampleWrite(k)
      BY <2>21 DEF SampleWrite
    <2>22. CASE SampleStops(k)
      BY <2>22 DEF SampleStops, Stopping
    <2>23. CASE DevicesEnd(k)
      BY <2>23 DEF DevicesEnd
    <2> QED
      BY ONLY <2>1, <2>2, <2>3, <2>4, <2>5, <2>6, <2>7, <2>8, <2>9, <2>10, <2>11, <2>12,
          <2>13, <2>14, <2>15, <2>16, <2>17, <2>18, <2>19, <2>20, <2>21, <2>22, <2>23, <1>3
          DEF RunStep, SupWork, NetEvent, Sampling
  <1> QED
    BY ONLY <1>1, <1>2, <1>3, [Next]_vars DEF Next

\* A supervisor passes its stations in order.
LEMMA PathInvKept ==
  ASSUME RunTypes, HandleTypes, PathInv, LockInv, LiveInv, [Next]_vars
  PROVE  PathInv'
  <1> USE Ids, MaxRunsAssumption
      DEF RunTypes, Positions, Updates, HandleTypes, PathInv, LockInv, LiveInv, IsCurrent,
          handleVars, stateVars, ctlVars, supVars, workVars, Take, At, Goto, Updating,
          Updated, DropStateLock, Sent, ClearWork, NewEpoch, Runs
  <1>1. ASSUME NEW c \in Callers, Caller(c)
        PROVE  PathInv'
    <2>1. CASE Spawn(c)
      BY <2>1 DEF Spawn
    <2>2. CASE StartLock(c) \/ Create(c) \/ Reset(c) \/ SpawnFails(c) \/ StopLock(c) \/
        StopReport(c)
      <3>1. UNCHANGED <<sup, pending, stopFlag, tried, sampler, cell>>
        BY ONLY <2>2 DEF StartLock, Create, Reset, SpawnFails, StopLock, StopReport
      <3> QED
        BY ONLY <3>1, PathInv
    <2> QED
      BY ONLY <2>1, <2>2, <1>1 DEF Caller
  <1>2. CASE Close \/ Detecting \/ UNCHANGED vars
    <2>1. CASE CloseFlag
      BY <2>1 DEF CloseFlag
    <2>2. CASE CloseEmpty
      BY <2>2 DEF CloseEmpty
    <2>3. CASE CloseBump \/ CloseCancel \/ Detect \/ DetectCheck \/ DetectWrite \/ UNCHANGED
        vars
      <3>1. UNCHANGED <<sup, pending, stopFlag, tried, sampler, cell>>
        BY ONLY <2>3 DEF CloseBump, CloseCancel, Detect, DetectCheck, DetectWrite, vars
      <3> QED
        BY ONLY <3>1, PathInv
    <2> QED
      BY ONLY <2>1, <2>2, <2>3, <1>2 DEF Close, Detecting
  <1>3. ASSUME NEW k \in Runs, RunStep(k)
        PROVE  PathInv'
    <2>1. CASE Benchmark(k)
      BY <2>1 DEF Benchmark
    <2>2. CASE Planned(k)
      <3>1. CASE Goto(k, "done") /\ UNCHANGED pending /\ Stopping(k)
        BY <2>2, <3>1 DEF Planned, Stopping
      <3>2. CASE Updating(k, "devices", "spawn")
        BY <2>2, <3>2 DEF Planned
      <3> QED
        BY <2>2, <3>1, <3>2 DEF Planned
    <2>3. CASE SpawnDevices(k)
      BY <2>3 DEF SpawnDevices
    <2>4. CASE RuntimeReady(k)
      BY <2>4 DEF RuntimeReady
    <2>5. CASE RuntimeFails(k)
      BY <2>5 DEF RuntimeFails
    <2>6. CASE Attempt(k)
      BY <2>6 DEF Attempt
    <2>7. CASE Connect(k)
      BY <2>7 DEF Connect
    <2>8. CASE DialFails(k)
      BY <2>8 DEF DialFails
    <2>9. CASE PublishCheck(k)
      BY <2>9 DEF PublishCheck
    <2>10. CASE PublishSet(k)
      BY <2>10 DEF PublishSet
    <2>11. CASE Lost(k)
      BY <2>11 DEF Lost
    <2>12. CASE Incompatible(k)
      BY <2>12 DEF Incompatible
    <2>13. CASE ClearLost(k)
      BY <2>13 DEF ClearLost
    <2>14. CASE Cancelled(k)
      BY <2>14 DEF Cancelled
    <2>15. CASE FinalClear(k)
      BY <2>15 DEF FinalClear
    <2>16. CASE UpdateLock(k)
      BY <2>16 DEF UpdateLock, IsCurrent
    <2>17. CASE UpdateWrite(k)
      BY <2>17 DEF UpdateWrite, Applied, Updates, Stages
    <2>18. CASE FailLock(k)
      BY <2>18 DEF FailLock, AfterFail, OwnsHandle
    <2>19. CASE FailUnlock(k)
      BY <2>19 DEF FailUnlock, AfterFail
    <2>20. CASE SampleLock(k)
      BY <2>20 DEF SampleLock, IsCurrent
    <2>21. CASE SampleWrite(k)
      BY <2>21 DEF SampleWrite
    <2>22. CASE SampleStops(k)
      BY <2>22 DEF SampleStops, Stopping
    <2>23. CASE DevicesEnd(k)
      BY <2>23 DEF DevicesEnd
    <2> QED
      BY ONLY <2>1, <2>2, <2>3, <2>4, <2>5, <2>6, <2>7, <2>8, <2>9, <2>10, <2>11, <2>12,
          <2>13, <2>14, <2>15, <2>16, <2>17, <2>18, <2>19, <2>20, <2>21, <2>22, <2>23, <1>3
          DEF RunStep, SupWork, NetEvent, Sampling
  <1> QED
    BY ONLY <1>1, <1>2, <1>3, [Next]_vars DEF Next

\* Only the holder of the run lock moves the handle, and fail makes its last update
\* while it still holds what it took.
LEMMA LockInvKept ==
  ASSUME HandleTypes, StateTypes, RunTypes, LocksHeldInside, PathInv, LockInv, EpochInv,
      LiveInv, [Next]_vars
  PROVE  LockInv'
  <1> USE Ids, MaxRunsAssumption
      DEF HandleTypes, StateTypes, Stages, Detected, RunTypes, Positions, Updates,
          LocksHeldInside, PathInv, LockInv, EpochInv, LiveInv, IsCurrent, handleVars,
          stateVars, ctlVars, supVars, workVars, Take, At, Goto, Updating, Updated,
          DropStateLock, Sent, ClearWork, NewEpoch, Runs
  <1>1. ASSUME NEW c \in Callers, Caller(c)
        PROVE  LockInv'
    <2>1. CASE StartLock(c)
      BY <2>1 DEF StartLock
    <2>2. CASE Create(c)
      BY <2>2 DEF Create
    <2>3. CASE Reset(c)
      BY <2>3 DEF Reset
    <2>4. CASE Spawn(c)
      BY <2>4 DEF Spawn
    <2>5. CASE SpawnFails(c)
      BY <2>5 DEF SpawnFails
    <2>6. CASE StopLock(c)
      BY <2>6 DEF StopLock
    <2>7. CASE StopReport(c)
      BY <2>7 DEF StopReport
    <2> QED
      BY ONLY <2>1, <2>2, <2>3, <2>4, <2>5, <2>6, <2>7, <1>1 DEF Caller
  <1>2. CASE Close \/ Detecting \/ UNCHANGED vars
    <2>1. CASE CloseBump
      BY <2>1 DEF CloseBump
    <2>2. CASE CloseFlag
      BY <2>2 DEF CloseFlag
    <2>3. CASE CloseEmpty
      BY <2>3 DEF CloseEmpty
    <2>4. CASE CloseCancel
      BY <2>4 DEF CloseCancel
    <2>5. CASE Detect \/ DetectCheck \/ DetectWrite \/ UNCHANGED vars
      <3>1. UNCHANGED <<callerpc, runLock, run, closing, victim, pending, started, sup>>
        BY ONLY <2>5 DEF Detect, DetectCheck, DetectWrite, vars
      <3> QED
        BY ONLY <3>1, LockInv
    <2> QED
      BY ONLY <2>1, <2>2, <2>3, <2>4, <2>5, <1>2 DEF Close, Detecting
  <1>3. ASSUME NEW k \in Runs, RunStep(k)
        PROVE  LockInv'
    <2>1. CASE Benchmark(k)
      BY <2>1 DEF Benchmark
    <2>2. CASE Planned(k)
      <3>1. CASE Goto(k, "done") /\ UNCHANGED pending /\ Stopping(k)
        BY <2>2, <3>1 DEF Planned, Stopping
      <3>2. CASE Updating(k, "devices", "spawn")
        BY <2>2, <3>2 DEF Planned
      <3> QED
        BY <2>2, <3>1, <3>2 DEF Planned
    <2>3. CASE SpawnDevices(k)
      BY <2>3 DEF SpawnDevices
    <2>4. CASE RuntimeReady(k)
      BY <2>4 DEF RuntimeReady
    <2>5. CASE RuntimeFails(k)
      BY <2>5 DEF RuntimeFails
    <2>6. CASE Attempt(k)
      BY <2>6 DEF Attempt
    <2>7. CASE Connect(k)
      BY <2>7 DEF Connect
    <2>8. CASE DialFails(k)
      BY <2>8 DEF DialFails
    <2>9. CASE PublishCheck(k)
      BY <2>9 DEF PublishCheck
    <2>10. CASE PublishSet(k)
      BY <2>10 DEF PublishSet
    <2>11. CASE Lost(k)
      BY <2>11 DEF Lost
    <2>12. CASE Incompatible(k)
      BY <2>12 DEF Incompatible
    <2>13. CASE ClearLost(k)
      BY <2>13 DEF ClearLost
    <2>14. CASE Cancelled(k)
      BY <2>14 DEF Cancelled
    <2>15. CASE FinalClear(k)
      BY <2>15 DEF FinalClear
    <2>16. CASE UpdateLock(k)
      <3>1. CASE IsCurrent(k)
        BY <2>16, <3>1 DEF UpdateLock
      <3>2. CASE ~IsCurrent(k)
        <4>1. pending[k] # "error"
          BY <2>16, <3>2 DEF UpdateLock
        <4> QED
          BY <2>16, <3>2, <4>1 DEF UpdateLock
      <3> QED
        BY <3>1, <3>2
    <2>17. CASE UpdateWrite(k)
      BY <2>17 DEF UpdateWrite, Applied, Updates, Stages
    <2>18. CASE FailLock(k)
      <3>1. CASE OwnsHandle(k)
        <4>1. run # 0 /\ k = run
          BY <2>18, <3>1, OwnerIsRun DEF FailLock
        <4> QED
          BY <2>18, <3>1, <4>1 DEF FailLock
      <3>2. CASE ~OwnsHandle(k)
        <4>1. PICK p \in AfterFail(k) : Goto(k, p)
          BY <2>18, <3>2 DEF FailLock
        <4>2. p # "failing"
          BY DEF AfterFail
        <4> QED
          BY <2>18, <3>2, <4>1, <4>2 DEF FailLock
      <3> QED
        BY <3>1, <3>2
    <2>19. CASE FailUnlock(k)
      BY <2>19 DEF FailUnlock, AfterFail
    <2>20. CASE SampleLock(k) \/ SampleWrite(k) \/ SampleStops(k) \/ DevicesEnd(k)
      <3>1. UNCHANGED <<callerpc, runLock, run, closing, victim, pending, started, sup>>
        BY ONLY <2>20 DEF SampleLock, SampleWrite, SampleStops, DevicesEnd
      <3> QED
        BY ONLY <3>1, LockInv
    <2> QED
      BY ONLY <2>1, <2>2, <2>3, <2>4, <2>5, <2>6, <2>7, <2>8, <2>9, <2>10, <2>11, <2>12,
          <2>13, <2>14, <2>15, <2>16, <2>17, <2>18, <2>19, <2>20, <1>3 DEF RunStep, SupWork,
          NetEvent, Sampling
  <1> QED
    BY ONLY <1>1, <1>2, <1>3, [Next]_vars DEF Next

\* A new run gets an epoch above all before it.
LEMMA EpochInvKept ==
  ASSUME HandleTypes, RunTypes, PathInv, LockInv, EpochInv, LiveInv, [Next]_vars
  PROVE  EpochInv'
  <1> USE Ids, MaxRunsAssumption
      DEF HandleTypes, RunTypes, Positions, Updates, PathInv, LockInv, EpochInv, LiveInv,
          IsCurrent, handleVars, stateVars, ctlVars, supVars, workVars, Take, At, Goto,
          Updating, Updated, DropStateLock, Sent, ClearWork, NewEpoch, Runs
  <1>1. ASSUME NEW c \in Callers, Caller(c)
        PROVE  EpochInv'
    <2>1. CASE Create(c)
      <3>1. started' = started + 1 /\ started + 1 \in Runs
        BY <2>1 DEF Create
      <3>2. runEpoch'[started'] = epoch' /\ \A j \in 1..started : runEpoch'[j] = runEpoch[j]
        BY <2>1, <3>1 DEF Create
      <3>3. \A k \in 1..started : runEpoch'[k] < epoch'
        BY <2>1, <3>2 DEF Create
      <3>4. \A k \in Runs : k > started' => sup'[k] = "off"
        BY <2>1, <3>1 DEF Create
      <3>5. \A j, k \in 1..started' : j < k => runEpoch'[j] < runEpoch'[k]
        BY <3>1, <3>2, <3>3
      <3>6. \A k \in 1..started' : runEpoch'[k] <= epoch'
        BY <3>1, <3>2, <3>3, <2>1 DEF Create
      <3> QED
        BY <3>4, <3>5, <3>6
    <2>2. CASE Spawn(c)
      BY <2>2 DEF Spawn
    <2>3. CASE StartLock(c) \/ Reset(c) \/ SpawnFails(c) \/ StopLock(c) \/ StopReport(c)
      <3>1. UNCHANGED <<started, runEpoch, epoch, sup>>
        BY ONLY <2>3 DEF StartLock, Reset, SpawnFails, StopLock, StopReport
      <3> QED
        BY ONLY <3>1, EpochInv
    <2> QED
      BY ONLY <2>1, <2>2, <2>3, <1>1 DEF Caller
  <1>2. CASE Close \/ Detecting \/ UNCHANGED vars
    <2>1. CASE CloseBump
      BY <2>1 DEF CloseBump
    <2>2. CASE CloseFlag \/ CloseEmpty \/ CloseCancel \/ Detect \/ DetectCheck \/ DetectWrite
        \/ UNCHANGED vars
      <3>1. UNCHANGED <<started, runEpoch, epoch, sup>>
        BY ONLY <2>2 DEF CloseFlag, CloseEmpty, CloseCancel, Detect, DetectCheck, DetectWrite,
            vars
      <3> QED
        BY ONLY <3>1, EpochInv
    <2> QED
      BY ONLY <2>1, <2>2, <1>2 DEF Close, Detecting
  <1>3. ASSUME NEW k \in Runs, RunStep(k)
        PROVE  EpochInv'
    <2>1. CASE Benchmark(k)
      BY <2>1 DEF Benchmark
    <2>2. CASE Planned(k)
      <3>1. CASE Goto(k, "done") /\ UNCHANGED pending /\ Stopping(k)
        BY <2>2, <3>1 DEF Planned, Stopping
      <3>2. CASE Updating(k, "devices", "spawn")
        BY <2>2, <3>2 DEF Planned
      <3> QED
        BY <2>2, <3>1, <3>2 DEF Planned
    <2>3. CASE SpawnDevices(k)
      BY <2>3 DEF SpawnDevices
    <2>4. CASE RuntimeReady(k)
      BY <2>4 DEF RuntimeReady
    <2>5. CASE RuntimeFails(k)
      BY <2>5 DEF RuntimeFails
    <2>6. CASE Attempt(k)
      BY <2>6 DEF Attempt
    <2>7. CASE Connect(k)
      BY <2>7 DEF Connect
    <2>8. CASE DialFails(k)
      BY <2>8 DEF DialFails
    <2>9. CASE PublishCheck(k)
      BY <2>9 DEF PublishCheck
    <2>10. CASE PublishSet(k)
      BY <2>10 DEF PublishSet
    <2>11. CASE Lost(k)
      BY <2>11 DEF Lost
    <2>12. CASE Incompatible(k)
      BY <2>12 DEF Incompatible
    <2>13. CASE ClearLost(k)
      BY <2>13 DEF ClearLost
    <2>14. CASE Cancelled(k)
      BY <2>14 DEF Cancelled
    <2>15. CASE FinalClear(k)
      BY <2>15 DEF FinalClear
    <2>16. CASE FailLock(k)
      BY <2>16 DEF FailLock, AfterFail, OwnsHandle
    <2>17. CASE FailUnlock(k)
      BY <2>17 DEF FailUnlock, AfterFail
    <2>18. CASE UpdateLock(k) \/ UpdateWrite(k) \/ SampleLock(k) \/ SampleWrite(k) \/
        SampleStops(k) \/ DevicesEnd(k)
      <3>1. UNCHANGED <<started, runEpoch, epoch, sup>>
        BY ONLY <2>18 DEF UpdateLock, UpdateWrite, SampleLock, SampleWrite, SampleStops,
            DevicesEnd
      <3> QED
        BY ONLY <3>1, EpochInv
    <2> QED
      BY ONLY <2>1, <2>2, <2>3, <2>4, <2>5, <2>6, <2>7, <2>8, <2>9, <2>10, <2>11, <2>12,
          <2>13, <2>14, <2>15, <2>16, <2>17, <2>18, <1>3 DEF RunStep, SupWork, NetEvent,
          Sampling
  <1> QED
    BY ONLY <1>1, <1>2, <1>3, [Next]_vars DEF Next

\* The handle is emptied, the epoch bumped, the flag raised and the message sent
\* before the run lock is given back.
LEMMA LiveInvKept ==
  ASSUME HandleTypes, StateTypes, RunTypes, LocksHeldInside, PathInv, LockInv, EpochInv,
      LiveInv, [Next]_vars
  PROVE  LiveInv'
  <1> USE Ids, MaxRunsAssumption
      DEF HandleTypes, StateTypes, Stages, Detected, RunTypes, Positions, Updates,
          LocksHeldInside, PathInv, LockInv, EpochInv, LiveInv, IsCurrent, handleVars,
          stateVars, ctlVars, supVars, workVars, Take, At, Goto, Updating, Updated,
          DropStateLock, Sent, ClearWork, NewEpoch, Runs
  <1>1. ASSUME NEW c \in Callers, Caller(c)
        PROVE  LiveInv'
    <2>1. CASE StartLock(c)
      BY <2>1 DEF StartLock
    <2>2. CASE Create(c)
      BY <2>2 DEF Create
    <2>3. CASE Reset(c)
      BY <2>3 DEF Reset
    <2>4. CASE Spawn(c)
      BY <2>4 DEF Spawn
    <2>5. CASE SpawnFails(c)
      BY <2>5 DEF SpawnFails
    <2>6. CASE StopLock(c)
      BY <2>6 DEF StopLock
    <2>7. CASE StopReport(c)
      BY <2>7 DEF StopReport
    <2> QED
      BY ONLY <2>1, <2>2, <2>3, <2>4, <2>5, <2>6, <2>7, <1>1 DEF Caller
  <1>2. CASE Close \/ Detecting \/ UNCHANGED vars
    <2>1. CASE CloseBump
      BY <2>1 DEF CloseBump
    <2>2. CASE CloseFlag
      BY <2>2 DEF CloseFlag
    <2>3. CASE CloseEmpty
      BY <2>3 DEF CloseEmpty
    <2>4. CASE CloseCancel
      BY <2>4 DEF CloseCancel
    <2>5. CASE Detect \/ DetectCheck \/ DetectWrite \/ UNCHANGED vars
      <3>1. UNCHANGED <<run, started, epoch, runEpoch, stopFlag, cancelled, sup, victim, closing, callerpc>>
        BY ONLY <2>5 DEF Detect, DetectCheck, DetectWrite, vars
      <3> QED
        BY ONLY <3>1, LiveInv
    <2> QED
      BY ONLY <2>1, <2>2, <2>3, <2>4, <2>5, <1>2 DEF Close, Detecting
  <1>3. ASSUME NEW k \in Runs, RunStep(k)
        PROVE  LiveInv'
    <2>1. CASE Benchmark(k)
      BY <2>1, SMTT(30) DEF Benchmark
    <2>2. CASE Planned(k)
      <3>1. CASE Goto(k, "done") /\ UNCHANGED pending /\ Stopping(k)
        BY <2>2, <3>1, SMTT(30) DEF Planned, Stopping
      <3>2. CASE Updating(k, "devices", "spawn")
        BY <2>2, <3>2, SMTT(30) DEF Planned
      <3> QED
        BY <2>2, <3>1, <3>2 DEF Planned
    <2>3. CASE SpawnDevices(k)
      BY <2>3 DEF SpawnDevices
    <2>4. CASE RuntimeReady(k)
      BY <2>4, SMTT(30) DEF RuntimeReady
    <2>5. CASE RuntimeFails(k)
      BY <2>5, SMTT(30) DEF RuntimeFails
    <2>6. CASE Attempt(k)
      BY <2>6 DEF Attempt
    <2>7. CASE Connect(k)
      BY <2>7 DEF Connect
    <2>8. CASE DialFails(k)
      BY <2>8 DEF DialFails
    <2>9. CASE PublishCheck(k)
      BY <2>9 DEF PublishCheck
    <2>10. CASE PublishSet(k)
      BY <2>10 DEF PublishSet
    <2>11. CASE Lost(k)
      BY <2>11 DEF Lost
    <2>12. CASE Incompatible(k)
      BY <2>12 DEF Incompatible
    <2>13. CASE ClearLost(k)
      BY <2>13 DEF ClearLost
    <2>14. CASE Cancelled(k)
      BY <2>14 DEF Cancelled
    <2>15. CASE FinalClear(k)
      BY <2>15, SMTT(30) DEF FinalClear
    <2>16. CASE UpdateLock(k)
      BY <2>16 DEF UpdateLock, IsCurrent
    <2>17. CASE UpdateWrite(k)
      BY <2>17 DEF UpdateWrite, Applied, Updates, Stages
    <2>18. CASE FailLock(k)
      <3>1. CASE OwnsHandle(k)
        <4>1. run # 0 /\ k = run
          BY <2>18, <3>1, OwnerIsRun DEF FailLock
        <4> QED
          BY <2>18, <3>1, <4>1 DEF FailLock
      <3>2. CASE ~OwnsHandle(k)
        <4>1. PICK p \in AfterFail(k) : Goto(k, p)
          BY <2>18, <3>2 DEF FailLock
        <4>2. p # "off" /\ p # "failing"
          BY DEF AfterFail
        <4> QED
          BY <2>18, <3>2, <4>1, <4>2 DEF FailLock
      <3> QED
        BY <3>1, <3>2
    <2>19. CASE FailUnlock(k)
      BY <2>19 DEF FailUnlock, AfterFail
    <2>20. CASE SampleLock(k) \/ SampleWrite(k) \/ SampleStops(k) \/ DevicesEnd(k)
      <3>1. UNCHANGED <<run, started, epoch, runEpoch, stopFlag, cancelled, sup, victim, closing, callerpc>>
        BY ONLY <2>20 DEF SampleLock, SampleWrite, SampleStops, DevicesEnd
      <3> QED
        BY ONLY <3>1, LiveInv
    <2> QED
      BY ONLY <2>1, <2>2, <2>3, <2>4, <2>5, <2>6, <2>7, <2>8, <2>9, <2>10, <2>11, <2>12,
          <2>13, <2>14, <2>15, <2>16, <2>17, <2>18, <2>19, <2>20, <1>3 DEF RunStep, SupWork,
          NetEvent, Sampling
  <1> QED
    BY ONLY <1>1, <1>2, <1>3, [Next]_vars DEF Next

\* A run gets the state lock only while it is current; the next run's reset waits
\* for the lock.
LEMMA ShownInvKept ==
  ASSUME HandleTypes, StateTypes, RunTypes, LocksHeldInside, PathInv, LockInv, EpochInv,
      LiveInv, ShownInv, [Next]_vars
  PROVE  ShownInv'
  <1> USE Ids, MaxRunsAssumption
      DEF HandleTypes, StateTypes, Stages, Detected, RunTypes, Positions, Updates,
          LocksHeldInside, PathInv, LockInv, EpochInv, LiveInv, IsCurrent, ShownInv,
          WritesAreOwn, handleVars, stateVars, ctlVars, supVars, workVars, Take, At, Goto,
          Updating, Updated, DropStateLock, Sent, ClearWork, NewEpoch, Runs
  <1>1. ASSUME NEW c \in Callers, Caller(c)
        PROVE  ShownInv'
    <2>1. CASE StartLock(c)
      BY <2>1 DEF StartLock
    <2>2. CASE Create(c)
      BY <2>2, SMTT(30) DEF Create
    <2>3. CASE Reset(c)
      BY <2>3 DEF Reset
    <2>4. CASE Spawn(c)
      BY <2>4 DEF Spawn
    <2>5. CASE SpawnFails(c)
      BY <2>5 DEF SpawnFails
    <2>6. CASE StopLock(c)
      BY <2>6 DEF StopLock
    <2>7. CASE StopReport(c)
      BY <2>7 DEF StopReport
    <2> QED
      BY ONLY <2>1, <2>2, <2>3, <2>4, <2>5, <2>6, <2>7, <1>1 DEF Caller
  <1>2. CASE Close \/ Detecting \/ UNCHANGED vars
    <2>1. CASE CloseBump \/ CloseFlag \/ CloseEmpty \/ CloseCancel \/ Detect \/ DetectCheck \/
        DetectWrite \/ UNCHANGED vars
      <3>1. UNCHANGED <<callerpc, started, shown, stateLock>>
        BY ONLY <2>1 DEF CloseBump, CloseFlag, CloseEmpty, CloseCancel, Detect, DetectCheck,
            DetectWrite, vars
      <3> QED
        BY ONLY <3>1, ShownInv
    <2> QED
      BY ONLY <2>1, <1>2 DEF Close, Detecting
  <1>3. ASSUME NEW k \in Runs, RunStep(k)
        PROVE  ShownInv'
    <2>1. CASE UpdateLock(k)
      BY <2>1 DEF UpdateLock, IsCurrent
    <2>2. CASE UpdateWrite(k)
      BY <2>2 DEF UpdateWrite, Applied, Updates, Stages
    <2>3. CASE SampleLock(k)
      BY <2>3 DEF SampleLock, IsCurrent
    <2>4. CASE SampleWrite(k)
      BY <2>4 DEF SampleWrite
    <2>5. CASE Benchmark(k) \/ Planned(k) \/ SpawnDevices(k) \/ RuntimeReady(k) \/
        RuntimeFails(k) \/ Attempt(k) \/ Connect(k) \/ DialFails(k) \/ PublishCheck(k) \/
        PublishSet(k) \/ Lost(k) \/ Incompatible(k) \/ ClearLost(k) \/ Cancelled(k) \/
        FinalClear(k) \/ FailLock(k) \/ FailUnlock(k) \/ SampleStops(k) \/ DevicesEnd(k)
      <3>1. UNCHANGED <<callerpc, started, shown, stateLock>>
        BY ONLY <2>5 DEF Benchmark, Planned, SpawnDevices, RuntimeReady, RuntimeFails,
            Attempt, Connect, DialFails, PublishCheck, PublishSet, Lost, Incompatible,
            ClearLost, Cancelled, FinalClear, FailLock, FailUnlock, SampleStops, DevicesEnd
      <3> QED
        BY ONLY <3>1, ShownInv
    <2> QED
      BY ONLY <2>1, <2>2, <2>3, <2>4, <2>5, <1>3 DEF RunStep, SupWork, NetEvent, Sampling
  <1> QED
    BY ONLY <1>1, <1>2, <1>3, [Next]_vars DEF Next

\* Neither stop nor fail leaves a writer behind who could undo its last word.
LEMMA IdleInvKept ==
  ASSUME HandleTypes, StateTypes, RunTypes, LocksHeldInside, PathInv, LockInv, EpochInv,
      LiveInv, ShownInv, IdleInv, [Next]_vars
  PROVE  IdleInv'
  <1> USE Ids, MaxRunsAssumption
      DEF HandleTypes, StateTypes, Stages, Detected, RunTypes, Positions, Updates,
          LocksHeldInside, PathInv, LockInv, EpochInv, LiveInv, IsCurrent, ShownInv,
          WritesAreOwn, IdleInv, IdleSnapshot, handleVars, stateVars, ctlVars, supVars,
          workVars, Take, At, Goto, Updating, Updated, DropStateLock, Sent, ClearWork,
          NewEpoch, Runs
  <1>1. ASSUME NEW c \in Callers, Caller(c)
        PROVE  IdleInv'
    <2>1. CASE StartLock(c)
      BY <2>1 DEF StartLock
    <2>2. CASE Create(c)
      BY <2>2 DEF Create
    <2>3. CASE Reset(c)
      BY <2>3 DEF Reset
    <2>4. CASE Spawn(c)
      BY <2>4 DEF Spawn
    <2>5. CASE SpawnFails(c)
      BY <2>5 DEF SpawnFails
    <2>6. CASE StopLock(c)
      BY <2>6 DEF StopLock
    <2>7. CASE StopReport(c)
      BY <2>7 DEF StopReport
    <2> QED
      BY ONLY <2>1, <2>2, <2>3, <2>4, <2>5, <2>6, <2>7, <1>1 DEF Caller
  <1>2. CASE Close \/ Detecting \/ UNCHANGED vars
    <2>1. CASE CloseBump
      BY <2>1 DEF CloseBump
    <2>2. CASE CloseFlag
      BY <2>2 DEF CloseFlag
    <2>3. CASE CloseEmpty
      BY <2>3 DEF CloseEmpty
    <2>4. CASE CloseCancel
      BY <2>4 DEF CloseCancel
    <2>5. CASE DetectWrite
      BY <2>5 DEF DetectWrite
    <2>6. CASE Detect \/ DetectCheck \/ UNCHANGED vars
      <3>1. UNCHANGED <<runLock, run, spawnFailed, snap, stateLock, sup, closing>>
        BY ONLY <2>6 DEF Detect, DetectCheck, vars
      <3> QED
        BY ONLY <3>1, IdleInv
    <2> QED
      BY ONLY <2>1, <2>2, <2>3, <2>4, <2>5, <2>6, <1>2 DEF Close, Detecting
  <1>3. ASSUME NEW k \in Runs, RunStep(k)
        PROVE  IdleInv'
    <2>1. CASE Benchmark(k)
      BY <2>1 DEF Benchmark
    <2>2. CASE Planned(k)
      <3>1. CASE Goto(k, "done") /\ UNCHANGED pending /\ Stopping(k)
        BY <2>2, <3>1 DEF Planned, Stopping
      <3>2. CASE Updating(k, "devices", "spawn")
        BY <2>2, <3>2 DEF Planned
      <3> QED
        BY <2>2, <3>1, <3>2 DEF Planned
    <2>3. CASE SpawnDevices(k)
      BY <2>3 DEF SpawnDevices
    <2>4. CASE RuntimeReady(k)
      BY <2>4 DEF RuntimeReady
    <2>5. CASE RuntimeFails(k)
      BY <2>5 DEF RuntimeFails
    <2>6. CASE Attempt(k)
      BY <2>6 DEF Attempt
    <2>7. CASE Connect(k)
      BY <2>7 DEF Connect
    <2>8. CASE DialFails(k)
      BY <2>8 DEF DialFails
    <2>9. CASE PublishCheck(k)
      BY <2>9 DEF PublishCheck
    <2>10. CASE PublishSet(k)
      BY <2>10 DEF PublishSet
    <2>11. CASE Lost(k)
      BY <2>11 DEF Lost
    <2>12. CASE Incompatible(k)
      BY <2>12 DEF Incompatible
    <2>13. CASE ClearLost(k)
      BY <2>13 DEF ClearLost
    <2>14. CASE Cancelled(k)
      BY <2>14 DEF Cancelled
    <2>15. CASE FinalClear(k)
      BY <2>15 DEF FinalClear
    <2>16. CASE UpdateLock(k)
      BY <2>16 DEF UpdateLock, IsCurrent
    <2>17. CASE UpdateWrite(k)
      <3>1. k = shown /\ ~(runLock = NoOne /\ run = 0 /\ ~spawnFailed)
        BY <2>17 DEF UpdateWrite
      <3>2. CASE pending[k] = "error"
        BY <2>17, <3>1, <3>2 DEF UpdateWrite, Applied
      <3>3. CASE pending[k] # "error"
        <4>1. \A j \in Runs : sup[j] = "failing" => closing = "held"
          BY <2>17, <3>1, <3>3 DEF UpdateWrite
        <4> QED
          BY <2>17, <3>1, <3>3, <4>1 DEF UpdateWrite
      <3> QED
        BY <3>2, <3>3
    <2>18. CASE FailLock(k)
      BY <2>18 DEF FailLock, AfterFail, OwnsHandle
    <2>19. CASE FailUnlock(k)
      <3>1. k = started /\ shown = started
        BY <2>19 DEF FailUnlock
      <3>2. \A j \in Runs : stateLock # SupId(j)
        BY <2>19, <3>1 DEF FailUnlock
      <3>3. snap.status = "Error" /\ ~snap.connected
        BY <2>19 DEF FailUnlock
      <3>4. \A j \in Runs : sup'[j] # "failing"
        BY <2>19, <3>1 DEF FailUnlock, AfterFail
      <3> QED
        BY <2>19, <3>2, <3>3, <3>4 DEF FailUnlock
    <2>20. CASE SampleLock(k)
      BY <2>20 DEF SampleLock, IsCurrent
    <2>21. CASE SampleWrite(k)
      BY <2>21 DEF SampleWrite
    <2>22. CASE SampleStops(k) \/ DevicesEnd(k)
      <3>1. UNCHANGED <<runLock, run, spawnFailed, snap, stateLock, sup, closing>>
        BY ONLY <2>22 DEF SampleStops, DevicesEnd
      <3> QED
        BY ONLY <3>1, IdleInv
    <2> QED
      BY ONLY <2>1, <2>2, <2>3, <2>4, <2>5, <2>6, <2>7, <2>8, <2>9, <2>10, <2>11, <2>12,
          <2>13, <2>14, <2>15, <2>16, <2>17, <2>18, <2>19, <2>20, <2>21, <2>22, <1>3 DEF
          RunStep, SupWork, NetEvent, Sampling
  <1> QED
    BY ONLY <1>1, <1>2, <1>3, [Next]_vars DEF Next

\* The snapshot's stage keeps up with the supervisor that writes it.
LEMMA StatusInvKept ==
  ASSUME HandleTypes, StateTypes, RunTypes, LocksHeldInside, PathInv, LockInv, EpochInv,
      LiveInv, ShownInv, StatusInv, [Next]_vars
  PROVE  StatusInv'
  <1> USE Ids, MaxRunsAssumption
      DEF HandleTypes, StateTypes, Stages, Detected, RunTypes, Positions, Updates,
          LocksHeldInside, PathInv, LockInv, EpochInv, LiveInv, IsCurrent, ShownInv,
          WritesAreOwn, StatusInv, Stage, Speaks, handleVars, stateVars, ctlVars, supVars,
          workVars, Take, At, Goto, Updating, Updated, DropStateLock, Sent, ClearWork,
          NewEpoch, Runs
  <1>1. ASSUME NEW c \in Callers, Caller(c)
        PROVE  StatusInv'
    <2>1. CASE StartLock(c)
      <3>1. \A k \in Runs : (Speaks(k)' => Speaks(k)) /\ Stage(k)' = Stage(k)
        BY <2>1 DEF StartLock
      <3>2. \A d \in Callers : callerpc'[d] = callerpc[d] \/ callerpc'[d] = "start"
        BY <2>1 DEF StartLock
      <3> QED
        BY <2>1, <3>1, <3>2 DEF StartLock
    <2>2. CASE Create(c)
      <3>1. \A k \in Runs : sup[k] # "off" => k \in 1..started
        OBVIOUS
      <3>2. \A k \in 1..started : runEpoch'[k] # epoch'
        BY <2>2 DEF Create
      <3> QED
        BY <2>2, <3>1, <3>2 DEF Create
    <2>3. CASE Reset(c)
      <3>1. \A k \in Runs : sup[k] # "off" => ~IsCurrent(k)
        BY <2>3 DEF Reset
      <3> QED
        BY <2>3, <3>1 DEF Reset
    <2>4. CASE Spawn(c)
      <3>1. \A k \in Runs : sup[k] # "off" => ~IsCurrent(k)
        BY <2>4 DEF Spawn
      <3>2. \A k \in Runs : Speaks(k)' => Speaks(k) \/ k = started
        BY <2>4 DEF Spawn
      <3> QED
        BY <2>4, <3>1, <3>2 DEF Spawn
    <2>5. CASE SpawnFails(c)
      BY <2>5 DEF SpawnFails
    <2>6. CASE StopLock(c)
      BY <2>6 DEF StopLock
    <2>7. CASE StopReport(c)
      <3>1. run = 0 /\ victim = 0
        BY <2>7 DEF StopReport
      <3>2. \A k \in Runs : sup[k] # "off" => ~IsCurrent(k)
        BY <3>1, LastIsCurrent
      <3>3. \A k \in Runs : ~Speaks(k)'
        BY <2>7, <3>2 DEF StopReport
      <3>4. \A d \in Callers : callerpc'[d] = "idle"
        BY <2>7 DEF StopReport
      <3> QED
        BY <3>3, <3>4
    <2> QED
      BY ONLY <2>1, <2>2, <2>3, <2>4, <2>5, <2>6, <2>7, <1>1 DEF Caller
  <1>2. CASE Close \/ Detecting \/ UNCHANGED vars
    <2>1. CASE CloseBump
      BY <2>1 DEF CloseBump
    <2>2. CASE DetectWrite
      BY <2>2 DEF DetectWrite
    <2>3. CASE CloseFlag \/ CloseEmpty \/ CloseCancel \/ Detect \/ DetectCheck \/ UNCHANGED
        vars
      <3>1. UNCHANGED <<sup, epoch, runEpoch, stateLock, pending, tried, callerpc, snap>>
        BY ONLY <2>3 DEF CloseFlag, CloseEmpty, CloseCancel, Detect, DetectCheck, vars
      <3> QED
        BY ONLY <3>1, StatusInv
    <2> QED
      BY ONLY <2>1, <2>2, <2>3, <1>2 DEF Close, Detecting
  <1>3. ASSUME NEW k \in Runs, RunStep(k)
        PROVE  StatusInv'
    <2>1. CASE Benchmark(k)
      BY <2>1 DEF Benchmark
    <2>2. CASE Planned(k)
      <3>1. CASE Goto(k, "done") /\ UNCHANGED pending /\ Stopping(k)
        BY <2>2, <3>1 DEF Planned, Stopping
      <3>2. CASE Updating(k, "devices", "spawn")
        BY <2>2, <3>2, SMTT(30) DEF Planned
      <3> QED
        BY <2>2, <3>1, <3>2 DEF Planned
    <2>3. CASE SpawnDevices(k)
      BY <2>3 DEF SpawnDevices
    <2>4. CASE RuntimeReady(k)
      BY <2>4 DEF RuntimeReady
    <2>5. CASE RuntimeFails(k)
      BY <2>5 DEF RuntimeFails
    <2>6. CASE Attempt(k)
      BY <2>6 DEF Attempt
    <2>7. CASE Connect(k)
      BY <2>7 DEF Connect
    <2>8. CASE DialFails(k)
      BY <2>8 DEF DialFails
    <2>9. CASE PublishCheck(k)
      BY <2>9 DEF PublishCheck
    <2>10. CASE PublishSet(k)
      BY <2>10 DEF PublishSet
    <2>11. CASE Lost(k)
      BY <2>11 DEF Lost
    <2>12. CASE Incompatible(k)
      BY <2>12 DEF Incompatible
    <2>13. CASE ClearLost(k)
      BY <2>13 DEF ClearLost
    <2>14. CASE Cancelled(k)
      BY <2>14 DEF Cancelled
    <2>15. CASE FinalClear(k)
      BY <2>15 DEF FinalClear
    <2>16. CASE UpdateLock(k)
      BY <2>16 DEF UpdateLock, IsCurrent
    <2>17. CASE UpdateWrite(k)
      <3>1. k = shown /\ \A c \in Callers : callerpc[c] # "spawn"
        BY <2>17 DEF UpdateWrite
      <3>2. \A j \in Runs : Speaks(j)' => j = started /\ sup[j] # "off"
        BY <2>17, LastIsCurrent DEF UpdateWrite
      <3>3. snap.status \in Stage(k)
        BY <2>17 DEF UpdateWrite
      <3>4. ASSUME Speaks(k)'
            PROVE  snap'.status \in Stage(k)'
        <4>1. pending[k] # "error" /\ pending'[k] = "none" /\ sup'[k] = sup[k]
          BY <2>17, <3>4 DEF UpdateWrite
        <4>2. CASE pending[k] \in {"benchmarking", "devices", "connecting"}
          BY <2>17, <3>3, <4>1, <4>2 DEF UpdateWrite, Applied
        <4>3. CASE pending[k] \in {"reconnecting", "connected", "mining", "lost"}
          BY <2>17, <3>3, <4>1, <4>3 DEF UpdateWrite, Applied
        <4> QED
          BY <2>17, <4>1, <4>2, <4>3 DEF UpdateWrite, Updates
      <3>5. \A c \in Callers : callerpc[c] = "stop" => snap'.status \in Stages
        BY <2>17, <3>3 DEF UpdateWrite, Applied, Updates
      <3>6. \A j \in Runs : Speaks(j)' => j = k
        BY <2>17, <3>1, <3>2
      <3> QED
        BY <2>17, <3>1, <3>4, <3>5, <3>6 DEF UpdateWrite
    <2>18. CASE FailLock(k)
      <3>1. CASE OwnsHandle(k)
        <4>1. k = run /\ snap.status \in Stage(k)
          BY <2>18, <3>1, OwnerIsRun, SMTT(30) DEF FailLock
        <4> QED
          BY <2>18, <3>1, <4>1, LastIsCurrent DEF FailLock
      <3>2. CASE ~OwnsHandle(k)
        <4>1. PICK p \in AfterFail(k) : Goto(k, p)
          BY <2>18, <3>2 DEF FailLock
        <4>2. p # "plan" /\ p # "failing"
          BY DEF AfterFail
        <4> QED
          BY <2>18, <3>2, <4>1, <4>2 DEF FailLock
      <3> QED
        BY <3>1, <3>2
    <2>19. CASE FailUnlock(k)
      BY <2>19 DEF FailUnlock, AfterFail
    <2>20. CASE SampleLock(k)
      BY <2>20 DEF SampleLock, IsCurrent
    <2>21. CASE SampleWrite(k)
      BY <2>21 DEF SampleWrite
    <2>22. CASE SampleStops(k) \/ DevicesEnd(k)
      <3>1. UNCHANGED <<sup, epoch, runEpoch, stateLock, pending, tried, callerpc, snap>>
        BY ONLY <2>22 DEF SampleStops, DevicesEnd
      <3> QED
        BY ONLY <3>1, StatusInv
    <2> QED
      BY ONLY <2>1, <2>2, <2>3, <2>4, <2>5, <2>6, <2>7, <2>8, <2>9, <2>10, <2>11, <2>12,
          <2>13, <2>14, <2>15, <2>16, <2>17, <2>18, <2>19, <2>20, <2>21, <2>22, <1>3 DEF
          RunStep, SupWork, NetEvent, Sampling
  <1> QED
    BY ONLY <1>1, <1>2, <1>3, [Next]_vars DEF Next

-----------------------------------------------------------------------------
\* Nothing runs at first.
LEMMA InitHolds == Init => IndInv
  <1> SUFFICES ASSUME Init
               PROVE  IndInv
    OBVIOUS
  <1> USE Ids, MaxRunsAssumption DEF Init, Runs
  <1>1. Types
    <2>1. HandleTypes
      <3>1. 0 \in 0..MaxRuns
        BY ONLY MaxRunsAssumption
      <3> QED
        BY ONLY <3>1, Init DEF Init, HandleTypes
    <2>2. LocksHeldInside
      BY DEF LocksHeldInside
    <2>3. StateTypes
      BY DEF StateTypes, Stages, Detected
    <2>4. RunTypes
      BY DEF RunTypes, Positions, Updates
    <2> QED
      BY <2>1, <2>2, <2>3, <2>4 DEF Types
  <1>2. RunsInv
    BY DEF RunsInv, PathInv, LockInv, EpochInv, LiveInv
  <1>3. ShownInv /\ IdleInv /\ StatusInv
    BY DEF ShownInv, WritesAreOwn, IdleInv, IdleSnapshot, StatusInv, Speaks
  <1> QED
    BY <1>1, <1>2, <1>3 DEF IndInv

LEMMA Kept == IndInv /\ [Next]_vars => IndInv'
  <1> SUFFICES ASSUME IndInv, [Next]_vars
               PROVE  IndInv'
    OBVIOUS
  <1> USE DEF IndInv, Types, RunsInv
  <1>1. HandleTypes' /\ StateTypes' /\ RunTypes' /\ LocksHeldInside'
    BY HandleTypesKept, StateTypesKept, RunTypesKept, LocksHeldInsideKept
  <1>2. PathInv' /\ LockInv' /\ EpochInv' /\ LiveInv'
    BY PathInvKept, LockInvKept, EpochInvKept, LiveInvKept
  <1>3. ShownInv' /\ IdleInv' /\ StatusInv'
    BY ShownInvKept, IdleInvKept, StatusInvKept
  <1> QED
    BY <1>1, <1>2, <1>3

LEMMA AlwaysInd == Spec => []IndInv
  BY InitHolds, Kept, PTL DEF Spec

\* Type correctness, and locks are held only in critical sections.
THEOREM LifecycleTypes == Spec => []TypeOK
  <1>1. IndInv => TypeOK
    BY DEF IndInv, Types, TypeOK
  <1> QED
    BY <1>1, AlwaysInd, PTL

\* The run in the handle alone has a voice; all earlier ones are muted and told to stop.
THEOREM SupersededAreMute == Spec => []LiveRunHasVoice
  <1>1. IndInv => LiveRunHasVoice
    <2> SUFFICES ASSUME IndInv, runLock = NoOne, NEW k \in 1..started
                 PROVE  IF k = run THEN IsCurrent(k) /\ ~stopFlag[k]
                        ELSE sup[k] = "off" \/ (~IsCurrent(k) /\ stopFlag[k] /\ cancelled[k])
      BY DEF LiveRunHasVoice
    <2>1. victim = 0
      BY DEF IndInv, RunsInv, LockInv
    <2>2. k # 0
      BY DEF IndInv, Types, HandleTypes
    <2> QED
      BY <2>1, <2>2 DEF IndInv, RunsInv, LiveInv
  <1> QED
    BY <1>1, AlwaysInd, PTL

\* No run writes into a snapshot that was reset for another.
THEOREM NobodyOverwrites == Spec => []WritesAreOwn
  <1>1. IndInv => WritesAreOwn
    BY DEF IndInv, ShownInv
  <1> QED
    BY <1>1, AlwaysInd, PTL

\* What stop and fail report stays reported.
THEOREM IdleStaysIdle == Spec => []IdleSnapshot
  <1>1. IndInv => IdleSnapshot
    BY DEF IndInv, IdleInv
  <1> QED
    BY <1>1, AlwaysInd, PTL

\* A supervisor that has returned left no work in its cell.
THEOREM FinishedRunsIdle == Spec => []FinishedRunIdles
  <1>1. IndInv => FinishedRunIdles
    BY DEF IndInv, RunsInv, PathInv, FinishedRunIdles
  <1> QED
    BY <1>1, AlwaysInd, PTL

-----------------------------------------------------------------------------
(* The handle's promise.                                                    *)

\* A supervisor's update moves the status along the stages, or ends the run.
LEMMA UpdateSimulated ==
  ASSUME IndInv, NEW k \in Runs, UpdateWrite(k)
  PROVE  [Handle!Next]_<<shown, snap.status>>
  <1>1. snap.status \in Stage(k)
    BY DEF UpdateWrite, IndInv, StatusInv, Speaks, RunsInv, PathInv, LockInv
  <1>2. snap' = Applied(pending[k], k) /\ shown' = shown
    BY DEF UpdateWrite
  <1>3. pending[k] \in Updates
    BY DEF UpdateWrite, IndInv, Types, RunTypes
  <1>4. /\ pending[k] \in {"connecting", "reconnecting", "connected", "mining", "lost"} => tried[k]
        /\ pending[k] = "devices" => sup[k] = "spawn"
        /\ pending[k] = "benchmarking" => sup[k] = "plan"
        /\ sup[k] = "plan" => ~tried[k]
    BY DEF IndInv, RunsInv, PathInv
  <1>5. /\ sup[k] = "plan" => pending[k] = "benchmarking" \/ pending[k] = "error"
        /\ pending[k] = "error" => sup[k] = "failing"
    BY <1>3, <1>4 DEF IndInv, RunsInv, LockInv, Updates
  <1>6. snap.status \in Stages
    BY <1>1 DEF Stage, Stages
  <1>7. CASE snap'.status = snap.status
    BY <1>2, <1>7
  <1>8. CASE pending[k] = "error"
    BY <1>2, <1>6, <1>8, <1>5
    DEF Applied, Handle!Next, Handle!End, Handle!Stages, Handle!Ends, Stages, IndInv, Types, StateTypes
  <1>9. CASE pending[k] \in {"benchmarking", "devices"}
    BY <1>1, <1>2, <1>4, <1>9
    DEF Applied, Stage, Handle!Next, Handle!Advance, Handle!Stages, Handle!After, IndInv, Types,
        StateTypes
  <1>10. CASE pending[k] \in {"connecting", "reconnecting", "connected", "mining", "lost"}
    BY <1>1, <1>2, <1>4, <1>10
    DEF Applied, Stage, Handle!Next, Handle!Advance, Handle!Stages, Handle!After, IndInv, Types,
        StateTypes
  <1> QED
    BY <1>3, <1>7, <1>8, <1>9, <1>10 DEF Updates

\* Every step is one of the handle's or leaves what it shows alone.
LEMMA StepSimulated ==
  ASSUME IndInv, [Next]_vars
  PROVE  [Handle!Next]_<<shown, snap.status>>
  <1>1. ASSUME NEW c \in Callers, Reset(c)
        PROVE  Handle!Next
    BY <1>1 DEF Reset, IndInv, Types, StateTypes, ShownInv, Handle!Next, Handle!Start
  <1>2. ASSUME NEW c \in Callers, StopReport(c)
        PROVE  Handle!Next
    BY <1>2 DEF StopReport, IndInv, Types, StateTypes, StatusInv, stateVars, Stages,
                Handle!Next, Handle!End, Handle!Stages, Handle!Ends
  <1>3. ASSUME NEW k \in Runs, SampleWrite(k)
        PROVE  UNCHANGED <<shown, snap.status>>
    BY <1>3 DEF SampleWrite, IndInv, Types, StateTypes
  <1>4. CASE DetectWrite
    BY <1>4 DEF DetectWrite, IndInv, Types, StateTypes
  <1>5. ASSUME NEW c \in Callers,
               StartLock(c) \/ Create(c) \/ Spawn(c) \/ SpawnFails(c) \/ StopLock(c)
        PROVE  UNCHANGED <<shown, snap>>
    BY ONLY <1>5 DEF StartLock, Create, Spawn, SpawnFails, StopLock, stateVars
  <1>6. CASE Close \/ Detect \/ DetectCheck \/ UNCHANGED vars
    BY ONLY <1>6 DEF Close, CloseBump, CloseFlag, CloseEmpty, CloseCancel, Detect, DetectCheck,
                     vars, stateVars
  <1>7. ASSUME NEW k \in Runs,
               \/ Benchmark(k) \/ Planned(k) \/ NetEvent(k) \/ SpawnDevices(k) \/ RuntimeReady(k)
               \/ RuntimeFails(k) \/ Attempt(k) \/ PublishSet(k) \/ ClearLost(k) \/ FailUnlock(k)
               \/ FinalClear(k) \/ UpdateLock(k) \/ FailLock(k) \/ Cancelled(k) \/ SampleLock(k)
               \/ SampleStops(k) \/ DevicesEnd(k)
        PROVE  UNCHANGED <<shown, snap>>
    BY ONLY <1>7
    DEF Benchmark, Planned, NetEvent, Connect, DialFails, PublishCheck, Lost, Incompatible,
        SpawnDevices, RuntimeReady, RuntimeFails, Attempt, PublishSet, ClearLost, FailUnlock,
        FinalClear, UpdateLock, FailLock, Cancelled, SampleLock, SampleStops, DevicesEnd, stateVars
  <1> QED
    BY <1>1, <1>2, <1>3, <1>4, <1>5, <1>6, <1>7, UpdateSimulated
    DEF Next, Caller, RunStep, SupWork, Sampling, Detecting

\* With its mutexes, epochs and threads hidden, the engine does what the handle promises.
THEOREM ImplementsHandle == Spec => RefinesHandle
  <1>1. Init => Handle!Init
    BY DEF Init, Handle!Init
  <1>2. IndInv /\ [Next]_vars => [Handle!Next]_<<shown, snap.status>>
    BY StepSimulated
  <1> QED
    BY <1>1, <1>2, AlwaysInd, PTL DEF Spec, RefinesHandle, Handle!Spec
=============================================================================
