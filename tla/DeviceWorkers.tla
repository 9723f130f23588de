--------------------------- MODULE DeviceWorkers ----------------------------
(***************************************************************************)
(* The hashing threads of one run: CPU workers (hansolo-hash               *)
(* cpu/device.rs) and GPU queues (gpu/mod.rs), which run the same loop.    *)
(* A thread reads the cell's generation, takes the work, and walks nonces  *)
(* batch by batch and extranonce rolls one after the other, until a check  *)
(* after a batch shows a newer generation or the stop flag.                *)
(*                                                                         *)
(* Two threads of the engine write the cell: the network task, which       *)
(* publishes and clears, and the thread that shuts the run down.           *)
(***************************************************************************)
EXTENDS WorkCell, FiniteSets

CONSTANTS
    Devices,      \* device indices
    Gpus,         \* those driven by gpu/mod.rs: one queue, dispatches can fail
    Requested,    \* configured CPU threads per device
    DeviceSlots,  \* 2^16: device indices a lane can tell apart
    SubLanes,     \* 2^16: sub-lanes of a device
    NonceSpace,   \* 2^32
    RollSpace,    \* 2^32: values of the roll counter
    Batches,      \* sizes the adaptive batch may take
    Bodies,       \* header contents other than extranonce and nonce
    MaxSets       \* bound: times the network task sets the cell

ASSUME DevicesAssumption ==
    /\ DeviceSlots \in Nat \ {0}
    /\ Devices \subseteq 0..(DeviceSlots - 1)
    /\ Gpus \subseteq Devices
    /\ Requested \in [Devices -> Nat]

ASSUME SpacesAssumption ==
    /\ SubLanes \in Nat \ {0}
    /\ NonceSpace \in Nat \ {0}
    /\ RollSpace \in Nat \ {0, 1}
    /\ Batches \subseteq Nat \ {0}
    /\ Batches # {}
    /\ MaxSets \in Nat

ASSUME SettersAssumption == Setters = {"net", "control"}
ASSUME WorkAssumption == Work = [id : 1..MaxSets, body : Bodies]

VARIABLES
    ctlpc,    \* the shutdown: "idle", "flagged", "cleared"
    nextId,   \* id of the next work
    sets,     \* times the network task set the cell
    stop,     \* the run's stop flag
    pc,       \* thread: "check", "get", "roll", "mine", "recheck", "done"
    seen,     \* thread: generation it read before taking its work
    work,     \* thread: work it took
    roll,     \* thread: next extranonce roll
    xroll,    \* thread: roll in the header being walked
    next,     \* thread: next nonce
    rolls,    \* history: rolls this thread has started, up to RollSpace + 1
    times     \* history: how often each header was hashed

envVars == <<ctlpc, nextId, sets, stop>>
threadVars == <<pc, seen, work, roll, xroll, next, rolls, times>>
vars == <<cellVars, envVars, threadVars>>

\* CpuDevice::new: threads.clamp(1, 1 << 16).  A GPU has one queue.
ThreadCount(d) ==
    IF d \in Gpus \/ Requested[d] = 0 THEN 1
    ELSE IF Requested[d] > SubLanes THEN SubLanes ELSE Requested[d]

\* DeviceCtx::lane(thread as u16): (index << 16) | sub_lane, in 32 bits.
Lane(d, i) == <<d % DeviceSlots, i % SubLanes>>

Threads == UNION {{d} \X (0..(ThreadCount(d) - 1)) : d \in Devices}
LaneOf(t) == Lane(t[1], t[2])
Lanes == (0..(DeviceSlots - 1)) \X (0..(SubLanes - 1))

\* A header is fixed by the work's fields, the extranonce and the nonce.
Headers == Bodies \X Lanes \X (0..(RollSpace - 1)) \X (0..(NonceSpace - 1))

Init ==
    /\ CellInit
    /\ ctlpc = "idle"
    /\ nextId = 1 /\ sets = 0
    /\ stop = FALSE
    /\ pc = [t \in Threads |-> "check"]
    /\ seen = [t \in Threads |-> 0]
    /\ work = [t \in Threads |-> NoWork]
    /\ roll = [t \in Threads |-> 0]
    /\ xroll = [t \in Threads |-> 0]
    /\ next = [t \in Threads |-> 0]
    /\ rolls = [t \in Threads |-> 0]
    /\ times = [h \in Headers |-> 0]

-----------------------------------------------------------------------------
(* The engine's side. *)

\* The last step of RunCtx::publish.  Its stop check came before, so the flag
\* may be up by now.  Identical work may be sent again under a new id.
Publish ==
    /\ sets < MaxSets
    /\ \E b \in Bodies : SetWrite("net", [id |-> nextId, body |-> b])
    /\ nextId' = nextId + 1
    /\ sets' = sets + 1
    /\ UNCHANGED <<ctlpc, stop, threadVars>>

\* RunCtx::clear_work: connection lost, or the supervisor's last step.
Clear ==
    /\ sets < MaxSets
    /\ SetWrite("net", NoWork)
    /\ sets' = sets + 1
    /\ UNCHANGED <<ctlpc, nextId, stop, threadVars>>

NetBump == SetBump("net") /\ UNCHANGED <<envVars, threadVars>>

\* RunHandle::shutdown: stop.store(true), then work.set(None).
RaiseStop ==
    /\ ctlpc = "idle"
    /\ ctlpc' = "flagged"
    /\ stop' = TRUE
    /\ UNCHANGED <<cellVars, nextId, sets, threadVars>>

ShutdownWrite ==
    /\ ctlpc = "flagged"
    /\ SetWrite("control", NoWork)
    /\ ctlpc' = "cleared"
    /\ UNCHANGED <<nextId, sets, stop, threadVars>>

ControlBump == SetBump("control") /\ UNCHANGED <<envVars, threadVars>>

-----------------------------------------------------------------------------
(* A hashing thread.  Its locals are dropped when it goes back to the top. *)

\* More rolls than the counter can tell apart: 2^64 hashes in one lane.
Wrapped(t) == rolls[t] > RollSpace

BackToTop(t) ==
    /\ pc' = [pc EXCEPT ![t] = "check"]
    /\ seen' = [seen EXCEPT ![t] = 0]
    /\ work' = [work EXCEPT ![t] = NoWork]
    /\ xroll' = [xroll EXCEPT ![t] = 0]
    /\ next' = [next EXCEPT ![t] = 0]

\* Mutant: a thread that has not mined yet does not look at the stop flag.
LateStopCheck(t) == stop /\ rolls[t] > 0

\* while !ctx.stopping()
SeesStop(t) == stop

Finish(t) ==
    /\ pc[t] = "check"
    /\ SeesStop(t)
    /\ pc' = [pc EXCEPT ![t] = "done"]
    /\ UNCHANGED <<cellVars, envVars, seen, work, roll, xroll, next, rolls, times>>

\* let generation = ctx.work.generation()
ReadGeneration(t) ==
    /\ pc[t] = "check"
    /\ ~SeesStop(t)
    /\ pc' = [pc EXCEPT ![t] = "get"]
    /\ seen' = [seen EXCEPT ![t] = generation]
    /\ UNCHANGED <<cellVars, envVars, work, roll, xroll, next, rolls, times>>

\* let Some(work) = ctx.work.get() else { sleep; continue }
Get(t) ==
    /\ pc[t] = "get"
    /\ IF current = NoWork
       THEN BackToTop(t)
       ELSE /\ work' = [work EXCEPT ![t] = current]
            /\ pc' = [pc EXCEPT ![t] = "roll"]
            /\ UNCHANGED <<seen, xroll, next>>
    /\ UNCHANGED <<cellVars, envVars, roll, rolls, times>>

\* Mutant: each work starts its rolls from zero again.
RollFromZero(t) == IF next[t] = NonceSpace THEN roll[t] ELSE 0

\* Rolls keep counting across works.
NextRoll(t) == roll[t]

\* let extranonce = Work::extranonce(lane, *roll); *roll = roll.wrapping_add(1)
StartRoll(t) ==
    /\ pc[t] = "roll"
    /\ xroll' = [xroll EXCEPT ![t] = NextRoll(t)]
    /\ roll' = [roll EXCEPT ![t] = (NextRoll(t) + 1) % RollSpace]
    /\ rolls' = [rolls EXCEPT ![t] = IF Wrapped(t) THEN @ ELSE @ + 1]
    /\ next' = [next EXCEPT ![t] = 0]
    /\ pc' = [pc EXCEPT ![t] = "mine"]
    /\ UNCHANGED <<cellVars, envVars, seen, work, times>>

\* Mutant: the batch is not cut at the end of the nonce space.
UncutCount(b, n) == b

\* (*batch as u64).min(NONCE_SPACE - next)
BatchCount(b, n) == IF b < NonceSpace - n THEN b ELSE NonceSpace - n

\* The nonces backend.search(next as u32, count) and dispatch hash.
BatchNonces(n, count) == {(n + i) % NonceSpace : i \in 0..(count - 1)}

\* Mutant: the walk advances one nonce too far.
SkippingAdvance(b, n) == n + BatchCount(b + 1, n)

\* next += count
Advance(b, n) == n + BatchCount(b, n)

\* One batch.  The size of the next one is measured time, so any of Batches.
Batch(t) ==
    /\ pc[t] = "mine"
    /\ \E b \in Batches :
        /\ next' = [next EXCEPT ![t] = Advance(b, @)]
        /\ times' =
             [h \in Headers |->
                IF /\ ~Wrapped(t)
                   /\ h[1] = work[t].body /\ h[2] = LaneOf(t) /\ h[3] = xroll[t]
                   /\ h[4] \in BatchNonces(next[t], BatchCount(b, next[t]))
                THEN times[h] + 1
                ELSE times[h]]
    /\ pc' = [pc EXCEPT ![t] = "recheck"]
    /\ UNCHANGED <<cellVars, envVars, seen, work, roll, xroll, rolls>>

\* A failed dispatch abandons the range and takes the work afresh.
DispatchFails(t) ==
    /\ t[1] \in Gpus
    /\ pc[t] = "mine"
    /\ BackToTop(t)
    /\ UNCHANGED <<cellVars, envVars, roll, rolls, times>>

\* Mutant: new work is noticed only through the stop flag.
OnlyStopEndsWork(t) == stop

\* if ctx.stopping() || ctx.work.generation() != generation { return }
EndsWork(t) == stop \/ generation # seen[t]

LeaveWork(t) ==
    /\ pc[t] = "recheck"
    /\ EndsWork(t)
    /\ BackToTop(t)
    /\ UNCHANGED <<cellVars, envVars, roll, rolls, times>>

StayOnWork(t) ==
    /\ pc[t] = "recheck"
    /\ ~EndsWork(t)
    /\ pc' = [pc EXCEPT ![t] = IF next[t] < NonceSpace THEN "mine" ELSE "roll"]
    /\ UNCHANGED <<cellVars, envVars, seen, work, roll, xroll, next, rolls, times>>

Thread(t) ==
    \/ Finish(t) \/ ReadGeneration(t) \/ Get(t) \/ StartRoll(t)
    \/ Batch(t) \/ DispatchFails(t) \/ LeaveWork(t) \/ StayOnWork(t)

Net == Publish \/ Clear \/ NetBump
Control == RaiseStop \/ ShutdownWrite \/ ControlBump
Next == Net \/ Control \/ \E t \in Threads : Thread(t)

\* The scheduler runs every thread, and a call to set that has begun is
\* finished; nothing obliges a pool to send work or a user to stop.
Fairness ==
    /\ \A t \in Threads : WF_vars(Thread(t))
    /\ WF_vars(NetBump)
    /\ WF_vars(ShutdownWrite) /\ WF_vars(ControlBump)

Spec == Init /\ [][Next]_vars /\ Fairness

-----------------------------------------------------------------------------
(* Properties. *)

Walking(t) == pc[t] \in {"roll", "mine", "recheck"}

TypeOK ==
    /\ CellTypeOK
    /\ ctlpc \in {"idle", "flagged", "cleared"}
    /\ nextId \in 1..(MaxSets + 1)
    /\ sets \in 0..MaxSets
    /\ stop \in BOOLEAN
    /\ pc \in [Threads -> {"check", "get", "roll", "mine", "recheck", "done"}]
    /\ seen \in [Threads -> Nat]
    /\ work \in [Threads -> Work \cup {NoWork}]
    /\ roll \in [Threads -> 0..(RollSpace - 1)]
    /\ xroll \in [Threads -> 0..(RollSpace - 1)]
    /\ next \in [Threads -> 0..NonceSpace]
    /\ rolls \in [Threads -> 0..(RollSpace + 1)]
    /\ times \in [Headers -> Nat]
    /\ \A t \in Threads : Walking(t) => work[t] \in Work

\* "Two lanes never produce the same header, so no hash is ever computed
\* twice" (work.rs): over every work a run publishes, the same work re-sent
\* included, no header is hashed a second time by any thread of any device.
\* History stops at a thread whose 2^32 rolls have wrapped.
NoHeaderHashedTwice == \A h \in Headers : times[h] <= 1

\* The nonce walk leaves no gap: everything below a thread's position in the
\* current roll has been hashed for the work it is on.
NoNonceSkipped ==
    \A t \in Threads : pc[t] \in {"mine", "recheck"} /\ ~Wrapped(t) =>
        \A n \in 0..(next[t] - 1) :
            times[<<work[t].body, LaneOf(t), xroll[t], n>>] >= 1

\* A thread whose generation is up to date is on the work in the cell, unless a
\* set is between its two steps: superseded work is never taken for current.
UpToDateMeansCurrent ==
    \A t \in Threads :
        Walking(t) /\ seen[t] = generation /\ setting = {} => work[t] = current

\* Work that stays in the cell reaches every thread, and an emptied cell idles
\* every thread: no device goes on hashing for a lost connection.
OnCurrent(t) == IF current = NoWork THEN ~Walking(t) ELSE Walking(t) /\ work[t] = current
DevicesFollowCell == \A t \in Threads : []<>(OnCurrent(t) \/ stop)

\* After the stop flag every thread ends, whatever it was doing.
StopEndsThreads == stop ~> \A t \in Threads : pc[t] = "done"
=============================================================================
