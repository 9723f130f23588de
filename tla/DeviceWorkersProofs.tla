------------------------ MODULE DeviceWorkersProofs -------------------------
(***************************************************************************)
(* What TLAPS proves of DeviceWorkers: its safety properties hold for any  *)
(* devices, lanes, batch sizes and sizes of the nonce and roll spaces.     *)
(***************************************************************************)
EXTENDS DeviceWorkers, TLAPS

\* Ids are handed out one per publication.
IdBound == nextId <= sets + 1

\* With the bound, the ids in use are those of Work.
TypeInv == TypeOK /\ IdBound

\* Threads start at the top of their loops.
LEMMA TypeInit == Init => TypeOK /\ IdBound
  <1> SUFFICES ASSUME Init
               PROVE  TypeOK /\ IdBound
    OBVIOUS
  <1>1. CellTypeOK
    BY DEF Init, CellInit, CellTypeOK
  <1>2. 0 \in 0..(RollSpace - 1) /\ 0 \in 0..NonceSpace /\ 0 \in 0..(RollSpace + 1)
        /\ 1 \in 1..(MaxSets + 1) /\ 0 \in 0..MaxSets
    BY SpacesAssumption
  <1>3. \A t \in Threads : ~Walking(t)
    BY DEF Init, Walking
  <1>4. IdBound
    BY DEF Init, IdBound
  <1>5. /\ pc \in [Threads -> {"check", "get", "roll", "mine", "recheck", "done"}]
        /\ seen \in [Threads -> Nat] /\ work \in [Threads -> Work \cup {NoWork}]
    BY DEF Init
  <1>6. /\ roll \in [Threads -> 0..(RollSpace - 1)] /\ xroll \in [Threads -> 0..(RollSpace - 1)]
        /\ next \in [Threads -> 0..NonceSpace] /\ rolls \in [Threads -> 0..(RollSpace + 1)]
        /\ times \in [Headers -> Nat]
    BY <1>2 DEF Init
  <1> QED
    BY <1>1, <1>2, <1>3, <1>4, <1>5, <1>6 DEF Init, TypeOK

\* The engine's actions keep the types.
LEMMA EngineKeepsTypes ==
  ASSUME TypeOK, IdBound, Net \/ Control
  PROVE  TypeOK' /\ IdBound'
  <1>1. CASE Publish
    BY <1>1, SpacesAssumption, SettersAssumption, WorkAssumption
    DEF Publish, SetWrite, TypeOK, IdBound, CellTypeOK, Walking, threadVars
  <1>2. CASE Clear
    BY <1>2, SpacesAssumption, SettersAssumption
    DEF Clear, SetWrite, TypeOK, IdBound, CellTypeOK, Walking, threadVars
  <1>3. CASE NetBump \/ ControlBump
    BY <1>3 DEF NetBump, ControlBump, SetBump, TypeOK, IdBound, CellTypeOK, Walking,
                threadVars, envVars
  <1>4. CASE RaiseStop
    BY <1>4 DEF RaiseStop, TypeOK, IdBound, CellTypeOK, Walking, threadVars, cellVars
  <1>5. CASE ShutdownWrite
    BY <1>5, SettersAssumption
    DEF ShutdownWrite, SetWrite, TypeOK, IdBound, CellTypeOK, Walking, threadVars
  <1> QED
    BY <1>1, <1>2, <1>3, <1>4, <1>5 DEF Net, Control

\* Going back to the top of its loop, a thread keeps its types.
LEMMA BackToTopTypes ==
  ASSUME TypeOK, NEW t \in Threads, BackToTop(t)
  PROVE  /\ pc' \in [Threads -> {"check", "get", "roll", "mine", "recheck", "done"}]
         /\ seen' \in [Threads -> Nat]
         /\ work' \in [Threads -> Work \cup {NoWork}]
         /\ xroll' \in [Threads -> 0..(RollSpace - 1)]
         /\ next' \in [Threads -> 0..NonceSpace]
         /\ \A u \in Threads : pc'[u] \in {"roll", "mine", "recheck"} => work'[u] \in Work
  BY SpacesAssumption DEF BackToTop, TypeOK, Walking

\* The walk stays within the nonce space.
LEMMA BatchFits ==
  ASSUME NEW b \in Batches, NEW n \in 0..NonceSpace
  PROVE  /\ BatchCount(b, n) \in 0..(NonceSpace - n)
         /\ Advance(b, n) = n + BatchCount(b, n)
         /\ Advance(b, n) \in n..NonceSpace
  BY SpacesAssumption DEF BatchCount, Advance

\* Every step of a hashing thread keeps the types.
LEMMA ThreadKeepsTypes ==
  ASSUME TypeOK, IdBound, NEW t \in Threads, Thread(t)
  PROVE  TypeOK' /\ IdBound'
  <1>1. CASE Finish(t)
    BY <1>1 DEF Finish, TypeOK, IdBound, CellTypeOK, Walking, cellVars, envVars
  <1>2. CASE ReadGeneration(t)
    BY <1>2 DEF ReadGeneration, TypeOK, IdBound, CellTypeOK, Walking, cellVars, envVars
  <1>3. CASE Get(t)
    <2>1. CASE current = NoWork
      BY <1>3, <2>1, BackToTopTypes
      DEF Get, TypeOK, IdBound, CellTypeOK, Walking, cellVars, envVars, BackToTop
    <2>2. CASE current # NoWork
      BY <1>3, <2>2 DEF Get, TypeOK, IdBound, CellTypeOK, Walking, cellVars, envVars
    <2> QED
      BY <2>1, <2>2
  <1>4. CASE StartRoll(t)
    <2>1. roll[t] \in 0..(RollSpace - 1) /\ (roll[t] + 1) % RollSpace \in 0..(RollSpace - 1)
      BY SpacesAssumption DEF TypeOK
    <2>2. (IF Wrapped(t) THEN rolls[t] ELSE rolls[t] + 1) \in 0..(RollSpace + 1)
      BY SpacesAssumption DEF TypeOK, Wrapped
    <2> QED
      BY <1>4, <2>1, <2>2, SpacesAssumption
      DEF StartRoll, NextRoll, TypeOK, IdBound, CellTypeOK, Walking, cellVars, envVars
  <1>5. CASE Batch(t)
    <2>1. next' \in [Threads -> 0..NonceSpace]
      BY <1>5, BatchFits, SpacesAssumption DEF Batch, TypeOK
    <2>2. times' \in [Headers -> Nat]
      BY <1>5 DEF Batch, TypeOK
    <2> QED
      BY <1>5, <2>1, <2>2 DEF Batch, TypeOK, IdBound, CellTypeOK, Walking, cellVars, envVars
  <1>6. CASE DispatchFails(t) \/ LeaveWork(t)
    BY <1>6, BackToTopTypes
    DEF DispatchFails, LeaveWork, TypeOK, IdBound, CellTypeOK, Walking, cellVars, envVars
  <1>7. CASE StayOnWork(t)
    BY <1>7 DEF StayOnWork, TypeOK, IdBound, CellTypeOK, Walking, cellVars, envVars
  <1> QED
    BY <1>1, <1>2, <1>3, <1>4, <1>5, <1>6, <1>7 DEF Thread

\* A stuttering step keeps the types.
LEMMA StutterKeepsTypes ==
  ASSUME TypeOK, IdBound, UNCHANGED vars
  PROVE  TypeOK' /\ IdBound'
  BY DEF TypeOK, IdBound, CellTypeOK, Walking, vars, cellVars, envVars, threadVars

\* Type correctness, for every value of the constants.
LEMMA TypesKept == TypeInv /\ [Next]_vars => TypeInv'
  BY EngineKeepsTypes, ThreadKeepsTypes, StutterKeepsTypes DEF Next, TypeInv

THEOREM TypeCorrect == Spec => []TypeOK
  <1>1. Init => TypeInv
    BY TypeInit DEF TypeInv
  <1>2. TypeInv => TypeOK
    BY DEF TypeInv
  <1> QED
    BY <1>1, <1>2, TypesKept, PTL DEF Spec

-----------------------------------------------------------------------------
(* Superseded work is never taken for current.                              *)

\* No thread has seen a generation that is still to come.
SeenIsPast == \A t \in Threads : seen[t] <= generation

StaleInv == SeenIsPast /\ UpToDateMeansCurrent

LEMMA StaleInit == Init => StaleInv
  BY DEF Init, CellInit, StaleInv, SeenIsPast, UpToDateMeansCurrent, Walking

\* A set that is half done disarms the property, and when it is complete every
\* thread has seen an older generation; a thread takes its work after its
\* generation, so what it took is current unless a newer generation follows.
LEMMA StaleKept ==
  ASSUME TypeInv, StaleInv, [Next]_vars
  PROVE  StaleInv'
  <1> USE DEF TypeInv, TypeOK, CellTypeOK, StaleInv, SeenIsPast, UpToDateMeansCurrent, Walking
  <1>1. CASE Publish \/ Clear \/ ShutdownWrite
    BY <1>1 DEF Publish, Clear, ShutdownWrite, SetWrite, threadVars
  <1>2. CASE NetBump \/ ControlBump
    BY <1>2 DEF NetBump, ControlBump, SetBump, threadVars, envVars
  <1>3. CASE RaiseStop
    BY <1>3 DEF RaiseStop, threadVars, cellVars
  <1>4. ASSUME NEW t \in Threads, Thread(t)
        PROVE  StaleInv'
    <2>1. CASE Finish(t)
      BY <2>1 DEF Finish, cellVars, envVars
    <2>2. CASE ReadGeneration(t)
      BY <2>2 DEF ReadGeneration, cellVars, envVars
    <2>3. CASE Get(t)
      BY <2>3 DEF Get, BackToTop, cellVars, envVars
    <2>4. CASE StartRoll(t)
      BY <2>4 DEF StartRoll, cellVars, envVars
    <2>5. CASE Batch(t)
      BY <2>5 DEF Batch, cellVars, envVars
    <2>6. CASE DispatchFails(t) \/ LeaveWork(t)
      BY <2>6 DEF DispatchFails, LeaveWork, BackToTop, cellVars, envVars
    <2>7. CASE StayOnWork(t)
      BY <2>7 DEF StayOnWork, cellVars, envVars
    <2> QED
      BY <1>4, <2>1, <2>2, <2>3, <2>4, <2>5, <2>6, <2>7 DEF Thread
  <1>5. CASE UNCHANGED vars
    BY <1>5 DEF vars, cellVars, threadVars
  <1> QED
    BY <1>1, <1>2, <1>3, <1>4, <1>5 DEF Next, Net, Control

\* UpToDateMeansCurrent, for any number of setters' calls, devices and threads.
THEOREM NeverStale == Spec => []UpToDateMeansCurrent
  <1>1. Init => TypeInv /\ StaleInv
    BY TypeInit, StaleInit DEF TypeInv
  <1>2. TypeInv /\ StaleInv /\ [Next]_vars => (TypeInv /\ StaleInv)'
    BY TypesKept, StaleKept
  <1>3. StaleInv => UpToDateMeansCurrent
    BY DEF StaleInv
  <1> QED
    BY <1>1, <1>2, <1>3, PTL DEF Spec

-----------------------------------------------------------------------------
(* No hash is computed twice.                                               *)

\* A number below the modulus is its own remainder.
LEMMA SmallMod ==
  ASSUME NEW n \in Nat, NEW m \in Nat, n < m
  PROVE  n % m = n
  OBVIOUS

\* A thread is a device and a number below the device's clamped thread count.
LEMMA ThreadRange ==
  ASSUME NEW t \in Threads
  PROVE  /\ t = <<t[1], t[2]>>
         /\ t[1] \in 0..(DeviceSlots - 1)
         /\ t[2] \in 0..(SubLanes - 1)
  <1>1. PICK d \in Devices : t \in {d} \X (0..(ThreadCount(d) - 1))
    BY DEF Threads
  <1>2. t = <<t[1], t[2]>> /\ t[1] = d /\ t[2] \in 0..(ThreadCount(d) - 1)
    BY <1>1
  <1>3. ThreadCount(d) \in Nat /\ ThreadCount(d) <= SubLanes
    BY DevicesAssumption, SpacesAssumption DEF ThreadCount
  <1> QED
    BY <1>2, <1>3, DevicesAssumption, SpacesAssumption

\* Lanes are well-formed, and no two threads share one: the clamp in
\* CpuDevice::new keeps sub-lanes apart, the 16 bits of an index devices.
LEMMA LanesDiffer ==
  /\ \A t \in Threads : LaneOf(t) \in Lanes
  /\ \A t, u \in Threads : LaneOf(t) = LaneOf(u) => t = u
  <1>1. ASSUME NEW t \in Threads
        PROVE  LaneOf(t) = t
    <2>1. t[1] % DeviceSlots = t[1]
      BY ThreadRange, SmallMod, DevicesAssumption
    <2>2. t[2] % SubLanes = t[2]
      BY ThreadRange, SmallMod, SpacesAssumption
    <2> QED
      BY <2>1, <2>2, ThreadRange DEF LaneOf, Lane
  <1>2. \A t \in Threads : t \in Lanes
    BY ThreadRange DEF Lanes
  <1> QED
    BY <1>1, <1>2

\* The roll counter of a thread that has not wrapped is its history.
RollIsHistory ==
    \A t \in Threads : ~Wrapped(t) =>
        /\ rolls[t] < RollSpace => roll[t] = rolls[t]
        /\ pc[t] \in {"mine", "recheck"} => rolls[t] = xroll[t] + 1

\* What has been hashed in a thread's lane lies behind it: in an earlier roll,
\* or in this roll below the next nonce.
HashedIsBehind ==
    \A t \in Threads : \A h \in Headers :
        h[2] = LaneOf(t) /\ times[h] > 0 /\ ~Wrapped(t) =>
            /\ h[3] < rolls[t]
            /\ pc[t] \in {"mine", "recheck"} /\ h[3] = xroll[t] => h[4] < next[t]

HashInv == RollIsHistory /\ HashedIsBehind /\ NoHeaderHashedTwice

LEMMA HashInit == Init => HashInv
  BY SpacesAssumption
  DEF Init, HashInv, RollIsHistory, HashedIsBehind, NoHeaderHashedTwice, Wrapped

\* The nonces of a batch start at the thread's position and end before its next
\* one: the cut at the end of the nonce space leaves nothing to wrap around.
LEMMA BatchRange ==
  ASSUME NEW b \in Batches, NEW n \in 0..NonceSpace
  PROVE  BatchNonces(n, BatchCount(b, n)) = n..(Advance(b, n) - 1)
  <1> DEFINE c == BatchCount(b, n)
  <1>1. c \in 0..(NonceSpace - n) /\ Advance(b, n) = n + c
    BY BatchFits
  <1> HIDE DEF c
  <1>2. \A i \in 0..(c - 1) : (n + i) % NonceSpace = n + i
    BY <1>1, SmallMod, SpacesAssumption
  <1>3. BatchNonces(n, c) = {n + i : i \in 0..(c - 1)}
    BY <1>2 DEF BatchNonces
  <1>4. \A x \in n..(n + c - 1) : x - n \in 0..(c - 1) /\ x = n + (x - n)
    BY <1>1
  <1>5. {n + i : i \in 0..(c - 1)} = n..(n + c - 1)
    BY <1>1, <1>4
  <1> QED
    BY <1>1, <1>3, <1>5 DEF c

\* A new roll is one this lane has not hashed before.
LEMMA StartRollKeepsHashInv ==
  ASSUME TypeInv, HashInv, NEW t \in Threads, StartRoll(t)
  PROVE  HashInv'
  <1> USE SpacesAssumption DEF TypeInv, TypeOK, Wrapped
  <1>1. /\ times' = times
        /\ xroll' = [xroll EXCEPT ![t] = roll[t]]
        /\ roll' = [roll EXCEPT ![t] = (roll[t] + 1) % RollSpace]
        /\ rolls' = [rolls EXCEPT ![t] = IF Wrapped(t) THEN rolls[t] ELSE rolls[t] + 1]
        /\ pc' = [pc EXCEPT ![t] = "mine"]
        /\ next' = [next EXCEPT ![t] = 0]
    BY DEF StartRoll, NextRoll
  <1>2. ASSUME ~Wrapped(t)'
        PROVE  /\ rolls[t] < RollSpace /\ rolls'[t] = rolls[t] + 1
               /\ xroll'[t] = rolls[t]
               /\ rolls'[t] < RollSpace => roll'[t] = rolls'[t]
    <2>1. rolls[t] < RollSpace /\ rolls'[t] = rolls[t] + 1
      BY <1>1, <1>2
    <2>2. roll[t] = rolls[t]
      BY <2>1 DEF HashInv, RollIsHistory
    <2>3. rolls[t] + 1 < RollSpace => (rolls[t] + 1) % RollSpace = rolls[t] + 1
      BY SmallMod
    <2> QED
      BY <1>1, <2>1, <2>2, <2>3
  <1>3. RollIsHistory'
    BY <1>1, <1>2 DEF HashInv, RollIsHistory
  <1>4. HashedIsBehind'
    <2> SUFFICES ASSUME NEW u \in Threads, NEW h \in Headers, h[2] = LaneOf(u),
                        times'[h] > 0, ~Wrapped(u)'
                 PROVE  /\ h[3] < rolls'[u]
                        /\ pc'[u] \in {"mine", "recheck"} /\ h[3] = xroll'[u] => h[4] < next'[u]
      BY DEF HashedIsBehind, LaneOf
    <2>1. CASE u = t
      <3>1. h[3] \in 0..(RollSpace - 1) /\ h[3] < rolls[t]
        BY <1>1, <1>2, <2>1 DEF HashInv, HashedIsBehind, Headers
      <3> QED
        BY <1>1, <1>2, <2>1, <3>1
    <2>2. CASE u # t
      BY <1>1, <2>2 DEF HashInv, HashedIsBehind
    <2> QED
      BY <2>1, <2>2
  <1>5. NoHeaderHashedTwice'
    BY <1>1 DEF HashInv, NoHeaderHashedTwice
  <1> QED
    BY <1>3, <1>4, <1>5 DEF HashInv

\* The headers a batch of thread t hashes, for a batch size of b.
InBatch(t, b, h) ==
    /\ ~Wrapped(t)
    /\ h[1] = work[t].body /\ h[2] = LaneOf(t) /\ h[3] = xroll[t]
    /\ h[4] \in BatchNonces(next[t], BatchCount(b, next[t]))

\* A batch hashes only what lies ahead of its thread, so nothing a second time.
LEMMA BatchKeepsHashInv ==
  ASSUME TypeInv, HashInv, NEW t \in Threads, Batch(t)
  PROVE  HashInv'
  <1> USE SpacesAssumption DEF TypeInv, TypeOK
  <1>1. PICK b \in Batches :
          /\ next' = [next EXCEPT ![t] = Advance(b, next[t])]
          /\ times' = [h \in Headers |-> IF InBatch(t, b, h) THEN times[h] + 1 ELSE times[h]]
    BY DEF Batch, InBatch
  <1>2. /\ pc[t] = "mine" /\ pc' = [pc EXCEPT ![t] = "recheck"]
        /\ UNCHANGED <<work, roll, xroll, rolls>>
    BY DEF Batch
  <1>3. next[t] \in 0..NonceSpace /\ next'[t] \in next[t]..NonceSpace
    BY <1>1, BatchFits
  <1>4. ASSUME NEW h \in Headers, InBatch(t, b, h)
        PROVE  /\ ~Wrapped(t) /\ h[2] = LaneOf(t) /\ h[3] = xroll[t]
               /\ next[t] <= h[4] /\ h[4] < next'[t] /\ times[h] = 0
    <2>1. h[4] \in next[t]..(Advance(b, next[t]) - 1)
      BY <1>3, <1>4, BatchRange DEF InBatch
    <2>2. next[t] <= h[4] /\ h[4] < next'[t]
      BY <1>1, <1>3, <2>1
    <2>3. ~(h[4] < next[t])
      BY <1>3, <2>1
    <2>4. ~(times[h] > 0)
      BY <1>2, <1>4, <2>3 DEF HashInv, HashedIsBehind, InBatch
    <2> QED
      BY <1>4, <2>2, <2>4 DEF InBatch
  <1>5. RollIsHistory'
    BY <1>2 DEF HashInv, RollIsHistory, Wrapped
  <1>6. HashedIsBehind'
    <2> SUFFICES ASSUME NEW u \in Threads, NEW h \in Headers, h[2] = LaneOf(u),
                        times'[h] > 0, ~Wrapped(u)'
                 PROVE  /\ h[3] < rolls'[u]
                        /\ pc'[u] \in {"mine", "recheck"} /\ h[3] = xroll'[u] => h[4] < next'[u]
      BY DEF HashedIsBehind, LaneOf
    <2>1. ~Wrapped(u)
      BY <1>2 DEF Wrapped
    <2>2. CASE InBatch(t, b, h)
      <3>1. u = t
        BY <1>4, <2>2, LanesDiffer
      <3>2. rolls[t] = xroll[t] + 1
        BY <1>2, <2>1, <3>1 DEF HashInv, RollIsHistory
      <3> QED
        BY <1>2, <1>4, <2>2, <3>1, <3>2
    <2>3. CASE ~InBatch(t, b, h)
      <3>1. times[h] > 0
        BY <1>1, <2>3
      <3>2. h[3] < rolls[u] /\ (pc[u] \in {"mine", "recheck"} /\ h[3] = xroll[u] => h[4] < next[u])
        BY <2>1, <3>1 DEF HashInv, HashedIsBehind
      <3>3. h[4] \in Nat
        BY DEF Headers
      <3> QED
        BY <1>1, <1>2, <1>3, <3>2, <3>3
    <2> QED
      BY <2>2, <2>3
  <1>7. NoHeaderHashedTwice'
    BY <1>1, <1>4 DEF HashInv, NoHeaderHashedTwice
  <1> QED
    BY <1>5, <1>6, <1>7 DEF HashInv

\* No other step moves a thread that mines, or counts a hash.
LEMMA OthersKeepHashInv ==
  ASSUME TypeInv, HashInv, NEW t \in Threads,
         Finish(t) \/ ReadGeneration(t) \/ Get(t) \/ DispatchFails(t) \/ LeaveWork(t) \/ StayOnWork(t)
  PROVE  HashInv'
  <1> USE DEF TypeInv, TypeOK
  <1>1. UNCHANGED <<roll, rolls, times>>
    BY DEF Finish, ReadGeneration, Get, DispatchFails, LeaveWork, StayOnWork
  <1>2. \A u \in Threads : pc'[u] \in {"mine", "recheck"} =>
            /\ pc[u] \in {"mine", "recheck"}
            /\ xroll'[u] = xroll[u] /\ next'[u] = next[u]
    BY DEF Finish, ReadGeneration, Get, DispatchFails, LeaveWork, StayOnWork, BackToTop
  <1> QED
    BY <1>1, <1>2 DEF HashInv, RollIsHistory, HashedIsBehind, NoHeaderHashedTwice, Wrapped, LaneOf

LEMMA HashKept == TypeInv /\ HashInv /\ [Next]_vars => HashInv'
  <1> SUFFICES ASSUME TypeInv, HashInv, [Next]_vars
               PROVE  HashInv'
    OBVIOUS
  <1>1. CASE Net \/ Control \/ UNCHANGED vars
    <2>1. UNCHANGED threadVars
      BY <1>1 DEF Net, Control, Publish, Clear, NetBump, RaiseStop, ShutdownWrite, ControlBump, vars
    <2> QED
      BY <2>1 DEF threadVars, HashInv, RollIsHistory, HashedIsBehind, NoHeaderHashedTwice,
                  Wrapped, LaneOf
  <1>2. ASSUME NEW t \in Threads, Thread(t)
        PROVE  HashInv'
    BY <1>2, StartRollKeepsHashInv, BatchKeepsHashInv, OthersKeepHashInv DEF Thread
  <1> QED
    BY <1>1, <1>2 DEF Next

\* NoHeaderHashedTwice, for any devices, thread counts and sizes: lanes are kept
\* apart by their construction, and within a lane rolls and nonces only advance.
THEOREM NeverTwice == Spec => []NoHeaderHashedTwice
  <1>1. Init => TypeInv /\ HashInv
    BY TypeInit, HashInit DEF TypeInv
  <1>2. TypeInv /\ HashInv /\ [Next]_vars => (TypeInv /\ HashInv)'
    BY TypesKept, HashKept
  <1>3. HashInv => NoHeaderHashedTwice
    BY DEF HashInv
  <1> QED
    BY <1>1, <1>2, <1>3, PTL DEF Spec

-----------------------------------------------------------------------------
(* Nothing is skipped.                                                      *)

LEMMA SkipInit == Init => NoNonceSkipped
  BY DEF Init, NoNonceSkipped

\* A batch adds exactly the nonces from its thread's old position to its new one.
LEMMA BatchKeepsSkipInv ==
  ASSUME TypeInv, HashInv, NoNonceSkipped, NEW t \in Threads, Batch(t)
  PROVE  NoNonceSkipped'
  <1> USE SpacesAssumption DEF TypeInv, TypeOK
  <1>1. PICK b \in Batches :
          /\ next' = [next EXCEPT ![t] = Advance(b, next[t])]
          /\ times' = [h \in Headers |-> IF InBatch(t, b, h) THEN times[h] + 1 ELSE times[h]]
    BY DEF Batch, InBatch
  <1>2. /\ pc[t] = "mine" /\ pc' = [pc EXCEPT ![t] = "recheck"]
        /\ UNCHANGED <<work, roll, xroll, rolls>>
    BY DEF Batch
  <1>3. next[t] \in 0..NonceSpace /\ next'[t] \in next[t]..NonceSpace
    BY <1>1, BatchFits
  <1>4. \A g \in Headers : times[g] \in Nat /\ times'[g] \in Nat /\ times'[g] >= times[g]
    BY <1>1
  <1> SUFFICES ASSUME NEW u \in Threads, pc'[u] \in {"mine", "recheck"}, ~Wrapped(u)',
                      NEW n \in 0..(next'[u] - 1)
               PROVE  times'[<<work[u].body, LaneOf(u), xroll[u], n>>] >= 1
    BY <1>2 DEF NoNonceSkipped, LaneOf
  <1> DEFINE h == <<work[u].body, LaneOf(u), xroll[u], n>>
  <1>5. pc[u] \in {"mine", "recheck"} /\ ~Wrapped(u)
    BY <1>2 DEF Wrapped
  <1>6. next'[u] \in 0..NonceSpace
    BY <1>1, <1>3
  <1>7. h \in Headers
    <2>1. work[u].body \in Bodies
      BY <1>5, WorkAssumption DEF Walking
    <2>2. n \in 0..(NonceSpace - 1)
      BY <1>6
    <2> QED
      BY <2>1, <2>2, LanesDiffer DEF Headers, Lanes
  <1>8. CASE n \in 0..(next[u] - 1)
    <2>1. times[h] >= 1
      BY <1>5, <1>8 DEF NoNonceSkipped
    <2> HIDE DEF h
    <2>2. times'[h] >= 1
      BY <1>4, <1>7, <2>1
    <2> QED
      BY <2>2 DEF h
  <1>9. CASE n \notin 0..(next[u] - 1)
    <2>1. u = t
      BY <1>1, <1>9
    <2>2. n \in next[t]..(Advance(b, next[t]) - 1)
      BY <1>1, <1>3, <1>9, <2>1
    <2>3. InBatch(t, b, h)
      BY <1>3, <1>5, <2>1, <2>2, BatchRange DEF InBatch
    <2>4. times[h] \in Nat /\ times'[h] = times[h] + 1
      BY <1>1, <1>7, <2>3
    <2> QED
      BY <2>4
  <1> QED
    BY <1>8, <1>9

LEMMA SkipKept == TypeInv /\ HashInv /\ NoNonceSkipped /\ [Next]_vars => NoNonceSkipped'
  <1> SUFFICES ASSUME TypeInv, HashInv, NoNonceSkipped, [Next]_vars
               PROVE  NoNonceSkipped'
    OBVIOUS
  <1> USE DEF TypeInv, TypeOK
  <1>1. CASE Net \/ Control \/ UNCHANGED vars
    <2>1. UNCHANGED threadVars
      BY <1>1 DEF Net, Control, Publish, Clear, NetBump, RaiseStop, ShutdownWrite, ControlBump, vars
    <2> QED
      BY <2>1 DEF threadVars, NoNonceSkipped, Wrapped, LaneOf
  <1>2. ASSUME NEW t \in Threads, StartRoll(t)
        PROVE  NoNonceSkipped'
    <2>1. /\ next' = [next EXCEPT ![t] = 0] /\ pc' = [pc EXCEPT ![t] = "mine"]
          /\ xroll' = [xroll EXCEPT ![t] = NextRoll(t)]
          /\ UNCHANGED <<work, times>>
      BY <1>2 DEF StartRoll
    <2>2. \A u \in Threads : Wrapped(u) => Wrapped(u)'
      BY <1>2, SpacesAssumption DEF StartRoll, Wrapped
    <2>3. next'[t] = 0 /\ 0..(0 - 1) = {}
      BY <2>1
    <2>4. ASSUME NEW u \in Threads, u # t
          PROVE  pc'[u] = pc[u] /\ next'[u] = next[u] /\ xroll'[u] = xroll[u]
      BY <2>1, <2>4
    <2> QED
      BY <2>1, <2>2, <2>3, <2>4 DEF NoNonceSkipped, LaneOf
  <1>3. ASSUME NEW t \in Threads,
               Finish(t) \/ ReadGeneration(t) \/ Get(t) \/ DispatchFails(t) \/ LeaveWork(t) \/ StayOnWork(t)
        PROVE  NoNonceSkipped'
    <2>1. UNCHANGED <<rolls, times>>
      BY <1>3 DEF Finish, ReadGeneration, Get, DispatchFails, LeaveWork, StayOnWork
    <2>2. \A u \in Threads : pc'[u] \in {"mine", "recheck"} =>
              /\ pc[u] \in {"mine", "recheck"} /\ work'[u] = work[u]
              /\ xroll'[u] = xroll[u] /\ next'[u] = next[u]
      BY <1>3 DEF Finish, ReadGeneration, Get, DispatchFails, LeaveWork, StayOnWork, BackToTop
    <2> QED
      BY <2>1, <2>2 DEF NoNonceSkipped, Wrapped, LaneOf
  <1> QED
    BY <1>1, <1>2, <1>3, BatchKeepsSkipInv DEF Next, Thread

\* NoNonceSkipped, for every value of the constants.
THEOREM NeverSkips == Spec => []NoNonceSkipped
  <1>1. Init => TypeInv /\ HashInv /\ NoNonceSkipped
    BY TypeInit, HashInit, SkipInit DEF TypeInv
  <1>2. TypeInv /\ HashInv /\ NoNonceSkipped /\ [Next]_vars => (TypeInv /\ HashInv /\ NoNonceSkipped)'
    BY TypesKept, HashKept, SkipKept
  <1> QED
    BY <1>1, <1>2, PTL DEF Spec
=============================================================================
