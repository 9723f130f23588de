----------------------------- MODULE HardwarePlan -----------------------------
(***************************************************************************)
(* What a run mines with: the GPUs enumeration keeps, the devices chosen   *)
(* from benchmark rates, the estimate made from the report later, how a    *)
(* device sizes its batches, how a monitored ASIC's rate becomes counted   *)
(* hashes, and how counted hashes become the rates that are shown.         *)
(***************************************************************************)
EXTENDS Integers, Sequences, FiniteSets, SequencesExt, FiniteSetsExt

Unset == "unset"             \* no backend configured
UnsetThreads == -1
AllBackends == << "Scalar", "ShaNi", "Armv8Sha2", "Neon", "Avx2", "Avx512" >>
BackendNames == [b \in ToSet(AllBackends) |->
    CASE b = "Scalar" -> {"scalar", "portable"}
      [] b = "ShaNi" -> {"sha-ni", "shani"}
      [] b = "Armv8Sha2" -> {"armv8-sha2"}
      [] b = "Neon" -> {"neon"}
      [] b = "Avx2" -> {"avx2"}
      [] b = "Avx512" -> {"avx512"}]

(* Backend::from_name, on names already trimmed, in lower case, with '-'. *)
FromName(name) ==
    LET named == {b \in ToSet(AllBackends) : name \in BackendNames[b]}
    IN  IF named = {} THEN Unset ELSE CHOOSE b \in named : TRUE

-----------------------------------------------------------------------------
(* Enumeration: an adapter is [card, api, kind, compute].  The native API  *)
(* goes first; a card seen before is the same GPU under another API.       *)

Rank(api) == CASE api = "metal" -> 0 [] api = "dx12" -> 1 [] api = "vulkan" -> 2 [] OTHER -> 3
ByRank(found) ==
    FlattenSeq([r \in 1..4 |-> SelectSeq(found, LAMBDA a : Rank(a.api) = r - 1)])
ProbedAs(sorted, i) ==
    IF \E j \in 1..i - 1 : sorted[j].card = sorted[i].card THEN "duplicate"
    ELSE IF sorted[i].kind = "software" THEN "software"
    ELSE IF ~sorted[i].compute THEN "no compute"
    ELSE "usable"
(* The indices into the report of the adapters to try, in order. *)
Probe(found) ==
    LET sorted == ByRank(found)
    IN  SelectSeq([i \in 1..Len(sorted) |-> i], LAMBDA i : ProbedAs(sorted, i) = "usable")

-----------------------------------------------------------------------------
(* plan: a machine has its supported backends, their rates per thread, the *)
(* logical cores (0 when unknown), adapters as found with an outcome each  *)
(* (a rate, or -1 when it cannot be opened or fails), and the answering    *)
(* network miners.                                                         *)

Supported(machine) == SelectSeq(AllBackends, LAMBDA b : b \in machine.supported)
(* max_by: the last of the fastest. *)
Fastest(machine) ==
    LET all == Supported(machine)
        best == Max({machine.rates[all[i]] : i \in 1..Len(all)})
    IN  all[Max({i \in 1..Len(all) : machine.rates[all[i]] = best})]
Chosen(config, machine) ==
    LET forced == FromName(config.backend)
    IN  IF forced \in machine.supported THEN forced ELSE Fastest(machine)
PlannedThreads(config, machine) ==
    IF config.threads > 0 THEN config.threads
    ELSE Max({machine.cores, 1})
CpuTotal(config, machine) ==
    IF config.cpu THEN machine.rates[Chosen(config, machine)] * PlannedThreads(config, machine) ELSE 0

(* Two per cent of the CPU. *)
WorthIt(rate, cpuTotal) == rate > 0 /\ (cpuTotal = 0 \/ 50 * rate >= cpuTotal)
CpuBenchmarks(config, machine) ==
    IF ~config.cpu THEN << >>
    ELSE LET all == Supported(machine)
         IN  [i \in 1..Len(all) |-> [kind |-> "cpu", name |-> all[i], rate |-> machine.rates[all[i]],
                                     selected |-> all[i] = Chosen(config, machine)]]
GpuBenchmarks(config, machine) ==
    LET sorted == ByRank(machine.adapters)
        tried == SelectSeq(Probe(machine.adapters), LAMBDA i : sorted[i].rate # -1)
    IN  IF ~config.gpu THEN << >>
        ELSE [k \in 1..Len(tried) |->
                 [kind |-> "gpu", name |-> tried[k], rate |-> sorted[tried[k]].rate,
                  selected |-> WorthIt(sorted[tried[k]].rate, CpuTotal(config, machine))]]
CpuDevice(backend, threads) == [kind |-> "cpu", name |-> backend, threads |-> Min({Max({threads, 1}), 65536})]
Plan(config, machine) ==
    LET gpus == SelectSeq(GpuBenchmarks(config, machine), LAMBDA b : b.selected)
    IN  [benchmarks |-> CpuBenchmarks(config, machine) \o GpuBenchmarks(config, machine),
         devices |-> (IF config.cpu
                      THEN << CpuDevice(Chosen(config, machine), PlannedThreads(config, machine)) >> ELSE << >>)
                     \o [i \in 1..Len(gpus) |-> [kind |-> "gpu", name |-> gpus[i].name, fallback |->
                            IF config.cpu THEN Fastest(machine) ELSE "Scalar"]]
                     \o (IF config.asic
                         THEN [i \in 1..machine.miners |-> [kind |-> "asic", name |-> i]] ELSE << >>)]

(* estimate_from_report: the node client's rate before anything is hashed. *)
EstimateFromReport(config, machine) ==
    LET threads == Max({IF config.threads = UnsetThreads THEN machine.cores ELSE config.threads, 1})
        RateOf(b) == IF ~b.selected THEN 0 ELSE IF b.kind = "cpu" THEN b.rate * threads ELSE b.rate
    IN  FoldLeft(LAMBDA sum, b : sum + RateOf(b), 0, Plan(config, machine).benchmarks)

-----------------------------------------------------------------------------
(* GPU batches.  The spaces are small: 2^32 nonces are Space, the buffer   *)
(* has capacity entries, batches go from least to most.                    *)

CandidateCap(top, space, capacity, most) ==
    LET cap == (capacity * space) \div (4 * (top + 1)) IN Min({cap, most})
(* Mutant: the batch doubles however long the dispatch took. *)
DoubledBatch(batch, took, aim, cap, least, most) == Min({2 * batch, Max({Min({most, cap}), least})})
(* took and aim are times; a batch at most doubles. *)
NextBatch(batch, took, aim, cap, least, most) ==
    LET next == Min({(batch * aim) \div Max({took, 1}), 2 * batch})
        upper == Max({Min({most, cap}), least})
    IN  Min({Max({next, least}), upper})

(* GpuDevice::run's ranges of one sweep over the nonces: each is what is   *)
(* left, but no more than the batch and than is likely to fit the buffer.  *)
(* The batch is the one the last sweep ended with; dispatches take the     *)
(* times of tooks, over and over.                                          *)
GpuRanges(tooks, aim, cap, batch, least, most, space) ==
    LET Sweeps == [next : 0..space, batch : 1..most, ranges : Seq(Nat \X Nat)]
        Go[s \in Sweeps] ==
            IF s.next = space THEN s.ranges
            ELSE LET count == Min({s.batch, cap, space - s.next})
                     took == tooks[1 + (Len(s.ranges) % Len(tooks))]
                 IN  Go[[next |-> s.next + count,
                         batch |-> NextBatch(Max({count, least}), took, aim, cap, least, most),
                         ranges |-> Append(s.ranges, << s.next, count >>)]]
    IN  Go[[next |-> 0, batch |-> batch, ranges |-> << >>]]

-----------------------------------------------------------------------------
(* AxeOsDevice::run: rounds are [polled, answer, time]; an answer is a     *)
(* rate or -1 when the miner is unreachable.  Hashes are counted in Unit   *)
(* parts, of which whole ones are added and the rest is carried.           *)

Unit == 4
AsicStart == [rate |-> 0, carry |-> 0, hashes |-> 0, errors |-> 0]
AsicRound(s, r) ==
    LET rate == IF ~r.polled THEN s.rate ELSE Max({r.answer, 0})
        earned == s.carry + rate * r.time
        whole == earned \div Unit
    IN  [rate |-> rate, carry |-> earned - whole * Unit, hashes |-> s.hashes + whole,
         errors |-> s.errors + (IF r.polled /\ r.answer = -1 THEN 1 ELSE 0)]
AsicRun(rounds) == FoldLeft(AsicRound, AsicStart, rounds)

-----------------------------------------------------------------------------
(* Sampler::sample.  A reading is [dt, hashes]: the time since the last    *)
(* one and a counter per device.  The last `length' totals are kept.       *)

SamplerStart == [started |-> FALSE, hashes |-> << >>, smoothed |-> << >>, totals |-> << >>]
Smoothed(old, rate) == IF old = 0 THEN rate ELSE old + (3 * (rate - old)) \div 10
LastOf(sequence, n) == SubSeq(sequence, Max({Len(sequence) - n + 1, 1}), Len(sequence))
Sample(s, reading, length) ==
    LET devices == 1..Len(reading.hashes)
        same == Len(s.hashes) = Len(reading.hashes)
        before == IF same THEN s.hashes ELSE reading.hashes
        old == IF same THEN s.smoothed ELSE [i \in devices |-> 0]
        timed == s.started /\ reading.dt > 0
        Rate(i) == IF timed THEN Max({reading.hashes[i] - before[i], 0}) \div reading.dt ELSE 0
        total == MapThenSumSet(Rate, devices)
    IN  [started |-> TRUE, hashes |-> reading.hashes,
         smoothed |-> [i \in devices |-> IF timed THEN Smoothed(old[i], Rate(i)) ELSE old[i]] \o << >>,
         totals |-> IF s.started THEN Append(LastOf(s.totals, length - 1), total) ELSE s.totals]
Mean(totals, n) ==
    LET taken == LastOf(totals, n)
    IN  IF taken = << >> THEN 0 ELSE FoldLeft(+, 0, taken) \div Len(taken)
SampleAll(readings, length) ==
    FoldLeft(LAMBDA s, reading : Sample(s, reading, length), SamplerStart, readings)

=============================================================================
