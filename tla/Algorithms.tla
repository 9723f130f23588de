------------------------------- MODULE Algorithms -------------------------------
(***************************************************************************)
(* The parts of HanSolo that compute rather than interact, run on one      *)
(* input after another: a state holds an input of some kind, an action     *)
(* chooses it, and the properties of that step compare what the code's     *)
(* calculation makes of it with a definition that does not follow the code.*)
(***************************************************************************)
EXTENDS HashKernels, StratumProtocol, RpcTransport, HardwarePlan, Targets

VARIABLES
    kind,       \* what is computed
    input       \* a record of the arguments, or NoInput
vars == << kind, input >>

Kinds == {"search", "gpu", "compact", "difficulty", "template", "notify",
          "address", "response", "answer", "credential", "plan", "batches", "asic", "sampler"}
NoInput == [none |-> TRUE]

-----------------------------------------------------------------------------
(* Hashing: headers that differ in one byte, ranges with a hit at the very *)
(* first word, across the end of the nonce space, and of every length from *)
(* less than a vector to more than two.                                    *)

TestHeader(seed) == [i \in 1..80 |-> ((i - 1) * 97 + 13 * seed) % Byte] \o << >>
Ranges == {<< 0, 825, 18, 0 >>, << 4, 1280, 17, 0 >>, << 4, 1740, 9, 300 >>,
           << 2, Space - 5, 11, 512 >>, << 3, 77, 3, Space \div 3 >>, << 5, 9, 0, Space - 1 >>,
           << 6, 2000, 40, 400 >>, << 7, 3000, 33, 900 >>, << 8, Space - 20, 31, 300 >>, << 9, 512, 47, 150 >>}
SearchInputs ==
    {[seed |-> r[1], start |-> r[2], count |-> r[3], top |-> r[4], backend |-> b, supported |-> b]
         : r \in Ranges, b \in Backends}
    \union {[seed |-> 1, start |-> 40, count |-> 5, top |-> 2000, backend |-> b, supported |-> "Scalar"]
                : b \in {"ShaNi", "Avx512"}}
(* Grids of one and two rows, with spare invocations, a full buffer, and a *)
(* batch the adapter cannot take.                                          *)
GpuInputs ==
    {[seed |-> 4, start |-> 1278, count |-> 12, top |-> t, workgroup |-> w, groups |-> g, capacity |-> c]
         : t \in {0, 900, 3000}, w \in {4, 5}, g \in {1, 2, 3}, c \in {1, 12}}

Job(i) == JobOf(TestHeader(i.seed), i.top)
Wanted(i) == ReferenceCandidates(TestHeader(i.seed), i.start, i.count, i.top)
Strictly(sequence) == Cardinality(ToSet(sequence)) = Len(sequence)

(* Every backend reports exactly the nonces the reference hash passes, in  *)
(* order; vector or not, the midstate is a shortcut and not another hash.  *)
SearchIsExact(i) ==
    /\ Search(i.backend, {i.supported}, Job(i), i.start, i.count) = Wanted(i)
    /\ i.count = 3 =>
           LET full == WithNonce(TestHeader(i.seed), i.start)
           IN  HeaderHashFromMidstate(Midstate(full), full) = Sha256d(full)
(* So does a GPU, unless its batch is refused; an overflowing buffer is    *)
(* noticed and the CPU goes over the range.                                *)
GpuIsExact(i) ==
    LET d == Dispatch(Job(i), i.start, i.count, i.workgroup, i.groups, i.capacity)
        found == GpuCandidates(d, "Avx2", Job(i), i.start, i.count)
    IN  /\ d.ok <=> i.count <= i.workgroup * i.groups * i.groups
        /\ d.ok => ToSet(found) = ToSet(Wanted(i)) /\ Strictly(found)

-----------------------------------------------------------------------------
(* Targets, whose hashes a backend filters by their first word.            *)

CompactInputs == [exponent : 0..TargetBytes + 3, m : [1..3 -> 0..Radix - 1]]
DifficultyInputs ==
    [mantissa : 2 ^ (Precision - 1)..2 ^ Precision - 1,
     exponent : -Diff1Exponent - Precision - 1..TargetBits - Diff1Exponent + 1]
Hashes == {h \in [1..TargetBytes -> 0..Radix - 1] : h[1] \in {0, Radix - 1}}
HashNumber(h) == Number(BigEndian(h))

(* Whether a hash meets a target is a comparison of numbers, a hash that   *)
(* meets it is never filtered out, and its zero bits are those of its size.*)
ComparesNumbers(target) ==
    \A h \in Hashes :
        /\ ComparesAsNumber(target, h)
        /\ PassesTheFilter(target, h)
        /\ HashNumber(h) < 2 ^ (TargetBits - LeadingZeroBits(h))
        /\ LeadingZeroBits(h) < TargetBits => HashNumber(h) >= 2 ^ (TargetBits - LeadingZeroBits(h) - 1)
(* Bitcoin's SetCompact: the mantissa shifted, nothing for a negative one. *)
CompactIsShifted(i) ==
    LET mantissa == Number(i.m \o << >>)
        value == IF i.exponent >= 3 THEN mantissa * Radix ^ (i.exponent - 3)
                 ELSE mantissa \div Radix ^ (3 - i.exponent)
        target == FromCompact(i.exponent, i.m)
    IN  /\ Number(target) = IF i.m[1] >= Radix \div 2 THEN 0 ELSE value % Radix ^ TargetBytes
        /\ i.m[2] = 1 => ComparesNumbers(target)
(* The quotient, rounded down; what is far too easy is the largest target. *)
(* Difficulties in between, whose target has more bits than there are and  *)
(* whose last bit is below the top, are left out: the code loses the bits  *)
(* above the top (see the README).                                         *)
DifficultyIsDivided(i) ==
    LET shift == i.exponent + Diff1Exponent
        value == IF shift >= 0 THEN i.mantissa * 2 ^ shift ELSE i.mantissa \div 2 ^ (0 - shift)
        target == FromDifficulty(i.mantissa, i.exponent)
    IN  /\ value < 2 ^ TargetBits => Number(target) = value
        /\ shift >= TargetBits => target = MaxTarget
        /\ i.mantissa = 2 ^ Precision - 1 => ComparesNumbers(target)

-----------------------------------------------------------------------------
(* Blocks and jobs.  Heights on both sides of every change of the push;    *)
(* branches of every shape up to seven transactions; scripts of several    *)
(* lengths; a pool's extranonce sizes, with a hint that is right, wrong or *)
(* missing, and a script on either side of a varint's step.                *)

Filled(n, from) == [i \in 1..n |-> (from + i) % 256] \o << >>
Payouts == {<< 0, 20 >> \o Filled(20, 60), << 81, 32 >> \o Filled(32, 90)}
Commitment == << 106, 36, 170, 33, 169, 237 >> \o Filled(32, 7)
Extranonces == {Filled(8, 0), Filled(8, 247)}
Heights == {1, 16, 17, 127, 128, 255, 256, 32767, 32768, 65535, 840000, 8388607, 8388608}
TemplateInputs ==
    {[height |-> h, txs |-> 2, payout |-> p, commitment |-> c] : h \in Heights, p \in Payouts, c \in {NoCommitment, Commitment}}
    \union {[height |-> 840000, txs |-> n, payout |-> << 106 >>, commitment |-> c]
                : n \in 0..7 \union {251, 252, 253}, c \in {NoCommitment, Commitment}}
Template(i) ==
    [version |-> 4, prev |-> "prev", time |-> 9, bits |-> 7, height |-> i.height, value |-> 312500000,
     commitment |-> i.commitment, txs |-> [k \in 1..i.txs |-> [data |-> << k >>, txid |-> TxId(<< k >>)]]]

(* What a node reads out of the assembled block: a count that is right, a  *)
(* coinbase it takes, whose txid with those of the rest gives the root the *)
(* header was hashed with; the extranonce is in the script and the height  *)
(* is read back.                                                           *)
BlockIsTaken(i, extranonce) ==
    LET t == Template(i)
        work == TemplateWork(1, t, i.payout)
        coinbase == CoinbaseOf(work, extranonce)
        block == AssembleBlock(HeaderOf(work, extranonce), coinbase, t)
        count == ReadVarint(SubSeq(block, 2, 10))
        after == Skip(block, 1 + count.size)
        sent == SubSeq(after, 1, Len(after) - i.txs)
        tx == ParseTx(sent)
        script == ParseTx(coinbase)
        txids == [k \in 1..i.txs |-> TxId(after[Len(sent) + k])]
    IN  /\ count.value = 1 + i.txs
        /\ NodeTakesCoinbase(tx, t, i.payout)
        /\ script.ok /\ [tx EXCEPT !.segwit = FALSE, !.witness = << >>] = script
        /\ \E k \in 0..Len(tx.script) - 8 : SubSeq(tx.script, k + 1, k + 8) = extranonce
        /\ HeaderOf(work, extranonce).root = NodeRoot(<< TxId(coinbase) >> \o txids)
        /\ CoinbaseHeight(work.prefix) = i.height

NotifyInputs ==
    [height : {16, 17, 840000}, first : {4, 8}, second : {4, 8, 12}, hint : {None, 4, 8, 12}, outputs : {1, 2}, damaged : {0}]
    \union [height : {840000}, first : {4}, second : {8}, hint : {8}, outputs : {1}, damaged : 1..9]
    \union [height : {840000}, first : 234..236, second : {8}, hint : {None, 4, 9}, outputs : {1}, damaged : {0}]
(* The last of these have scripts around the length whose varint is longer. *)
(* A pool's coinbase, cut where the extranonces go. *)
PoolStart(i) ==
    LET push == Bip34HeightPush(i.height)
    IN  LittleEndian(1, 4) \o << 1 >> \o ZeroBytes(32) \o MaxU32
        \o WriteVarint(Len(push) + i.first + i.second + 5) \o push
PoolEnd(i) ==
    Filled(5, 200) \o MaxU32 \o WriteVarint(i.outputs)
    \o FlattenSeq([k \in 1..i.outputs |-> LittleEndian(5000 * k, 8) \o WriteVarint(22) \o Filled(22, k)])
    \o LittleEndian(0, 4)
PrevHash == Filled(32, 130)
(* How a pool writes a hash: as eight numbers of four bytes. *)
AsWords(hash) == FlattenSeq([w \in 1..8 |-> Reverse(SubSeq(hash, 4 * w - 3, 4 * w))])
NotifyParams(i) ==
    LET params == << Str(<< 1 >>), Str(AsWords(PrevHash)), Str(PoolStart(i)), Str(PoolEnd(i)),
                     Arr(<< Str(Filled(32, 1)), Str(Filled(32, 2)) >>), Str(<< 32, 0, 0, 0 >>),
                     Str(<< 25, 3, 2, 1 >>), Str(<< 102, 3, 2, 1 >>), Bool(TRUE) >>
    IN  Arr([k \in 1..9 |-> IF k = i.damaged THEN Null ELSE params[k]] \o << >>)

(* The pool rebuilds the coinbase from the submitted extranonce2 and gets  *)
(* the one that was hashed, whatever it hinted; sizes too small for the    *)
(* device's bytes make no work; a notify with a part missing is none.      *)
JobIsRebuilt(i, extranonce) ==
    LET notify == ParseNotify(NotifyParams(i))
        first == Filled(i.first, 33)
        size == Extranonce2Size(notify.coinb1, first, notify.coinb2, i.hint)
        job == StratumWork(1, notify, first, size)
        rebuilt == PoolStart(i) \o first \o Submitted2(job.pad, extranonce) \o PoolEnd(i)
    IN  /\ notify.ok <=> i.damaged \in {0, 9}
        /\ notify.ok => /\ notify.prev = PrevHash /\ notify.clean = (i.damaged = 0)
                        /\ notify.version = 32 * 2 ^ 24 /\ size = i.second
                        /\ job.ok <=> i.second >= ExtranonceLen
        /\ notify.ok /\ job.ok =>
               /\ CoinbaseOf(job.work, extranonce) = rebuilt
               /\ ParseTx(rebuilt).ok
               /\ job.work.height = i.height

-----------------------------------------------------------------------------
(* Text.  Addresses put together from their parts, legal and not; a        *)
(* response framed in each way, chunks cut in each way, and then broken    *)
(* off at each place; an answer to a share in each dialect.                *)

AddressInputs ==
    [form : {"pool", "node"}, scheme : {"", "http", "ssl", "stratum+tcp", "ftp"},
     host : {<< >>, << "name" >>, << "[", ":", ":", "1", "]" >>},
     port : {"", "0", "3333", "65535", "65536"}, tail : {<< >>, << "/" >>, << "/", "rpc" >>}]
Address(i) == (IF i.scheme = "" THEN << >> ELSE << i.scheme, "://" >>) \o i.host
              \o (IF i.port = "" THEN << >> ELSE << ":", i.port >>) \o i.tail
(* A form the settings allow gives the parts back, any other is refused.   *)
(* Nothing is said of a node's IPv6 address without a port, where the code *)
(* and its documentation disagree (see the README).                        *)
AddressIsRead(i) ==
    LET read == IF i.form = "pool" THEN ParseStratumUrl(Address(i)) ELSE ParseRpcUrl(Address(i))
        bare == IF Len(i.host) > 1 THEN SubSeq(i.host, 2, 4) ELSE i.host
        legal == /\ i.scheme \in {""} \union (IF i.form = "pool" THEN StratumSchemes ELSE {"http"})
                 /\ i.host # << >> /\ i.port \notin {"0", "65536"}
                 /\ i.form = "pool" => i.port # "" /\ i.tail # << "/", "rpc" >>
        disputed == i.form = "node" /\ i.port = "" /\ Len(i.host) > 1
    IN  ~disputed =>
        /\ read.ok <=> legal
        /\ legal => /\ read.host = bare
                    /\ read.port = IF i.port = "" THEN DefaultRpcPort ELSE Value[i.port]
                    /\ i.form = "pool" => read.tls = (i.scheme = "ssl")
                    /\ i.form = "node" => read.path = IF i.tail = << >> THEN << "/" >> ELSE i.tail

Framings == {"length", "chunked", "closed"}
Chunkings == {<< >>, << << "x" >> >>, << << "x" >>, << "cr", "lf" >> >>, << << "cr", "lf", "y" >>, << "x", "lf" >> >>}
ResponseInputs == {[framing |-> f, chunks |-> c, extended |-> e, cut |-> k] :
                      f \in Framings, c \in Chunkings, e \in BOOLEAN, k \in 0..14}
Digit(n) == CHOOSE d \in DOMAIN Hex : Hex[d] = n
Framed(i) ==
    LET body == FlattenSeq(i.chunks)
        Chunk(c) == << Digit(Len(c)) >> \o (IF i.extended THEN << ";", "name" >> ELSE << >>) \o Eol \o c \o Eol
        headers == CASE i.framing = "length" /\ Len(body) < 4 -> << "content-length", Digit(Len(body)) >> \o Eol
                     [] i.framing = "chunked" -> << "transfer-encoding", "chunked" >> \o Eol
                     [] OTHER -> << >>
    IN  << "status", "200" >> \o Eol \o headers \o Eol
        \o IF i.framing = "chunked"
            THEN FlattenSeq([k \in 1..Len(i.chunks) |-> Chunk(i.chunks[k])]) \o << "0" >> \o Eol \o Eol
            ELSE body
(* The body comes out whole or not at all; only a response that ends with  *)
(* the connection can be shortened unnoticed.                              *)
ResponseIsWhole(i) ==
    LET raw == Framed(i)
        body == FlattenSeq(i.chunks)
        received == SubSeq(raw, 1, Len(raw) - i.cut)
        read == ParseHttpResponse(received)
        framed == i.framing = "chunked" \/ (i.framing = "length" /\ Len(body) < 4)
    IN  /\ i.cut = 0 => read.ok
        /\ read.ok /\ framed => read.body = body
        /\ framed /\ i.cut > (IF i.framing = "chunked" THEN 2 ELSE 0) => ~read.ok
        /\ read.ok => IsPrefix(read.body, body)

AnswerInputs == [code : {20, 21, 23}, text : {"stale", "other"}, result : BOOLEAN]
(* The dialects agree, and a refusal is never taken for an acceptance.     *)
AnswerIsUnderstood(i) ==
    LET message == [type |-> "string", bytes |-> i.text]
        verdict == SubmitVerdict(Null, Arr(<< Num(i.code), message, Null >>))
    IN  /\ verdict = IF i.code = 21 \/ i.text = Stale THEN "Stale" ELSE "Rejected"
        /\ SubmitVerdict(Bool(i.result), [type |-> "object", code |-> Num(i.code), message |-> message]) = verdict
        /\ SubmitVerdict(Null, message) = IF i.text = Stale THEN "Stale" ELSE "Rejected"
        /\ SubmitVerdict(Bool(i.result), Null) = IF i.result THEN "Accepted" ELSE "Rejected"
        /\ SubmitVerdict(Null, Null) = "Rejected"
        /\ \A error \in {"absent", "null", "code"} : \A result \in {"absent", "value"} :
               LET outcome == CallOutcome([ok |-> TRUE, body |-> [error |-> error, result |-> result]])
               IN  outcome = "Ok" => error # "code"

CredentialInputs == UNION {[1..n -> {0, 97, 255}] : n \in 0..4}
(* Sextets back to bytes. *)
Decoded(digits) ==
    LET Bytes(q) == LET d == [k \in 1..4 |-> IF q[k] = 64 THEN 0 ELSE q[k]]
                    IN  SubSeq(<< d[1] * 4 + d[2] \div 16, (d[2] % 16) * 16 + d[3] \div 4, (d[3] % 4) * 64 + d[4] >>,
                               1, 3 - Cardinality({k \in 1..4 : q[k] = 64}))
    IN  FlattenSeq([b \in 1..Len(digits) \div 4 |-> Bytes(SubSeq(digits, 4 * b - 3, 4 * b))])
CredentialIsKept(data) == Len(Base64(data)) % 4 = 0 /\ Decoded(Base64(data)) = data

-----------------------------------------------------------------------------
(* Planning.  A machine with and without extensions, with every order of   *)
(* adapters that matters: one card under two APIs, a software renderer, a  *)
(* card that cannot be opened, a card slower than two per cent of the CPU. *)

Adapter(card, api, adapterKind, rate) == [card |-> card, api |-> api, kind |-> adapterKind, compute |-> TRUE, rate |-> rate]
AdapterLists == {
    << >>,
    << Adapter("a", "vulkan", "discrete", 900), Adapter("a", "dx12", "discrete", 800), Adapter("b", "dx12", "integrated", 3) >>,
    << Adapter("s", "vulkan", "software", 50), Adapter("a", "dx12", "discrete", 40), Adapter("a", "vulkan", "discrete", -1) >>,
    << [Adapter("a", "vulkan", "discrete", 9) EXCEPT !.compute = FALSE], Adapter("b", "vulkan", "discrete", 0) >>}
Machines ==
    [supported : {{"Scalar"}, {"Scalar", "ShaNi", "Avx2"}}, cores : {0, 8}, adapters : AdapterLists, miners : {0, 2},
     rates : {[Scalar |-> 10, ShaNi |-> 20, Avx2 |-> 20], [Scalar |-> 30, ShaNi |-> 5, Avx2 |-> 25]}]
PlanConfigs == [cpu : BOOLEAN, backend : {Unset, "shani", "neon", "sse9"}, threads : {UnsetThreads, 0, 3}, gpu : BOOLEAN, asic : BOOLEAN]
Of(sequence, what) == SelectSeq(sequence, LAMBDA x : x.kind = what)

(* One backend is chosen, one this machine has, the fastest unless another *)
(* was asked for; the devices are the selected benchmarks; a card mines    *)
(* once; and the estimate made from the report is the rate of the devices  *)
(* (for a thread count of zero they differ, see the README).               *)
PlanIsConsistent(config, machine) ==
    LET plan == Plan(config, machine)
        selected == SelectSeq(plan.benchmarks, LAMBDA b : b.selected)
        cpus == Of(plan.devices, "cpu")
        gpus == Of(plan.devices, "gpu")
        card == [k \in 1..Len(machine.adapters) |-> ByRank(machine.adapters)[k].card]
        total == FoldLeft(LAMBDA sum, b : sum + b.rate * (IF b.kind = "cpu" THEN cpus[1].threads ELSE 1), 0, selected)
    IN  /\ Len(cpus) = IF config.cpu THEN 1 ELSE 0
        /\ [k \in 1..Len(selected) |-> selected[k].name] \o << >>
               = [k \in 1..Len(cpus \o gpus) |-> (cpus \o gpus)[k].name] \o << >>
        /\ config.cpu =>
               /\ cpus[1].name \in machine.supported
               /\ config.backend # "shani" \/ "ShaNi" \notin machine.supported =>
                      \A b \in machine.supported : machine.rates[b] <= machine.rates[cpus[1].name]
        /\ \A j, k \in 1..Len(gpus) : j # k => card[gpus[j].name] # card[gpus[k].name]
        /\ config.threads # 0 => EstimateFromReport(config, machine) = total
        /\ Len(plan.devices) = Len(selected) + IF config.asic THEN machine.miners ELSE 0

BatchInputs == [tooks : {<< 1 >>, << 8 >>, << 1, 9 >>, << 1, 1, 1, 20 >>}, aim : {4, 8}, top : {0, 1, 7, 20, 40, 63}, batch : {4, 9, 32}]
(* The ranges of a sweep go over every nonce once; none is expected to     *)
(* fill more than a quarter of the buffer; a dispatch that took too long   *)
(* is followed by one that would not, or by the least there is.            *)
BatchesAreFit(i) ==
    LET space == 64
        capacity == 8
        least == 4
        ranges == GpuRanges(i.tooks, i.aim, CandidateCap(i.top, space, capacity, 32), i.batch, least, 32, space)
        Took(k) == i.tooks[1 + ((k - 1) % Len(i.tooks))]
    IN  /\ FlattenSeq([k \in 1..Len(ranges) |-> [j \in 1..ranges[k][2] |-> ranges[k][1] + j - 1] \o << >>])
               = [j \in 1..space |-> j - 1] \o << >>
        /\ \A k \in 1..Len(ranges) : 4 * ranges[k][2] * (i.top + 1) <= capacity * space
        /\ \A k \in 1..Len(ranges) - 1 :
               ranges[k + 1][2] > least => ranges[k + 1][2] * Took(k) <= i.aim * ranges[k][2]

AsicRounds == {[polled |-> TRUE, answer |-> -1, time |-> 3], [polled |-> TRUE, answer |-> 3, time |-> 1],
               [polled |-> TRUE, answer |-> 0, time |-> 2], [polled |-> FALSE, answer |-> 0, time |-> 1]}
AsicInputs == UNION {[1..n -> AsicRounds] : n \in 1..4}
(* A monitored miner is credited its rate times the time, to the last      *)
(* hash, and nothing while it does not answer.                             *)
AsicIsCredited(rounds) ==
    LET polls(k) == {j \in 1..k : rounds[j].polled}
        RateAt(k) == IF polls(k) = {} \/ rounds[Max(polls(k))].answer = -1 THEN 0 ELSE rounds[Max(polls(k))].answer
        earned == FoldLeft(LAMBDA sum, k : sum + RateAt(k) * rounds[k].time, 0, [k \in 1..Len(rounds) |-> k])
    IN  AsicRun(rounds).hashes = earned \div Unit

SamplerInputs == [bursts : [1..4 -> {0, 2000, 8000}], dts : {<< 1, 1, 1, 1 >>, << 1, 2, 1, 2 >>}, late : 0..2]
(* Two devices, of which nothing is read at first.  A burst counts in full *)
(* in the averages and lasts no longer than their window; what is shown of *)
(* a device lies between the rates it had.                                 *)
RatesAreHonest(i) ==
    LET Hashed[k \in 0..4] == IF k = 0 THEN 0 ELSE Hashed[k - 1] + i.bursts[k]
        readings == [k \in 1..4 |-> [dt |-> i.dts[k],
                                     hashes |-> IF k <= i.late THEN << >> ELSE << Hashed[k], 2000 * k >>]]
        s == SampleAll(readings, 3)
        Since(n) == Max({4 - n, i.late + 1, 1})
        rates == {i.bursts[k] \div i.dts[k] : k \in i.late + 2..4}
    IN  /\ i.dts = << 1, 1, 1, 1 >> =>
               \A n \in 1..3 : Mean(s.totals, n) * n \in
                   {total - j : total \in {Hashed[4] - Hashed[Since(n)] + 2000 * (4 - Since(n))}, j \in 0..n - 1}
        /\ s.smoothed[1] <= Max(rates) /\ s.smoothed[1] >= Min(rates)
        /\ i.dts = << 1, 1, 1, 1 >> => s.smoothed[2] = 2000

-----------------------------------------------------------------------------
Init == kind \in Kinds /\ input = NoInput

Choose(of, inputs) == kind = of /\ input = NoInput /\ input' \in inputs /\ UNCHANGED kind
Compute ==
    \/ Choose("search", SearchInputs)
    \/ Choose("gpu", GpuInputs)
    \/ Choose("compact", CompactInputs)
    \/ Choose("difficulty", DifficultyInputs)
    \/ Choose("template", TemplateInputs)
    \/ Choose("notify", NotifyInputs)
    \/ Choose("address", AddressInputs)
    \/ Choose("response", ResponseInputs)
    \/ Choose("answer", AnswerInputs)
    \/ Choose("credential", [data : CredentialInputs])
    \/ Choose("plan", [config : PlanConfigs, machine : Machines])
    \/ Choose("batches", BatchInputs)
    \/ Choose("asic", [rounds : AsicInputs])
    \/ Choose("sampler", SamplerInputs)
Forget == input # NoInput /\ input' = NoInput /\ UNCHANGED kind

Next == Compute \/ Forget
Spec == Init /\ [][Next]_vars

-----------------------------------------------------------------------------
(* A share is never missed: every CPU backend and the GPU report exactly   *)
(* the nonces whose reference hash begins low enough (cpu/, gpu/), and a   *)
(* hash that meets a target always does (core/target.rs).                  *)
SharesAreNeverMissed ==
    [][input' # NoInput =>
        CASE kind = "search" -> SearchIsExact(input')
          [] kind = "gpu" -> GpuIsExact(input')
          [] kind = "compact" -> CompactIsShifted(input')
          [] kind = "difficulty" -> DifficultyIsDivided(input')
          [] OTHER -> TRUE]_vars

(* What was hashed is what is submitted: a node finds in the assembled     *)
(* block the header's root, the height, the payout and the witness         *)
(* (node/template.rs), a pool rebuilds the coinbase from the extranonce2   *)
(* it is sent (stratum/protocol.rs).                                       *)
HashedIsSubmitted ==
    [][input' # NoInput =>
        CASE kind = "template" -> \A e \in Extranonces : BlockIsTaken(input', e)
          [] kind = "notify" -> \A e \in Extranonces : JobIsRebuilt(input', e)
          [] OTHER -> TRUE]_vars

(* The peers' text is understood or refused: addresses (protocol.rs,       *)
(* rpc.rs), HTTP bodies broken off anywhere (rpc.rs), answers to shares in *)
(* three dialects (protocol.rs), the credentials sent (rpc.rs).            *)
TextIsUnderstood ==
    [][input' # NoInput =>
        CASE kind = "address" -> AddressIsRead(input')
          [] kind = "response" -> ResponseIsWhole(input')
          [] kind = "answer" -> AnswerIsUnderstood(input')
          [] kind = "credential" -> CredentialIsKept(input'.data)
          [] OTHER -> TRUE]_vars

(* A run mines with what was planned: devices, report and estimate agree   *)
(* (hash/lib.rs, run.rs), batches cover the nonces and fit the buffer      *)
(* (gpu/mod.rs), ASICs are credited what they earned (asic/mod.rs), and no *)
(* burst is lost from the averages or stays in them (stats.rs).            *)
PlanIsSound ==
    [][input' # NoInput =>
        CASE kind = "plan" -> PlanIsConsistent(input'.config, input'.machine)
          [] kind = "batches" -> BatchesAreFit(input')
          [] kind = "asic" -> AsicIsCredited(input'.rounds)
          [] kind = "sampler" -> RatesAreHonest(input')
          [] OTHER -> TRUE]_vars

=============================================================================
