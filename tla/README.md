# A verification project for HanSolo

HanSolo is a Bitcoin solo miner in Rust: an engine that takes jobs from a
Stratum pool or templates from a node, devices that hash them, and a dashboard.
This directory holds TLA+ models of the parts of it that are concurrent or
stateful, of the algorithms they rest on, the TLC runs that check them on small
instances, and theorems that TLAPS proves for every value of the constants. Paths below are relative to
`crates/` unless they start with `app/`.

## 1. The system

### Threads and what they share

    caller threads (UI, signal handler)       detect-hardware thread
        | start / restart / stop / snapshot        | writes snapshot.hardware
        v                                          v
    Miner handle  -- run mutex --  RunHandle    Shared.state mutex: snapshot
        | spawns, flags, cancels                   ^ update() of every thread of a run
        v                                          |
    supervisor thread of the run --> sampler task -+
        | plan, spawn devices, then the source     |
        v                                          |
    network task (Stratum session or node client) -+
        |  publish: registry, then WorkCell        |
        v                                          |
    device threads (CPU workers, GPU queue)        |
        |  found channel (mpsc)                    |
        v                                          |
    found thread: handle_found --------------------+
        |  submission channel (tokio mpsc)
        v
    network task: submit, answers

### Inventory

| Component | State | Operations | Hard behaviour | What makes it correct |
| --- | --- | --- | --- | --- |
| Work cell (`hansolo-core/src/work.rs`) | current work, generation | `set`, `get`, `generation` | `set` is two steps, two threads call it | superseded work is not taken for current |
| Hashing threads (`hansolo-hash/src/cpu/device.rs`, `gpu/mod.rs`) | generation seen, work, roll, nonce position | read generation, get, start a roll, hash a batch, recheck | work changes under a walk; dispatches fail; the nonce range ends in the middle of a batch | no header twice, no gap, new work, empty cell and stop are noticed |
| Miner handle and runs (`hansolo-engine/src/lib.rs`, `run.rs`) | run handle, epoch, snapshot, per run: stop flag, cancel channel, supervisor, sampler | `start`, `stop`, `fail`, `detect_hardware`, `update`, `supervise` | restarts while the old run winds down; a run that ends itself; two mutexes | the snapshot belongs to one run; ended runs are muted and do end |
| Share pipeline (`run.rs`, `stratum/client.rs`) | registry of recent jobs, recent shares and their ids, counters, two queues, table of requests | `publish`, `clear_work`, `handle_found`, `push_share`, `share_result`, `submit`, `handle` | clean jobs, evictions, lost connections, answers late, twice or out of order | each share keeps its record, goes only where it belongs, is counted once, is not lost |
| Stratum session (`stratum/client.rs`) | endpoint, back-off, partial line, messages to send, extranonce1, last notify, deadline | `run`, `session`, `flush`, `read_line`, `handle_method`, `republish` | reconnect with back-off, redirects, inactivity, lines in pieces, a pool that stops reading | comes back, does not hammer, stays at its site, notices a dead pool, shows nothing of a lost session |
| Stratum protocol (`stratum/protocol.rs`) | none | parse a job, find the extranonce's place, build a work | varint and script-length boundaries | the pool rebuilds the coinbase that was hashed |
| Node client (`node/client.rs`) | template at hand, last published one, queue of blocks, tick | poll, publish on change, submit a block | a reply lost after the node accepted; a block found while polling; the tip moves on | a found block is offered, judged once, and counted as accepted only if it was |
| Block templates (`node/template.rs`) | none | merkle branch, BIP34 push, coinbase, block, local difficulty | odd levels, sign byte of the height | the block the node gets is the block that was hashed |
| RPC transport (`node/rpc.rs`), connections (`net.rs`) | none | addresses, HTTP request and response, chunks, base64, TCP and TLS | responses broken off anywhere | a body comes out whole or not at all |
| Sampler (`stats.rs`) | last counters, smoothed rates, window of totals | sample, smooth | devices appear late; writes while its run ends | no burst lost or kept; writes only for its own run |
| Targets (`hansolo-core/src/target.rs`) | none | from compact form and difficulty, comparison | shifts at either end | equal to the definition; a share is never filtered out |
| Hardware planning (`hansolo-hash/src/lib.rs`, `gpu/mod.rs`, `run.rs`) | measured rates, adapters | `probe`, `plan`, `estimate_from_report` | one card under two APIs, unusable cards, forced backends | devices, report and estimate agree |
| Hash backends and shader (`hansolo-hash/src/cpu`, `gpu/shader.rs`) | none | SHA-256d per backend, `search` | lanes, remainders, wrapping ranges, zero targets | equal to the reference |
| GPU dispatch (`gpu/mod.rs`) | buffers, batch size | `dispatch`, `next_batch`, `candidate_cap` | more candidates than the buffer holds; a dispatch that fails half-way | no candidate is lost, batches fit |
| ASIC devices (`asic/mod.rs`) | last rate, fraction of a hash | probe, poll | a miner that does not answer | is credited what it earned |
| Desktop application (`app/src/app.rs`) | configuration, draft, form, what was remembered | start/stop, save, revert, restart, theme, rebuild, refresh | form, draft, configuration, file and run drift apart | only checked settings are saved and run; what a save would apply changes by typing only |
| Persistence (`app/src/store.rs`) | two files | load, save | a crash or a full disk while a file is written in place | the file is the configuration; best-ever is not lowered |
| Headless mode (`app/src/headless.rs`) | best so far | start, loop | the same files as the application | as above |
| User interface (`app/src/view.rs`, `widgets.rs`, `refresh.rs`) | widgets | calls the handle | presentation | - |

`PROJECT.json` lists the components with what is modelled of each, and under
`hazards` the places in the code where something can go wrong that a test would
hardly reach, with the properties that would catch it.

## 2. The modules

| Module | Models | Lines of the code |
| --- | --- | --- |
| `WorkCell` | the cell's two-step `set` | `work.rs` 124-152 |
| `DeviceWorkers` (extends `WorkCell`) | the threads of the devices of one run, and the two threads that set the cell | `cpu/device.rs` 82-194, `gpu/mod.rs` 420-493 |
| `DeviceWorkersProofs` | theorems about it | |
| `MinerHandle` | abstract: what an embedder sees of the miner | |
| `MinerLifecycle` | `start`, `stop`, `fail`, `supervise`, `update`, the sampler and the detection | `lib.rs` 113-252, `run.rs` 113-206, 508-659 |
| `MinerLifecycleProofs` | theorems about it, the refinement of `MinerHandle` among them | |
| `StratumShares` | registry, shares and verdicts of one run at a pool | `run.rs` 228-468, `stratum/client.rs` 63-665 |
| `StratumSharesProofs` | theorems about it | |
| `StratumConnection` | the same client's connection loop: dialling, sessions, flush and `select!` | `stratum/client.rs` 63-640, `net.rs` |
| `StratumConnectionProofs` | theorems about it | |
| `BlockDelivery` | abstract: what becomes of a block found at a node | |
| `NodeClient` | polling a node, publishing, the way of a block | `node/client.rs`, `run.rs` |
| `NodeClientProofs` | theorems about it, the refinement of `BlockDelivery` among them | |
| `AppSettings` | settings and files of the application and of headless mode | `app/src/app.rs`, `store.rs`, `headless.rs`, `view.rs` |
| `AppSettingsProofs` | theorems about it | |
| `HashKernels` | SHA-256d of the six CPU backends and the shader, ranges, GPU dispatch | `cpu/*.rs`, `gpu/shader.rs`, `gpu/mod.rs`, `sha.rs` |
| `Targets` | targets | `target.rs` |
| `TxFormat`, `BlockTemplate`, `StratumProtocol` | bytes of transactions, the work from a template and from a notify, the block, extranonces, verdicts | `node/template.rs`, `stratum/protocol.rs`, `work.rs` |
| `RpcTransport` | addresses, HTTP responses, base64 | `node/rpc.rs`, `stratum/protocol.rs` |
| `HardwarePlan` | adapters, plan, estimate, batch sizes, ASIC accounting, rates | `hansolo-hash/src/lib.rs`, `gpu/mod.rs`, `asic/mod.rs`, `stats.rs` |
| `Algorithms` (extends the five rows above) | chooses inputs for them and says what is right | |
| `AlgorithmsProofs` (extends `Targets`, `HashKernels`, `HardwarePlan`) | theorems about their operators, for inputs of any size | |
| `MCDeviceWorkers`, `MCMinerLifecycle`, `MCStratumConnection`, `MCAppSettings` | constants and symmetry for TLC | |

`StratumShares` and `StratumConnection` are two views of one client. The first has
the data that shares depend on (jobs, extranonces, records, queues) and lets a
connection be lost at any moment; the second has the reasons why it is lost, with
time, and reduces jobs to "work" and shares to a number. `NodeClient` stands to
`run.rs` as `StratumShares` does, with the other source.

### WorkCell and DeviceWorkers

`set` writes under the lock and bumps the generation after it, so `SetWrite` and
`SetBump` are separate steps and `setting` holds the threads in between. Two
threads set the cell: the network task (`Publish`, `Clear`) and whoever shuts the
run down (`RaiseStop`, `ShutdownWrite`, `ControlBump`).

A thread is `<<device, index>>` with a program counter: at the top of its loop
(`check`) it looks at the stop flag and reads the generation; at `get` it takes
the work or sleeps; at `roll` it starts an extranonce; at `mine` it hashes one
batch; at `recheck` it looks at the stop flag and the generation again. The CPU
worker and the GPU queue run the same loop; `DispatchFails` is the GPU's extra
way out of a batch. The adaptive batch size depends on measured time, so a batch
takes any of the sizes in `Batches`. The lane keeps its casts (`% DeviceSlots`,
`% SubLanes`), the roll counter its wrap (`% RollSpace`), the nonce its 32 bits
(`% NonceSpace`).

A header is what tells two hashes apart: the body of the work, the lane, the roll
and the nonce. `times` counts how often each was hashed. The same body may be
published again under a new id, as a pool that repeats a job makes happen: this
is where restarting the rolls with each work would repeat hashes. `rolls` counts
the rolls of a thread; once it exceeds `RollSpace` (2^32 rolls of 2^32 nonces in
one lane) the thread's hashes are no longer counted.

Relaxed ordering of the generation is explained in the header of `WorkCell`: a
reader loads the generation and then takes the lock, so it cannot pair an
outdated work with a generation bumped later.

### MinerHandle and MinerLifecycle

`MinerHandle` is the promise: the snapshot is about one run at a time, in the
order of starts; its status moves along the stages of a run; Stopped or Error
stays until the next start. `MinerLifecycle` is shown to implement it
(`RefinesHandle`; `status` is `snap.status`, `shown` a history variable with the
run of the last reset).

The run mutex and the state mutex are modelled by their owners, and critical
sections that do several observable things are several steps. `update` is two:
it takes the state lock and compares the epoch (`UpdateLock`), then writes and
releases (`UpdateWrite`). The epoch may change in between, for its writers hold
the run lock, not the state lock. `RunHandle::shutdown` is `CloseBump`,
`CloseFlag`, `CloseEmpty` and `CloseCancel`, run by whichever of `start`, `stop` and
`fail` took the handle. The supervisor's position `sup` follows `supervise`: plan,
spawn the devices, build the runtime, then the connection loop (`head`, `dial`,
`session`), `cellset` between `publish`'s update and its setting of the cell,
`lost` between a session and its report, `fail` and `failing`, `clear` and `done`.
`Cancelled` is the other branch of `select!`, possible wherever the source awaits.

The connection loop appears with its effects on the snapshot and the cell only;
what happens within a session is `StratumShares`.

### StratumShares

Three parties: the network task, the found thread and a device. Each operation
that takes two locks one after the other is two steps: `publish` (registry, then
cell), a lost connection (registry, then cell), a verdict (the record, then the
counters), a solution (the record, then the queue). `wire` holds what the pool has
received on this connection and is never emptied by an answer, so answers come in
any order and repeatedly; a request whose connection is lost is never answered.

Difficulties, targets and the header are abstracted: `Discard` is a device's report
that does not verify, `BlockShares` says which shares meet the network target.
`share` in a record is for the properties only; the code finds records by
`recentIds`, as the model does.

### StratumConnection

`phase` is the place of the one task: `top` and `sleep` of `run`, `dial`, and in
`session` the `flush` at the head of its loop and the `select!`; `lastFlush` is the
flush after a message that ends the session, `ended` and `cleared` are what `run`
does after `session` has returned (clear the work first, then tell). The locals
keep their names. `clock` counts the ticks of whatever the task waits for: the
back-off, the connection timeout, or, since the last line, the inactivity
deadline.

A message of the pool arrives in pieces. A piece without newline goes to `line`,
a field of the reader in the code, where it stays when another branch of
`select!` wins; `torn` remembers whether the line handled last was one the pool had sent.
`SocketRoom` is how many of our messages the socket takes before the pool reads
them: with a pool that does not, `flush` waits, and nothing else in the session
runs. Every kind of message is an action: the answer to subscribe, notify,
set_difficulty, set_extranonce, reconnect, and those that at most make us say
something (`OtherLine`). The pool may send anything at any time, close, or
fall silent. `Publish` tells what a message does once both parts of a job are there; a
job whose coinbase cannot be built fails the run.

### NodeClient and BlockDelivery

`BlockDelivery` is the promise for a block: it is dropped at once (the work is not
known any more), or waits, is offered, one at a time, and gets one verdict; only a
block the node has taken is said to be accepted; only the end of the run loses a
block. `NodeClient` implements it (`RefinesDelivery`): `Fate` reads a block's fate off
its record, the queue and the submission.

The client's `phase` goes through connecting (`info`), the `select!`, a poll
(`fetch`, `got`, `refresh`, `publish`) and a submission (`submit`, `pause`, `submit`
again). While one branch awaits an answer the other does not run, as in the code.
`NodeTakes` is the node's side of `submitblock`; a call may be lost before or after
it, and is tried once more (`CallLost`, `Retry`). Published work carries the tip it
was built on, templates besides it whether the transactions have changed; `aged`
and `due` are the share difficulty and the two intervals of time. `pending` is the wait after a
payout address for another network has failed the run.

### AppSettings

`config` is the configuration the application goes by, `form` what the widgets show,
`running` the configuration of the miner's run. The code's `draft` is read from the
widgets before each use, so it is the operator `Draft`.

`Filled` (the settings page of `view.rs`) and `ReadForm` (`read_form`) are the two
directions of the form, and both convert. Reading trims every text, makes an
empty password an `x`, a thread count that does not parse or is 0 no count, and
splits the list of devices at its commas, dropping blanks and empty pieces; filling
writes the count as a number, joins the list with a comma and a blank, and puts the defaults into the
fields of the other kind of source. So what is shown does change when the form is
rebuilt: ` 04` becomes `4`, and `a,,b` becomes `a, b`. A text is therefore a word with or
without blanks around it, a thread count's text a number (or none) as it is shown or
some other way, a list's text the set of its pieces; the order of the list and
repeats in it are left out, since all conversions keep them. `Rebuild` is reading followed by filling, as `rebuild`
reads the form before it throws the tree away. Fields that are only trimmed (worker and user
names, the node's credentials) and the other switches, selects and the slider are left out.

A write may go through, do nothing, or leave half of a file, which loads as the
defaults. Between two processes the user may write the file by hand (`WriteByHand`), as the
message of headless mode asks for, with values the form cannot say or would refuse; `byHand`
remembers what. The demonstration and headless mode are modes of the same process and use the
same files; two processes at the same time, and a file edited under a running one,
are not modelled.

### Algorithms and the modules it extends

Nothing interacts in these, so a step chooses an input, and the properties of that
step compare the calculation with an independent definition. Words of the hash kernels have `Width`
bits instead of 32, a byte is a quarter of a word, constants keep their low bits; all
rounds are there. The SHA instructions of x86 and ARM are modelled by what they do,
as external definitions, and the code's shuffling around them as written. Transactions are
real bytes; hashes of transactions are terms, so that two merkle roots are equal only
if the same transactions were hashed in the same places. Text is a sequence of
tokens. What is right of a comparison of targets (`ComparesAsNumber`, `PassesTheFilter`)
stands in `Targets`, where `AlgorithmsProofs` can use it; the sweep of a GPU (`GpuRanges`)
starts from any batch, because the code carries the last one over from sweep to sweep.

## 3. What is checked

| Run | Instance | Shows |
| --- | --- | --- |
| `workers` | devices 0 (CPU, more threads asked for than it has lanes) and 1 (GPU), 3 nonces, 2 rolls, batches of 2, one body, 2 sets by the network task | `NoHeaderHashedTwice`, `NoNonceSkipped`, `UpToDateMeansCurrent` |
| `workers_live` | one GPU thread, batches of 1 and 2, 4 sets | `DevicesFollowCell`, `StopEndsThreads` |
| `lifecycle` | two interchangeable callers, 2 runs | `LiveRunHasVoice`, `IdleSnapshot`, `WritesAreOwn`, `FinishedRunIdles`, `RefinesHandle` |
| `lifecycle_live` | one caller, one run | `StopWindsDown`, `FailedRunEnds` |
| `lifecycle_detect` | one caller, one run | a disagreement, see section 6 |
| `shares` | 2 jobs and 2 shares remembered, 4 works, 3 solutions of which the second is a block, 2 connections | `NoUnknownWork`, `OwnSessionOnly`, `VerdictShown`, `CountedOnce`, `AnswersFindTheirShare`, `PendingIsSomewhere` |
| `connection` | 3 hosts (pool, sister, foreign), back-off 2 to 8 ticks, redirect waits 0 and 12, lines of one piece and its end, one message in the socket | `StaysAtSite`, `WholeLines`, `NothingOfALostSession`, `DeadPoolNotHammered`, `HearsOrDials` |
| `node` | 2 blocks, 2 tips, 3 works of which 2 are remembered, 1 share | `WorkFollowsPoll`, `BooksBalance`, `RefinesDelivery`, `QueuedIsOffered` |
| `node_rejected` | 1 block, 2 tips | a disagreement, see section 6 |
| `settings` | 2 changes of the form, each field typed in at least one way its reading changes, 2 files written by hand, difficulties 1 (found) and 2 (demonstration) | `FileIsTheConfig`, `RunsTheConfig`, `OnlyTypingChangesTheDraft`, `BestEverKept` |
| `settings_demo` | the same | a disagreement, see section 6 |
| `algorithms` | 14 kinds of input, words of 12 bits, targets of 4 digits of 2 bits | `SharesAreNeverMissed`, `HashedIsSubmitted`, `TextIsUnderstood`, `PlanIsSound` |

What each property says stands above its definition; the ones a reader would not
guess from their names: `LiveRunHasVoice`, whenever nobody holds the run lock, the
handle's run is the one whose updates count; `PendingIsSomewhere`, no share gets lost between
being recorded and being answered, except with its connection; `WholeLines`, no line is read with
pieces of another or without some of its own; `NothingOfALostSession`, neither work,
nor "connected", nor "Mining" outlives a session; `HearsOrDials`, unless `flush` hangs
the client hears a line, dials again or was stopped, over and over;
`WorkFollowsPoll`, between two polls the devices are on the tip of the last one;
`BooksBalance`, each block with a verdict is in the counters once; `OnlyTypingChangesTheDraft`,
although a rebuild changes what the form shows, neither it nor a save or a theme
changes what the next save would apply (nothing is claimed of Revert, see section 6), and a form that opens on
saved settings stands for exactly those.

The runs `workers`, `lifecycle`, `shares`, `connection` and `node` also check their module's
`TypeOK`.

**Why the bounds are enough.** A nonce space of 3 with batches of 2 has a full
batch, a cut one and a full walk; two rolls let a thread go to a second roll and
then wrap, where the history stops. Two sets are a work and its repetition, or a work and
its loss; a third set comes from the shutdown, at any point in between. Two devices are one of each
kind; that lanes of any number of devices and threads differ is a theorem. Two
runs are a run and the one that replaces it, with the old one winding down under the
new one; two callers race on the handle, and a third could only wait for the
same lock. Two remembered jobs and four works give evictions and clean jobs that hit
work a device is still on; two remembered shares and three solutions push a
record out while its verdict is on the way; two connections carry shares from
one to the next.

In `connection`, the three hosts are one of each relation to the configured pool
(itself, of its site, foreign), so chains of redirects through them are complete.
Back-off from 2 to 8 ticks doubles twice and then meets its cap; the redirect waits are one
below the least allowed and one above the cap. With one piece per line before its
end, a line can be cut, be whole or be too long. One message of room in the socket and
two to send (subscribe and authorize) is enough for `flush` to wait. Time-outs of a tick expire before, after and
between any two messages. In `node`, two blocks can race on one tip, so that the second
is refused; two tips are a template and the one that makes it stale; three works
evict one. One retry is all the code does. In `settings`, one plausible address
besides none and an implausible one distinguishes what can be saved; files are torn,
old, new or written by hand. Two changes of the form are an address and one thing more, or a mode and one of its
fields when the file already has an address; between them lie any number of rebuilds, saves, restarts
and processes. The files written by hand have an address with blanks, one that is only blanks, a
thread count of 0, an empty password and an empty device.

In `algorithms`, the question is whether the backends' schedules, rounds, choice and
majority functions, lanes and remainders agree with the reference; a swapped operand or a wrong
word changes the hashes of the test headers with 12 bits as with 32, and ranges wrap. (The
four sums of rotations are one definition for all backends, with amounts
modulo the width; the repository's own tests compare them with known hashes.) Ranges are shorter than a vector,
longer than two, with a remainder or none, for each backend, on a CPU that supports
it or not. Compact targets are all those of three digits and exponents from 0 to beyond the
size; difficulties are all those of 4 bits of mantissa between far too easy and far too
hard. Heights lie on both sides of each change in the push, transaction counts on both
sides of the varint's first step and of every shape of tree up to seven. A response is broken off
at each of its last 14 tokens, in three framings. Machines have 0 or 8 cores and the orders of
adapters that matter.

**Bounds in the models.** `MaxSets`, `MaxRuns`, `MaxWorks`, `MaxShares` and
`MaxSessions` limit how often the environment acts and stand in the guards of
`Publish` and `Clear`, `StartLock`, `Build`, `DeviceFinds` and `Connect`. In
`StratumConnection` `MaxInbound` bounds the pieces under way, `MaxQueued` the
queue of shares, and `MaxFruitless` only the history of `DeadPoolNotHammered`; in `NodeClient`
`MaxTips`, `MaxWorks` and `MaxShares` bound the node's tip (in `NodeTakes` and
`NodeMovesOn`), the polls (`Fetched`) and the shares; in `AppSettings` `MaxBest` bounds a
share's difficulty and `MaxEdits` the changes of the form (in `Edit`). These runs have `CHECK_DEADLOCK FALSE`, because a miner that
has been stopped, or whose bounds are used up, rightly has nothing to do; that
nobody waits for ever is stated by the liveness properties. `settings` and
`algorithms` check for deadlock.

**Fairness.** `DeviceWorkers`: every thread is scheduled (weak fairness) and a `set`
that has begun is finished; no pool has to send work, no user has to stop.
`MinerLifecycle`: weak fairness for what a thread does of itself; strong fairness
for taking a mutex, because parking_lot hands a contended mutex over in the
end; strong fairness for `Cancelled`, because `select!` polls the cancel branch
whenever it polls at all; strong fairness for the end of planning, whose probes
and benchmarks are timed. No network event is fair. `StratumShares`, `AppSettings`
and `Algorithms` have none and state safety only.

`StratumConnection`: the task runs and time passes (weak fairness of its steps and
of `Tick`); a branch of `select!` that is ready again and again is taken (strong fairness),
because tokio's `select!` polls its branches in random order. The pool owes nothing: it may
never send, never read and never close. `HearsOrDials` therefore has a premise, that the
task is outside `flush` again and again; without it the property is false, and
that is what the hazard at `stratum/client.rs:198` says: a pool that stops reading
can hold the session beyond the inactivity deadline for as long as TCP allows.
`NodeClient`: calls end, by their timeout if nothing else; the poll interval passes; strong
fairness for the queue's branch of the same kind of `select!`; and a run that has failed is
cancelled, which `FailedRunEnds` of `MinerLifecycle` shows.

Every property of a passing run has at least one small change of a modelled
definition, kept in the modules as an operator marked "Mutant", under which TLC finds
the property violated: a forgotten bump, a batch that is not cut, a table of
requests that outlives its connection, an epoch that is not compared, a `select!`
that prefers one branch, a remainder searched in the wrong place.

## 4. What is proved

`DeviceWorkersProofs` proves, for any devices, requested thread counts, sizes of
the spaces, batch sizes, bodies and number of sets:

| Theorem | Statement |
| --- | --- |
| `TypeCorrect` | `Spec => []TypeOK` |
| `NeverStale` | `Spec => []UpToDateMeansCurrent` |
| `NeverTwice` | `Spec => []NoHeaderHashedTwice` |
| `NeverSkips` | `Spec => []NoNonceSkipped` |

`MinerLifecycleProofs` proves, for any number of callers and runs:

| Theorem | Statement |
| --- | --- |
| `LifecycleTypes` | `Spec => []TypeOK` |
| `SupersededAreMute` | `Spec => []LiveRunHasVoice` |
| `NobodyOverwrites` | `Spec => []WritesAreOwn` |
| `IdleStaysIdle` | `Spec => []IdleSnapshot` |
| `FinishedRunsIdle` | `Spec => []FinishedRunIdles` |
| `ImplementsHandle` | `Spec => RefinesHandle` |

`StratumSharesProofs` proves, for registries and lists of any size and any number of
works, shares and connections:

| Theorem | Statement |
| --- | --- |
| `TypeCorrect` | `Spec => []TypeOK` |
| `KnownWork` | `Spec => []NoUnknownWork` |
| `OwnSession` | `Spec => []OwnSessionOnly` |
| `RightShare` | `Spec => []AnswersFindTheirShare` |
| `ShownVerdicts` | `Spec => []VerdictShown` |
| `NothingLost` | `Spec => []PendingIsSomewhere` |
| `CountsAreExact` | `Spec => []CountedOnce` |

`StratumConnectionProofs` proves, for any hosts and sites, any waits and timeouts, lines
of any length and sockets of any room:

| Theorem | Statement |
| --- | --- |
| `TypeCorrect` | `Spec => []TypeOK` |
| `AtTheSite` | `Spec => []StaysAtSite` |
| `LinesAreWhole` | `Spec => []WholeLines` |
| `NothingLeftOver` | `Spec => []NothingOfALostSession` |
| `Patient` | `Spec => DeadPoolNotHammered` |

`NodeClientProofs` proves, for any set of blocks, finite or not, any tips and polls:

| Theorem | Statement |
| --- | --- |
| `TypeCorrect` | `Spec => []TypeOK` |
| `FollowsPoll` | `Spec => []WorkFollowsPoll` |
| `BooksAddUp` | `Spec => []BooksBalance` |
| `Implements` | `Spec => RefinesDelivery` |

`AppSettingsProofs` proves, for any texts typed, any files written by hand and any difficulties:

| Theorem | Statement |
| --- | --- |
| `FileHoldsConfig` | `Spec => []FileIsTheConfig` |
| `RunsWhatIsApplied` | `Spec => RunsTheConfig` |
| `OnlyTypingCounts` | `Spec => OnlyTypingChangesTheDraft` |
| `BestIsKept` | `Spec => BestEverKept` |

`AlgorithmsProofs` has no state. It proves, for inputs of any size:

| Theorem | Statement |
| --- | --- |
| `ComparisonIsOfNumbers` | the comparison that decides about a share, byte by byte from the end of the hash, compares the hash and the target as numbers |
| `NothingIsFilteredOut` | a hash that meets its target passes the test of its last word against the top of the target, which all backends and the shader make first |
| `VectorsAndRemainder` | full vectors, read out lane by lane, and the scalar remainder are the nonces of the range, in order |
| `GridCoversTheBatch` | each nonce of a batch has exactly one invocation of the grid; a batch is refused exactly when it needs more rows of groups than the adapter takes |
| `SweepCoversTheSpace` | the dispatches of a sweep take all nonces in order, none twice, whatever each takes; none is expected to fill more than a quarter of the candidate buffer |

So every safety invariant, every action property and both refinements that the runs
of the state machines check are theorems.

**Assumptions**, each named in the module that declares the constant:
`NoWorkIsNoWork`, `DevicesAssumption` (device indices fit their slots),
`SpacesAssumption` (spaces and batches are not empty, a roll counter has at least
two values), `SettersAssumption` (the two setters) and `WorkAssumption` (ids and
bodies). No property depends on how large the spaces are. `MinerLifecycle` only
assumes that `MaxRuns` is a number; `Callers` is any set. `BoundsAssumption`
(`StratumShares`) wants room for one job and one share; `ConnectionAssumption` a pool
that is a host with a port, waits of at least a tick of which the first is not above
the cap, and a count of fruitless attempts that goes beyond none; `NodeAssumption`
room for one job; `SettingsAssumption` that the code's own words are words, that no plausible
address is empty and that no count is no number; `TypedAssumption` names the fields of the form. `TargetAssumption` wants the bytes of a target to be a number of bytes of some
number of bits. The sweep needs a buffer for four candidates, which `candidate_cap`
presupposes when it divides by four (the code's has 1024), and a largest batch not below the least.

The arguments:

- `TypeCorrect` of the hashing threads needs `IdBound`, for a published id is within the ids of `Work`
  only because ids are handed out one per set. `BatchFits` keeps the walk within
  the nonce space.
- `NeverStale` is not inductive: between a thread's reading of the generation
  and its taking of the work, and while a set is between its two steps, nothing
  relates work and generation. `StaleInv` adds that no thread has seen a
  generation from the future and what holds of a thread that is at `get`.
- `NeverTwice` needs what the headers hashed so far look like. `HashInv` says that a
  thread's roll counter is its history (`RollIsHistory`) and that whatever has
  been hashed in a thread's lane lies behind it: in an earlier roll, or in the
  current one below the position (`HashedIsBehind`). A batch then adds headers
  that are new to its lane, and `LanesDiffer` shows that the casts to 16 bits do
  not bring two threads to one lane, because the thread count is clamped.
- `NeverSkips` builds on both: a batch adds all nonces between the old position
  and the new one (`BatchRange`), and nothing is ever taken out of `times`.
- All theorems of `MinerLifecycle` follow from one inductive invariant, `IndInv`. None of
  the properties is inductive by itself: they speak of moments when the run lock
  is free, and are upheld by what its holder does while it is not. `PathInv` says how
  far a supervisor has come and what that says of its run; `LockInv` who holds the
  run lock and that whoever does has emptied the handle; `EpochInv` that epochs
  grow with runs, so that at most the last run is current (`LastIsCurrent`) and
  `fail` recognises its own handle (`OwnerIsRun`); `LiveInv` where a shutdown
  stands at each value of `closing`; `ShownInv` that the state lock is only ever held
  by the run the snapshot was reset for, since the next reset has to wait for it;
  `IdleInv` that neither `stop` nor `fail` leaves a writer behind; `StatusInv` which
  stages are possible at each place of the supervisor. Each part is preserved by a
  lemma of its own with one step per action, and each was checked by TLC on the
  instance of `lifecycle` first.
- `ImplementsHandle` maps a reset to `Start`, the report of `stop` and the error of
  `fail` to `End`, a supervisor's update to `Advance` or a stutter (`UpdateSimulated`),
  and everything else to a stutter (`StepSimulated`).
- `StratumShares` has one inductive invariant as well, `IndInv`. `CountedOnce` and
  `PendingIsSomewhere` need to know where a share can be: `OnePlace` says that nothing is
  in two of the found thread's hands, the queue and the table of requests, `Held` that
  whatever is held has no verdict yet, so that a verdict is always the first, and
  `Counters` what the counters stand for while one of the two steps of a verdict has been
  done (`Tally`). `Requests` says that ids of requests are fresh on a connection, without
  which a late answer could find another share; `ConnectionOnly` that the table is empty
  between connections; `WorksKnown` what `publish` has in hand between registry and cell.
  `Listed` keeps a share from being recorded twice. `Numbers` bounds the counts, so that a
  share has a number when it is found.
- In `StratumConnection`, `Stream` is what makes lines whole: the pieces in the reader's
  buffer, under way and still to be sent are consecutive pieces of lines, across
  cancelled reads, shares served in between and lost connections. `SameSite` also speaks
  of the endpoint that a session about to end will hand on; `Claims` says what may be
  shown at each place. `backoff >= Owed` is the strengthening for `Patient`: the
  wait has doubled once per fruitless attempt, up to its cap, which needs that
  2^(n+1) = 2 * 2^n for every n. The library has no such fact about `^`; `PowerOfTwo`
  gets it from the number of subsets of a set.
- `NodeClient`'s `IndInv` says where a block is (`OnItsWay`: recorded, in one place, without a
  verdict), which verdicts there can be (`Verdicts`: nothing is told accepted that the
  node does not have) and keeps the books with sets that are finite although `Blocks` need
  not be. `WorkOfLastTip` extends `WorkFollowsPoll` to all the places where the client awaits
  something. `Implements` maps the report of a block to `Found` (or its dropping), the queue's branch to
  `Offer`, the node's side of a call to `Take` the first time and to a stutter afterwards, the
  end of a submission to `Tell`, the end of the run to `Stop` and everything else to a stutter.
- In `AppSettings`, `OnlyTypingCounts` rests on reading being a projection: what is read from any form is
  tidy (`ReadIsTidy`), and a tidy configuration that fills the form is read back as it was
  (`ComesBack`, `ReadTwice`), whether or not it has been applied in between (`ReadWhenApplied`,
  `ReadWhenThemed`). For the form of a new process the configuration in the file has to be tidy, so `OnlyChecked` carries
  that, and the check of a setting, from where it is made
  (save, start) to every later write, theme changes included; `InStep` and `BestKnown` relate
  memory and files over failed and torn writes and restarts.
- `AlgorithmsProofs` needs induction over digits, vectors, dispatches. The library's
  theorems for it take an operator as a parameter; instead `LeastNumber` derives from the
  well-foundedness of inclusion on finite sets that a set of numbers has a least element,
  and `UpTo` that what holds at 0 and is handed on holds up to n. That a recursive
  function satisfies its own equation has to be proved first: its partial solutions are
  extended argument by argument (`PrefixesExist`, `FlattenedInOrder`, `LoopHasAResult`).
  `ComparisonIsOfNumbers` then follows from the first digit that differs
  (`FirstDifference`), `SweepCoversTheSpace` from what each dispatch keeps (`LoopKeeps`,
  `Tiles`).


## 5. What is only model-checked

- Liveness (`DevicesFollowCell`, `StopEndsThreads`, `StopWindsDown`, `FailedRunEnds`,
  `HearsOrDials`, `QueuedIsOffered`) and anything that needs ENABLED are outside what TLAPS proves.
- The four properties of `algorithms` as a whole. The coinbase, the merkle tree and the
  block (`BlockTemplate`, `TxFormat`), jobs (`StratumProtocol`) and responses (`RpcTransport`) use RECURSIVE
  operators, which disable the SMT backend, and the rounds of SHA-256 (`HashKernels`)
  are a fold whose equality with the reference is a matter of calculation. Both are checked against
  reference definitions over bounded inputs; so are the conversions of targets
  (`FromCompact`, from a difficulty), the plan, ASIC accounting and the sampler.
  `AlgorithmsProofs` proves the parts listed above.
- The three disagreements of section 6 are counterexamples, so there is nothing to prove.

## 6. Where code and comments disagree

`lifecycle_detect`: `detect_hardware` says "A running miner owns `hardware` (its
report includes benchmarks)" and tests that there is no run, but gives the run lock
back before it writes. If a run is started after the test, plans and stores its
report before the detection gets the state lock, the older report without
benchmarks replaces it and stays for the run.

`node_rejected`: `block_rejected` is documented as "A block candidate the node
refused: loud, and counted as rejected.", but `submit_block` calls it for every
error, lost answers included. The node takes a block, the answer to the first call
is lost, the retry fails as well: the block is shown and counted as rejected though
the chain has it.

`settings_demo`: the state file is "What the miner remembers that nobody configures."
In `--demo` the snapshot is synthetic, but `refresh` compares it with the
state and saves as always, so the demonstration's best difficulty stays in
the file and hides every lesser real one.

Noticed while modelling, and followed by the models, without a run of their own:

- `Target::from_difficulty` loses the bits above 2^256 for difficulties between
  those whose target just fits and about 2.3e-10, where it becomes the largest target
  (`DifficultyIsDivided` leaves these out).
- `local_share_difficulty` is "never harder than the network", but rounding can
  make the share target an ulp smaller than the network's (for nBits 0x1b197f8e, say).
- `RpcUrl::parse` refuses a bracketed IPv6 address without a port, which its
  documentation allows (a bare host); `AddressIsRead` says nothing of these addresses. `::1` becomes host `:` and port 1.
- Two equal graphics cards count as one under `probe`, and a card whose
  first-ranked adapter is unusable is not tried under another API.
- A configured thread count of 0 means all cores for the plan and 1 for the estimate
  made from the report (`PlanIsConsistent` leaves it out).
- Revert says that the settings were reverted, but `rebuild` first reads the form
  back into the draft, so the form keeps what was typed (`Revert` in `AppSettings`). A rebuild also puts the defaults into
  the fields of the kind of source that is not selected, whatever had been typed there.
- Save and restart starts a real run in demonstration mode; `poll_secs` is lost when a pool is
  saved in between; a failed write of the state is not retried.
- In node mode a solution is dropped as stale when the registry was emptied by a lost
  connection, also if the node would still take the block.
- Reconnecting is shown from the second attempt on, also if none ever succeeded;
  after a redirect a dead endpoint is retried for ever; a `start` that cannot spawn its
  supervisor leaves the snapshot at Detecting; `fail` leaves the hash rate and the
  device rows of its run in the snapshot.

## 7. Plan

All components with a protocol have their modules, and their safety is proved. What is
left, most important first:

1. `BlockTemplate` and `TxFormat` with recursive functions in place of their RECURSIVE operators, and
   the theorem that the root folded from a merkle branch is the root of the whole tree, for any
   number of transactions: `UpTo` and `LoopKeeps` are what it needs.
2. `Targets`: that `FromCompact` is the mantissa shifted by the exponent, for any exponent.
3. `HardwarePlan`: that carried fractions lose no hash of an ASIC over any number of rounds,
   and that the benchmark rates and the estimate agree for any machine.
4. `RpcTransport`: that a chunked body comes out whole or not at all, for any body.

And two extensions of the models: the end of a run in the middle of a submission to
a pool, and the staging buffer of the GPU over failed dispatches. Twelve runs answer the
questions asked so far; a property would be replaced rather than added.

## 8. What is not modelled and why

- Floating point: hash rates, difficulties and `local_share_difficulty` are
  computed with rounding that TLA+ does not have. `Targets` has a small float of its own
  for the one conversion that decides about shares; rates are whole numbers.
- I/O: sockets, TLS, the HTTP exchange, USB and AxeOS discovery, detection of CPU and GPU,
  thread priorities. They appear as events that may succeed or fail.
- wgpu: buffers, mapping and the adapter's own limits besides the number of
  workgroups. `DispatchFails` covers what the device thread does after a failure.
- Libraries: payout addresses, JSON, the bitcoin crate. `TxFormat` and
  `BlockTemplate` contain what a node or a pool reads out of our bytes, as external
  definitions.
- Presentation: views, widgets, themes, formatting of numbers, the figures of the
  demonstration, command-line parsing, choosing a display.
- `validate` rejects a configuration before any state is touched.

## 9. Running

    tlc -workers 2 -config DeviceWorkers.cfg MCDeviceWorkers.tla
    tlc -workers 2 -config DeviceWorkersLive.cfg MCDeviceWorkers.tla
    tlc -workers 2 -config MinerLifecycle.cfg MCMinerLifecycle.tla
    tlc -workers 2 -config MinerLifecycleLive.cfg MinerLifecycle.tla
    tlc -workers 2 -config MinerLifecycleDetect.cfg MinerLifecycle.tla
    tlc -workers 2 -config StratumShares.cfg StratumShares.tla
    tlc -workers 2 -config StratumConnection.cfg MCStratumConnection.tla
    tlc -workers 2 -config NodeClient.cfg NodeClient.tla
    tlc -workers 2 -config NodeClientRejected.cfg NodeClient.tla
    tlc -workers 2 -config AppSettings.cfg MCAppSettings.tla
    tlc -workers 2 -config AppSettingsDemo.cfg MCAppSettings.tla
    tlc -workers 2 -config Algorithms.cfg Algorithms.tla
    tlapm DeviceWorkersProofs.tla
    tlapm MinerLifecycleProofs.tla
    tlapm StratumSharesProofs.tla
    tlapm StratumConnectionProofs.tla
    tlapm NodeClientProofs.tla
    tlapm AppSettingsProofs.tla
    tlapm AlgorithmsProofs.tla

The `..Detect`, `..Rejected` and `..Demo` configurations end with a counterexample.
`MinerLifecycleProofs` and `StratumSharesProofs` take a few minutes each; leaves that are slow to prove allow for more
time with `SMTT(30)`.
