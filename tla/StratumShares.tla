---------------------------- MODULE StratumShares ---------------------------
(***************************************************************************)
(* The way of a job to the devices and of a solution to the pool, in one   *)
(* run that mines at a Stratum pool (hansolo-engine run.rs and             *)
(* stratum/client.rs).                                                     *)
(*                                                                         *)
(* Three parties of the miner run concurrently: the devices, which take    *)
(* work from the cell and report solutions; the found thread, which looks  *)
(* a solution's work up in the registry of recent jobs, records the share  *)
(* and passes it on; and the network task, which publishes work, submits   *)
(* shares and applies the pool's verdicts.  They share the registry, the   *)
(* cell, the list of recent shares, the counters and two queues, each      *)
(* under a lock of its own, so an operation that touches two of them is    *)
(* two steps.  Connections are lost and made again; the queue of shares to *)
(* be submitted survives them.                                             *)
(***************************************************************************)
EXTENDS Naturals, Sequences, FiniteSets, SequencesExt

CONSTANTS
    RecentJobs,   \* RECENT_JOBS: 32
    RecentShares, \* RECENT_SHARES: 50
    BlockShares,  \* shares that also meet the network target
    MaxWorks, MaxShares, MaxSessions, \* bounds: works built, solutions, connections
    NoWork

ASSUME BoundsAssumption ==
    /\ RecentJobs \in Nat \ {0} /\ RecentShares \in Nat \ {0}
    /\ MaxWorks \in Nat /\ MaxShares \in Nat /\ MaxSessions \in Nat

Shares == 1..MaxShares
Sessions == 1..MaxSessions
Work == [id : 1..MaxWorks, session : Sessions]
Verdicts == {"Accepted", "Stale", "Rejected"}
Results == Verdicts \cup {"Pending", "Block"}

ASSUME WorkAssumption == NoWork \notin Work

VARIABLES
    \* Network task
    session,     \* id of the open connection, or 0
    sessions,    \* connections made
    e1, notify,  \* the session knows an extranonce1; a job
    nextWork,
    netpc,       \* "idle", "publish", "clear", "count"
    netarg,      \* what the second step of that is about
    pending,     \* requests awaiting an answer: [req, share]
    nextReq,
    out,         \* messages not yet flushed: [req, share, work]
    wire,        \* messages the pool has received on this connection
    \* Shared
    jobs,        \* the registry, oldest first
    cell,
    recent,      \* ShareRecords: [share, result]; share is only for the properties
    recentIds,
    counts,      \* the counters of the snapshot
    found,       \* queue from the devices
    subs,        \* queue to the network task: [share, work]
    \* Devices and found thread
    dev,         \* the work a device is on
    fpc,         \* "idle", "first", "second"
    farg,        \* the share in hand
    nextShare,
    \* History
    retired,     \* works that have left the registry
    verdict,     \* what was decided on each share, or "none"
    decided,     \* how often each share was counted accepted, stale or rejected
    orphans      \* shares whose answer was lost with its connection

netVars == <<session, sessions, e1, notify, nextWork, netpc, netarg, pending, nextReq, out, wire>>
foundVars == <<fpc, farg, nextShare>>
recordVars == <<recent, recentIds, counts>>
history == <<retired, verdict, decided, orphans>>
vars == <<netVars, foundVars, recordVars, history, jobs, cell, found, subs, dev>>

Init ==
    /\ session = 0 /\ sessions = 0 /\ e1 = FALSE /\ notify = FALSE
    /\ nextWork = 1
    /\ netpc = "idle" /\ netarg = [share |-> 0]
    /\ pending = {} /\ nextReq = 1 /\ out = {} /\ wire = {}
    /\ jobs = <<>> /\ cell = NoWork
    /\ recent = <<>> /\ recentIds = <<>>
    /\ counts = [submitted |-> 0, Accepted |-> 0, Stale |-> 0, Rejected |-> 0, blocks |-> 0]
    /\ found = <<>> /\ subs = <<>>
    /\ dev = NoWork
    /\ fpc = "idle" /\ farg = [share |-> 0] /\ nextShare = 1
    /\ retired = {} /\ orphans = {}
    /\ verdict = [s \in Shares |-> "none"]
    /\ decided = [s \in Shares |-> 0]

-----------------------------------------------------------------------------
(* The network task. *)

NoArg == [share |-> 0]

\* session(): a new connection knows neither extranonce nor job, and numbers
\* its requests from the start.
Connect ==
    /\ netpc = "idle" /\ session = 0
    /\ sessions < MaxSessions
    /\ sessions' = sessions + 1 /\ session' = sessions + 1
    /\ e1' = FALSE /\ notify' = FALSE
    /\ nextReq' = 1
    /\ UNCHANGED <<nextWork, netpc, netarg, pending, out, wire, foundVars, recordVars, history,
                   jobs, cell, found, subs, dev>>

\* publish and publish_sized build a work when both its parts are there;
\* clean says whether older works go.
Build(clean) ==
    IF e1' /\ notify'
    THEN /\ nextWork <= MaxWorks
         /\ nextWork' = nextWork + 1
         /\ netpc' = "publish"
         /\ netarg' = [work |-> [id |-> nextWork, session |-> session], clean |-> clean,
                       step |-> "first"]
    ELSE UNCHANGED <<nextWork, netpc, netarg>>

MessageRead == netpc = "idle" /\ session # 0
    /\ UNCHANGED <<session, sessions, pending, nextReq, out, wire, foundVars, recordVars,
                   history, jobs, cell, found, subs, dev>>

\* The answer to mining.subscribe: a job that came before it is published now.
\* (After a set_extranonce it is as another one.)
Subscribed == MessageRead /\ ~e1 /\ e1' = TRUE /\ UNCHANGED notify /\ Build(TRUE)

\* mining.notify: clean when the pool says so, or the previous block is another.
Notify ==
    /\ MessageRead
    /\ notify' = TRUE /\ UNCHANGED e1
    /\ \E clean \in BOOLEAN : (notify \/ clean) /\ Build(clean)

\* mining.set_difficulty: the same job again with another target.
SetDifficulty == MessageRead /\ e1 /\ notify /\ UNCHANGED <<e1, notify>> /\ Build(FALSE)

\* mining.set_extranonce
SetExtranonce == MessageRead /\ e1' = TRUE /\ UNCHANGED notify /\ Build(TRUE)

\* Mutant: one too many is kept.
KeptOneMore(clean) ==
    LET q == IF clean THEN <<>> ELSE jobs
    IN  IF Len(q) <= RecentJobs THEN q ELSE SubSeq(q, Len(q) - RecentJobs + 2, Len(q))

\* RunCtx::publish, registry: a clean job empties it, then the oldest make room.
Kept(clean) ==
    LET q == IF clean THEN <<>> ELSE jobs
    IN  IF Len(q) < RecentJobs THEN q ELSE SubSeq(q, Len(q) - RecentJobs + 2, Len(q))

\* Mutant: the devices are shown the work before it is registered.
RegistersLast(step) == step = "second"

RegistersAt(step) == step = "first"

Publish ==
    /\ netpc = "publish"
    /\ IF RegistersAt(netarg.step)
       THEN /\ jobs' = Append(Kept(netarg.clean), netarg.work)
            /\ retired' = retired \cup (ToSet(jobs) \ ToSet(jobs'))
            /\ UNCHANGED cell
       ELSE cell' = netarg.work /\ UNCHANGED <<jobs, retired>>
    /\ IF netarg.step = "first"
       THEN netarg' = [netarg EXCEPT !.step = "second"] /\ UNCHANGED netpc
       ELSE netpc' = "idle" /\ netarg' = NoArg
    /\ UNCHANGED <<session, sessions, e1, notify, nextWork, pending, nextReq, out, wire,
                   foundVars, recordVars, verdict, decided, orphans, found, subs, dev>>

\* Mutant: the table of requests outlives its connection.
KeptPending == pending

PendingAfterLoss == {}

\* Mutant: the queue of shares is the session's own.
DroppedQueue == <<>>

QueueAfterLoss == subs

\* Session::handle leaves, the read fails, a write fails or nothing was heard
\* for too long: all that belongs to the connection is dropped, and clear_work
\* empties the registry.
Lost ==
    /\ netpc = "idle" /\ session # 0
    /\ session' = 0 /\ e1' = FALSE /\ notify' = FALSE
    /\ orphans' = orphans \cup {p.share : p \in pending}
    /\ pending' = PendingAfterLoss /\ out' = {} /\ wire' = {}
    /\ subs' = QueueAfterLoss
    /\ jobs' = <<>> /\ retired' = retired \cup ToSet(jobs)
    /\ netpc' = "clear"
    /\ UNCHANGED <<sessions, nextWork, netarg, nextReq, foundVars, recordVars, verdict, decided,
                   cell, found, dev>>

\* ...and the cell.
ClearCell ==
    /\ netpc = "clear"
    /\ cell' = NoWork
    /\ netpc' = "idle"
    /\ UNCHANGED <<session, sessions, e1, notify, nextWork, netarg, pending, nextReq, out, wire,
                   foundVars, recordVars, history, jobs, found, subs, dev>>

\* share_result: the record of the share, if it is still in the list.
\* A block stays a block.
Resulting(s, result) ==
    [i \in 1..Len(recent) |->
        IF recentIds[i] = s /\ recent[i].result # "Block"
        THEN [recent[i] EXCEPT !.result = result] ELSE recent[i]]

\* First half of a verdict; the counters follow under the lock's next holder.
Decide(s, result) ==
    /\ recent' = Resulting(s, result)
    /\ verdict' = [verdict EXCEPT ![s] = result]
    /\ netpc' = "count"
    /\ netarg' = [share |-> s, result |-> result]
    /\ UNCHANGED <<recentIds, counts, retired, decided, orphans>>

\* Mutant: shares of an earlier connection are submitted, too.
OfAnySession(w) == TRUE

\* A work of this connection, on whose extranonce1 it was built.
MaySubmit(w) == w.session = session

\* Session::submit
Submit ==
    /\ netpc = "idle" /\ session # 0
    /\ subs # <<>>
    /\ subs' = Tail(subs)
    /\ IF MaySubmit(Head(subs).work)
       THEN /\ pending' = pending \cup {[req |-> nextReq, share |-> Head(subs).share]}
            /\ out' = out \cup {[req |-> nextReq, share |-> Head(subs).share,
                                 work |-> Head(subs).work]}
            /\ nextReq' = nextReq + 1
            /\ counts' = [counts EXCEPT !.submitted = @ + 1]
            /\ UNCHANGED <<recent, recentIds, history, netpc, netarg>>
       ELSE /\ Decide(Head(subs).share, "Stale")
            /\ UNCHANGED <<pending, out, nextReq>>
    /\ UNCHANGED <<session, sessions, e1, notify, nextWork, wire, foundVars, jobs, cell, found, dev>>

\* flush at the top of the session's loop.
Flush ==
    /\ netpc = "idle" /\ out # {}
    /\ wire' = wire \cup out
    /\ out' = {}
    /\ UNCHANGED <<session, sessions, e1, notify, nextWork, netpc, netarg, pending, nextReq,
                   foundVars, recordVars, history, jobs, cell, found, subs, dev>>

\* Mutant: an answered request stays in the table.
StillPending(p) == pending

Answered(p) == pending \ {p}

\* The pool answers a request, in any order and possibly twice: what it has
\* received stays in wire.  An answer to no pending request is dropped.
Answer ==
    /\ netpc = "idle" /\ session # 0
    /\ \E m \in wire, v \in Verdicts : \E p \in pending :
        /\ p.req = m.req
        /\ pending' = Answered(p)
        /\ Decide(p.share, v)
    /\ UNCHANGED <<session, sessions, e1, notify, nextWork, nextReq, out, wire, foundVars,
                   jobs, cell, found, subs, dev>>

\* The counters of a verdict.
Count ==
    /\ netpc = "count"
    /\ LET block == netarg.result = "Accepted" /\ netarg.share \in BlockShares
       IN  counts' = [c \in DOMAIN counts |->
                        IF c = netarg.result \/ (c = "blocks" /\ block)
                        THEN counts[c] + 1 ELSE counts[c]]
    /\ decided' = [decided EXCEPT ![netarg.share] = @ + 1]
    /\ netpc' = "idle" /\ netarg' = NoArg
    /\ UNCHANGED <<session, sessions, e1, notify, nextWork, pending, nextReq, out, wire,
                   foundVars, recent, recentIds, retired, verdict, orphans, jobs, cell, found,
                   subs, dev>>

-----------------------------------------------------------------------------
(* A device and the found thread. *)

\* A device notices new work, or its absence, when it next looks.
DeviceTakes ==
    /\ dev # cell
    /\ dev' = cell
    /\ UNCHANGED <<netVars, foundVars, recordVars, history, jobs, cell, found, subs>>

DeviceFinds ==
    /\ dev # NoWork
    /\ nextShare + Len(found) <= MaxShares
    /\ found' = Append(found, dev)
    /\ UNCHANGED <<netVars, foundVars, recordVars, history, jobs, cell, subs, dev>>

\* push_share: the oldest record makes room, in both lists.
Pushed(q, x) == Append(IF Len(q) < RecentShares THEN q ELSE Tail(q), x)

PushShare(s, result) ==
    /\ recent' = Pushed(recent, [share |-> s, result |-> result])
    /\ recentIds' = Pushed(recentIds, s)

\* handle_found, lookup: the share gets its id whatever comes of it.
TakeFound ==
    /\ fpc = "idle" /\ found # <<>>
    /\ found' = Tail(found)
    /\ nextShare' = nextShare + 1
    /\ fpc' = IF Head(found) \in ToSet(jobs) THEN "first" ELSE "unknown"
    /\ farg' = [share |-> nextShare, work |-> Head(found)]
    /\ UNCHANGED <<netVars, recordVars, history, jobs, cell, subs, dev>>

\* The job was cleaned before the device noticed: stale, in one update.
RecordUnknown ==
    /\ fpc = "unknown"
    /\ PushShare(farg.share, "Stale")
    /\ counts' = [counts EXCEPT !.Stale = @ + 1]
    /\ verdict' = [verdict EXCEPT ![farg.share] = "Stale"]
    /\ decided' = [decided EXCEPT ![farg.share] = @ + 1]
    /\ fpc' = "idle" /\ farg' = NoArg
    /\ UNCHANGED <<netVars, nextShare, retired, orphans, jobs, cell, found, subs, dev>>

\* The header or hash is not what the work asks for: a device's error counter.
Discard ==
    /\ fpc = "first"
    /\ fpc' = "idle" /\ farg' = NoArg
    /\ UNCHANGED <<netVars, nextShare, recordVars, history, jobs, cell, found, subs, dev>>

\* Mutant: the share goes to the network task before it is recorded.
RecordsLast(step) == step = "second"

RecordsAt(step) == step = "first"

RecordOrSend ==
    /\ fpc \in {"first", "second"}
    /\ IF RecordsAt(fpc)
       THEN /\ PushShare(farg.share, IF farg.share \in BlockShares THEN "Block" ELSE "Pending")
            /\ UNCHANGED subs
       ELSE /\ subs' = Append(subs, farg)
            /\ UNCHANGED <<recent, recentIds>>
    /\ IF fpc = "first"
       THEN fpc' = "second" /\ UNCHANGED farg
       ELSE fpc' = "idle" /\ farg' = NoArg
    /\ UNCHANGED <<netVars, nextShare, counts, history, jobs, cell, found, dev>>

-----------------------------------------------------------------------------
Net ==
    \/ Connect \/ Subscribed \/ Notify \/ SetDifficulty \/ SetExtranonce \/ Publish
    \/ Lost \/ ClearCell \/ Submit \/ Flush \/ Answer \/ Count
FoundThread == TakeFound \/ RecordUnknown \/ Discard \/ RecordOrSend
Next == Net \/ FoundThread \/ DeviceTakes \/ DeviceFinds

Spec == Init /\ [][Next]_vars

-----------------------------------------------------------------------------
(* Properties. *)

TaskTypeOK ==
    /\ session \in 0..MaxSessions /\ sessions \in 0..MaxSessions
    /\ e1 \in BOOLEAN /\ notify \in BOOLEAN
    /\ nextWork \in 1..(MaxWorks + 1)
    /\ netpc \in {"idle", "publish", "clear", "count"}

RequestsTypeOK ==
    /\ nextReq \in Nat \ {0}
    /\ pending \subseteq [req : Nat, share : Shares]
    /\ out \subseteq [req : Nat, share : Shares, work : Work]
    /\ wire \subseteq [req : Nat, share : Shares, work : Work]

WorksTypeOK ==
    /\ jobs \in Seq(Work) /\ Len(jobs) <= RecentJobs /\ retired \subseteq Work
    /\ cell \in Work \cup {NoWork} /\ dev \in Work \cup {NoWork}

QueuesTypeOK ==
    /\ found \in Seq(Work) /\ subs \in Seq([share : Shares, work : Work])
    /\ fpc \in {"idle", "first", "second", "unknown"}
    /\ nextShare \in 1..(MaxShares + 1)

RecordsTypeOK ==
    /\ recent \in Seq([share : Shares, result : Results]) /\ recentIds \in Seq(Shares)
    /\ Len(recent) <= RecentShares
    /\ counts \in [{"submitted", "Accepted", "Stale", "Rejected", "blocks"} -> Nat]
    /\ verdict \in [Shares -> Verdicts \cup {"none"}]
    /\ decided \in [Shares -> Nat] /\ orphans \subseteq Shares

TypeOK == TaskTypeOK /\ RequestsTypeOK /\ WorksTypeOK /\ QueuesTypeOK /\ RecordsTypeOK

\* "Devices see the new generation only after the registry knows the work, so
\* no solution can arrive for an unknown id" (run.rs): a work that a device or a
\* queued solution is about is registered, or it was and has been superseded.
NoUnknownWork ==
    \A w \in ToSet(found) \cup {cell, dev} : w # NoWork => w \in ToSet(jobs) \cup retired

\* "a solution for the previous connection's extranonce1 is never submitted on
\* the next one" (client.rs), though the queue of shares outlives connections.
OwnSessionOnly == \A m \in out \cup wire : m.work.session = session

\* Once decided, a share that is still listed shows what was decided on it: the
\* list of ids stays in step with the records, however many shares are found in
\* between, and a verdict never overtakes the record it is about.  Only a block
\* stays a block.
VerdictShown ==
    /\ Len(recent) = Len(recentIds)
    /\ \A i \in 1..Len(recent) :
        LET s == recent[i].share IN
        /\ s = recentIds[i]
        /\ \/ recent[i].result = IF verdict[s] = "none" THEN "Pending" ELSE verdict[s]
           \/ recent[i].result = "Block" /\ s \in BlockShares

\* No share is counted twice, and between two verdicts the counters are exactly
\* what was decided.
CountedOnce ==
    /\ \A s \in Shares : decided[s] <= 1
    /\ netpc # "count" =>
        \A v \in Verdicts : counts[v] = Cardinality({s \in Shares : verdict[s] = v})

\* Requests are numbered from the start again on each connection; still an answer
\* finds the share it is about, and no other.
AnswersFindTheirShare == \A p \in pending, m \in out \cup wire : p.req = m.req => p.share = m.share

\* No share gets lost on the way: a listed share without a verdict waits in the
\* found thread's hands, in the queue, or for an answer, unless the connection it
\* was submitted on is gone.
PendingIsSomewhere ==
    \A i \in 1..Len(recent) :
        LET s == recent[i].share IN
        verdict[s] = "none" =>
            \/ fpc = "second" /\ farg.share = s
            \/ \E j \in 1..Len(subs) : subs[j].share = s
            \/ \E p \in pending : p.share = s
            \/ s \in orphans
=============================================================================
