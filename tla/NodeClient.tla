----------------------------- MODULE NodeClient -----------------------------
(***************************************************************************)
(* Mining at a Bitcoin Core node (node/client.rs): the polling loop, the   *)
(* work it publishes, and the way of a block to the node.                  *)
(*                                                                         *)
(* Every call is a request that may or may not reach the node and an       *)
(* answer that may or may not come back.  The node's tip moves on by       *)
(* itself and by the blocks it accepts from us.  While one branch of the   *)
(* client's select! waits for an answer, the other one does not run.  The  *)
(* wait between two attempts is not measured here (StratumConnection has   *)
(* the same loop with its back-off).                                       *)
(***************************************************************************)
EXTENDS Naturals, Sequences, FiniteSets, SequencesExt

CONSTANTS
    RecentJobs,  \* RECENT_JOBS: 32
    Blocks,
    MaxTips, MaxWorks, MaxShares, \* bounds: blocks of others and ours, works, local shares
    NoWork, NoBlock

ASSUME NodeAssumption ==
    /\ RecentJobs \in Nat \ {0} /\ MaxTips \in Nat \ {0} /\ MaxWorks \in Nat
    /\ MaxShares \in Nat /\ NoBlock \notin Blocks

Tips == 1..MaxTips
Work == [id : 1..MaxWorks, tip : Tips]
Template == [tip : Tips, txs : BOOLEAN]
Answers == {"null", "duplicate", "inconclusive", "reject"}

ASSUME NoWorkAssumption == NoWork \notin Work \cup Template

VARIABLES
    \* Client
    phase,
    attempts,    \* run has dialled before
    tickDue,     \* the poll interval's tick is ready
    template,    \* the one being handled
    changed,     \* it is worth publishing
    last,        \* what the last published work of this serve was built from
    sub, try, call, \* the block being submitted, the attempt, and its call
    \* Shared
    jobs, cell, queue, nextWork,
    status, connected, failed,
    record,      \* block -> result of its ShareRecord
    counts,
    \* Devices
    dev,         \* the work that a device is on
    \* Node
    tip, txs, accepted,
    blockTip,    \* block -> tip it was built on
    \* History
    told         \* block -> the verdict of its submission

clientVars == <<phase, attempts, tickDue, template, changed, last>>
submitVars == <<sub, try, call>>
workVars == <<jobs, cell, nextWork>>
shown == <<status, connected, failed>>
books == <<record, counts, told>>
node == <<tip, txs, accepted>>
vars == <<clientVars, submitVars, workVars, shown, books, node, queue, dev, blockTip>>

Phases == {"top", "sleep", "info", "pending", "select", "fetch", "got", "refresh", "publish",
           "submit", "pause", "ended", "gone"}

Init ==
    /\ phase = "top" /\ attempts = FALSE /\ tickDue = FALSE
    /\ template = NoWork /\ changed = FALSE /\ last = NoWork
    /\ sub = NoBlock /\ try = 0 /\ call = "none"
    /\ jobs = <<>> /\ cell = NoWork /\ nextWork = 1
    /\ status = "Connecting" /\ connected = FALSE /\ failed = FALSE
    /\ record = [b \in Blocks |-> "none"] /\ told = [b \in Blocks |-> "none"]
    /\ counts = [submitted |-> 0, accepted |-> 0, rejected |-> 0, blocks |-> 0]
    /\ queue = <<>> /\ dev = NoWork
    /\ tip = 1 /\ txs = FALSE /\ accepted = {}
    /\ blockTip = [b \in Blocks |-> 0]

-----------------------------------------------------------------------------
(* run and serve *)

Goes(from, to) ==
    /\ phase = from /\ phase' = to
    /\ UNCHANGED <<queue, dev, blockTip, node>>

Top ==
    /\ \E to \in {"sleep", "info"} : (to = "sleep") = attempts /\ Goes("top", to)
    /\ status' = (IF attempts THEN "Reconnecting" ELSE "Connecting")
    /\ attempts' = TRUE
    /\ UNCHANGED <<tickDue, template, changed, last, submitVars, workVars, connected, failed, books>>

Woken ==
    /\ Goes("sleep", "info")
    /\ UNCHANGED <<attempts, tickDue, template, changed, last, submitVars, workVars, shown, books>>

\* refresh_info at the start of serve.  A payout address of another chain ends
\* the run; else the first tick is due at once.
Serve ==
    /\ \/ /\ Goes("info", "select")
          /\ connected' = TRUE /\ UNCHANGED <<status, failed>>
       \/ /\ Goes("info", "pending")
          /\ failed' = TRUE /\ status' = "Error" /\ connected' = FALSE
    /\ tickDue' = TRUE
    /\ UNCHANGED <<attempts, last, template, changed, submitVars, workVars, books>>

\* A call of refresh_info or getblocktemplate fails, or its answer is no template.
ServeEnds ==
    /\ \E from \in {"info", "fetch", "refresh"} : Goes(from, "ended")
    /\ UNCHANGED <<attempts, tickDue, template, changed, last, submitVars, workVars, shown, books>>

\* After serve: its locals are gone; idle the devices, then tell.
Disconnected ==
    /\ Goes("ended", "top")
    /\ jobs' = <<>> /\ cell' = NoWork
    /\ connected' = FALSE
    /\ template' = NoWork /\ changed' = FALSE /\ last' = NoWork
    /\ UNCHANGED <<attempts, tickDue, submitVars, nextWork, status, failed,
                   books>>

TickBranch ==
    /\ tickDue /\ tickDue' = FALSE
    /\ Goes("select", "fetch")
    /\ UNCHANGED <<attempts, template, changed, last, submitVars, workVars, shown, books>>

\* The node answers with its tip of that moment.
Fetched ==
    /\ Goes("fetch", "got")
    /\ nextWork <= MaxWorks
    /\ template' = [tip |-> tip, txs |-> txs]
    /\ UNCHANGED <<attempts, tickDue, changed, last, submitVars, workVars, shown, books>>

NewTip == last = NoWork \/ last.tip # template.tip

\* Is it worth publishing, and is it time to look at the rest of the node's
\* state?  `aged' stands for the share difficulty and for the 30 seconds,
\* `due' for INFO_REFRESH.
Decide ==
    phase = "got" /\ \E aged, due \in BOOLEAN :
        /\ changed' = (NewTip \/ aged \/ last.txs # template.txs)
        /\ Goes("got", IF NewTip \/ due THEN "refresh" ELSE IF changed' THEN "publish" ELSE "select")
        /\ template' = IF phase' = "select" THEN NoWork ELSE template
        /\ UNCHANGED <<attempts, tickDue, last, submitVars, workVars, shown, books>>

\* refresh_info again: only its first call can end the session.
Refreshed ==
    /\ Goes("refresh", IF changed THEN "publish" ELSE "select")
    /\ connected' = TRUE
    /\ template' = IF changed THEN template ELSE NoWork
    /\ UNCHANGED <<attempts, tickDue, changed, last, submitVars, workVars, status, failed, books>>

\* Mutant: a new tip does not clean the registry.
KeepsOldJobs(newTip) == jobs

JobsBefore(newTip) == IF newTip THEN <<>> ELSE jobs

\* Mutant: one too many is kept.
EvictedLate(kept) ==
    IF Len(kept) <= RecentJobs THEN kept ELSE SubSeq(kept, Len(kept) - RecentJobs + 2, Len(kept))

Evicted(kept) ==
    IF Len(kept) < RecentJobs THEN kept ELSE SubSeq(kept, Len(kept) - RecentJobs + 2, Len(kept))

\* publish and RunCtx::publish: registry, snapshot, cell.
Publish ==
    phase = "publish" /\
    LET work == [id |-> nextWork, tip |-> template.tip]
    IN  /\ Goes("publish", "select")
        /\ jobs' = Append(Evicted(JobsBefore(NewTip)), work)
        /\ cell' = work /\ nextWork' = nextWork + 1
        /\ status' = "Mining"
        /\ last' = template /\ template' = NoWork /\ changed' = FALSE
        /\ UNCHANGED <<attempts, tickDue, submitVars, connected, failed, books>>

-----------------------------------------------------------------------------
(* submit_block *)

\* Mutant: a biased select!, which takes a share only when no tick is due.
BiasedSelect == ~tickDue

AnySelect == TRUE

SubmissionBranch ==
    /\ AnySelect /\ queue # <<>>
    /\ phase = "select" /\ phase' = "submit"
    /\ sub' = Head(queue) /\ queue' = Tail(queue)
    /\ try' = 1 /\ call' = "sent"
    /\ UNCHANGED <<attempts, tickDue, template, changed, last, workVars, shown, books, dev, blockTip,
                   node>>

\* The request reaches the node.  A block on the tip is taken, or refused for
\* a reason of the node's; one it has is a duplicate; one on an older tip is
\* inconclusive or refused.
NodeTakes ==
    /\ phase = "submit" /\ call = "sent"
    /\ \/ /\ sub \notin accepted /\ blockTip[sub] = tip /\ tip < MaxTips
          /\ accepted' = accepted \cup {sub} /\ tip' = tip + 1
          /\ call' = "null"
       \/ /\ call' = IF sub \in accepted THEN "duplicate" ELSE "reject"
          /\ UNCHANGED <<tip, accepted>>
       \/ /\ blockTip[sub] # tip /\ sub \notin accepted
          /\ call' = "inconclusive"
          /\ UNCHANGED <<tip, accepted>>
    /\ UNCHANGED <<clientVars, sub, try, workVars, shown, books, queue, dev, blockTip, txs>>

\* Mutant: what is not a clear refusal counts as accepted.
AcceptedUnlessRefused(answer) ==
    IF answer \in {"null", "inconclusive"} THEN "accepted"
    ELSE IF answer = "duplicate" THEN "unclear" ELSE "failed"

\* How an answer to submitblock, or its absence, is read.
Verdict(answer) ==
    CASE answer = "null" -> "accepted"
      [] answer \in {"duplicate", "inconclusive"} -> "unclear"
      [] OTHER -> "failed"

\* Mutant: only a block with a clear verdict counts as submitted.
SubmittedIfClear(verdict) == IF verdict = "unclear" THEN 0 ELSE 1

Submitted(verdict) == 1

\* Whatever happened, the template is now stale: the next tick is due.
Concluded(answer) ==
    LET verdict == Verdict(answer) IN
    /\ phase = "submit" /\ phase' = "select"
    /\ tickDue' = TRUE
    /\ told' = [told EXCEPT ![sub] = verdict]
    /\ record' = IF verdict = "failed" THEN [record EXCEPT ![sub] = "Rejected"] ELSE record
    /\ LET one(v) == IF verdict = v THEN 1 ELSE 0
       IN  counts' = [submitted |-> counts.submitted + Submitted(verdict),
                      accepted |-> counts.accepted + one("accepted"),
                      rejected |-> counts.rejected + one("failed"),
                      blocks |-> counts.blocks + one("accepted")]
    /\ sub' = NoBlock /\ try' = 0 /\ call' = "none"
    /\ UNCHANGED <<attempts, template, changed, last, workVars, shown, queue, dev, blockTip, node>>

Answered == call \in Answers /\ Concluded(call)

\* An HTTP or RPC error is an answer, and is not retried.
CallRefused == call = "sent" /\ Concluded("error")

\* The request or its answer is lost: once it is tried again.
CallLost ==
    \/ /\ phase = "submit" /\ try = 1
       /\ phase' = "pause" /\ try' = 2 /\ call' = "none"
       /\ UNCHANGED <<attempts, tickDue, template, changed, last, sub, workVars, shown, books, queue,
                      dev, blockTip, node>>
    \/ try = 2 /\ Concluded("error")

Retry ==
    /\ Goes("pause", "submit")
    /\ call' = "sent"
    /\ UNCHANGED <<attempts, tickDue, template, changed, last, sub, try, workVars, shown, books>>

-----------------------------------------------------------------------------
(* Devices, found thread, node, time, the end of the run *)

\* handle_found: looked up, recorded, queued.  Without its work it is stale.
BlockFound ==
    /\ dev # NoWork /\ phase # "gone"
    /\ \E b \in Blocks :
        /\ record[b] = "none"
        /\ blockTip' = [blockTip EXCEPT ![b] = dev.tip]
        /\ IF Contains(jobs, dev)
           THEN record' = [record EXCEPT ![b] = "Block"] /\ queue' = Append(queue, b)
           ELSE record' = [record EXCEPT ![b] = "Stale"] /\ UNCHANGED queue
    /\ UNCHANGED <<clientVars, submitVars, workVars, shown, counts, told, dev, node>>

\* A share that is no block never leaves the process.
ShareFound ==
    /\ dev # NoWork /\ phase # "gone" /\ Contains(jobs, dev)
    /\ counts.accepted - counts.blocks < MaxShares
    /\ counts' = [submitted |-> counts.submitted + 1, accepted |-> counts.accepted + 1,
                  rejected |-> counts.rejected, blocks |-> counts.blocks]
    /\ UNCHANGED <<clientVars, submitVars, workVars, shown, record, told, queue, dev, blockTip, node>>

DeviceLooks ==
    /\ dev # cell /\ dev' = cell
    /\ UNCHANGED <<clientVars, submitVars, workVars, shown, books, queue, blockTip, node>>

NodeMovesOn ==
    /\ \/ tip < MaxTips /\ tip' = tip + 1 /\ UNCHANGED txs
       \/ txs' = ~txs /\ UNCHANGED tip
    /\ UNCHANGED <<clientVars, submitVars, workVars, shown, books, queue, dev, blockTip, accepted>>

PollDue ==
    /\ phase = "select" /\ ~tickDue /\ tickDue' = TRUE
    /\ UNCHANGED <<phase, attempts, template, changed, last, submitVars, workVars, shown, books, queue,
                   dev, blockTip, node>>

\* The task is dropped wherever it waits; what is queued goes with it.
Cancel ==
    /\ phase \in {"sleep", "info", "pending", "select", "fetch", "refresh", "submit", "pause"}
    /\ phase' = "gone"
    /\ queue' = <<>> /\ jobs' = <<>> /\ cell' = NoWork
    /\ sub' = NoBlock /\ try' = 0 /\ call' = "none"
    /\ UNCHANGED <<attempts, tickDue, template, changed, last, nextWork, shown, books, dev, blockTip,
                   node>>

ServeStep == Woken \/ Serve \/ ServeEnds \/ Disconnected \/ TickBranch \/ Fetched \/ Decide
             \/ Refreshed \/ Publish
SubmitStep == NodeTakes \/ Answered \/ CallRefused \/ CallLost \/ Retry
World == BlockFound \/ ShareFound \/ DeviceLooks \/ NodeMovesOn \/ PollDue

Next == Top \/ ServeStep \/ SubmissionBranch \/ SubmitStep \/ World \/ Cancel

(***************************************************************************)
(* The task runs, and every call ends (its timeout); a branch of select!   *)
(* that is ready again and again is taken; a failed run is cancelled.      *)
(***************************************************************************)
Fairness ==
    /\ WF_vars(Top \/ ServeStep) /\ WF_vars(SubmitStep) /\ WF_vars(PollDue)
    /\ SF_vars(SubmissionBranch) /\ WF_vars(failed /\ Cancel)

Spec == Init /\ [][Next]_vars /\ Fairness

-----------------------------------------------------------------------------
(* Properties *)

FlagsTypeOK ==
    /\ attempts \in BOOLEAN /\ tickDue \in BOOLEAN /\ changed \in BOOLEAN
    /\ connected \in BOOLEAN /\ failed \in BOOLEAN /\ txs \in BOOLEAN

ClientTypeOK ==
    /\ phase \in Phases
    /\ template \in Template \cup {NoWork} /\ last \in Template \cup {NoWork}
    /\ status \in {"Connecting", "Reconnecting", "Mining", "Error"}

SubmitTypeOK ==
    /\ sub \in Blocks \cup {NoBlock} /\ try \in 0..2 /\ call \in Answers \cup {"none", "sent"}
    /\ queue \in Seq(Blocks)

WorkTypeOK ==
    /\ jobs \in Seq(Work) /\ Len(jobs) <= RecentJobs
    /\ cell \in Work \cup {NoWork} /\ dev \in Work \cup {NoWork}
    /\ nextWork \in 1..(MaxWorks + 1)

BooksTypeOK ==
    /\ record \in [Blocks -> {"none", "Block", "Stale", "Rejected"}]
    /\ told \in [Blocks -> {"none", "accepted", "unclear", "failed"}]
    /\ counts \in [submitted : Nat, accepted : Nat, rejected : Nat, blocks : Nat]

NodeTypeOK ==
    /\ tip \in Tips /\ accepted \subseteq Blocks
    /\ blockTip \in [Blocks -> 0..MaxTips]

TypeOK == FlagsTypeOK /\ ClientTypeOK /\ SubmitTypeOK /\ WorkTypeOK /\ BooksTypeOK /\ NodeTypeOK

\* What the miner makes of a block.
Fate(b) ==
    IF record[b] = "none" THEN "unfound"
    ELSE IF record[b] = "Stale" THEN "dropped"
    ELSE IF told[b] # "none" THEN told[b]
    ELSE IF sub = b THEN "offered"
    ELSE IF Contains(queue, b) THEN "waiting"
    ELSE "lost"

Delivery == INSTANCE BlockDelivery WITH fate <- [b \in Blocks |-> Fate(b)], taken <- accepted

(* Over lost requests, lost answers, retries and reconnects: a block that   *)
(* was queued is offered, one at a time, gets exactly one verdict, and is   *)
(* lost only when the run ends; it is counted as accepted only when the     *)
(* node took it.                                                            *)
RefinesDelivery == Delivery!Spec

(* Between two polls the devices work on the tip of the last poll (if there *)
(* was one on this connection), and no solution for another tip is taken.   *)
WorkFollowsPoll ==
    phase = "select" /\ last # NoWork =>
        /\ cell # NoWork /\ cell.tip = last.tip
        /\ \A i \in DOMAIN jobs : jobs[i].tip = last.tip

(* The counters add up at any moment: every block with a verdict is counted *)
(* as submitted once, and no more blocks are counted found than the node    *)
(* has accepted.                                                            *)
BooksBalance ==
    LET Having(verdict) == Cardinality({b \in Blocks : told[b] = verdict}) IN
    /\ counts.submitted = counts.accepted + counts.rejected + Having("unclear")
    /\ counts.blocks = Having("accepted") /\ counts.blocks <= Cardinality(accepted)
    /\ counts.rejected = Having("failed")

(* A block does not wait for ever behind the polling: when the client comes *)
(* back to its select! again and again, every queued block is taken.        *)
QueuedIsOffered ==
    []<>(phase = "select") => \A b \in Blocks : (Fate(b) = "waiting") ~> (Fate(b) # "waiting")

(* What run.rs says of block_rejected: the block is one that the node       *)
(* refused.  It is called too when only the answers were lost.              *)
RejectedWasRefused == \A b \in Blocks : record[b] = "Rejected" => b \notin accepted
=============================================================================
