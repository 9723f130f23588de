--------------------------- MODULE NodeClientProofs ---------------------------
(***************************************************************************)
(* What TLAPS proves of NodeClient, for any set of blocks (finite or not)  *)
(* and any bounds: its types, that the devices work on the tip of the last *)
(* poll, that the books balance, and that a block goes the way that        *)
(* BlockDelivery says, over lost calls, retries and reconnects.            *)
(***************************************************************************)
EXTENDS NodeClient, SequenceTheorems, FiniteSetTheorems, TLAPS

-----------------------------------------------------------------------------
(* The inductive invariant.                                                 *)

\* What the client has in hand, by the place it waits at.
InHand ==
    /\ phase \in {"got", "refresh", "publish"} => template # NoWork /\ nextWork <= MaxWorks
    /\ phase = "submit" => sub \in Blocks /\ try \in {1, 2} /\ call # "none"
    /\ phase = "pause" => sub \in Blocks /\ try = 2 /\ call = "none"
    /\ phase \notin {"submit", "pause"} => sub = NoBlock /\ try = 0 /\ call = "none"

TypeInv == TypeOK /\ InHand

\* As long as the run lasts, and whatever the client waits for, the registry and
\* the cell are of the tip that was published last.
WorkOfLastTip ==
    last # NoWork /\ phase # "gone" =>
        /\ cell # NoWork /\ cell.tip = last.tip
        /\ \A i \in 1..Len(jobs) : jobs[i].tip = last.tip

\* A block on its way is recorded, has no verdict yet and is in one place.
OnItsWay ==
    /\ \A i \in 1..Len(queue) :
        record[queue[i]] = "Block" /\ told[queue[i]] = "none" /\ queue[i] # sub
    /\ \A i, j \in 1..Len(queue) : queue[i] = queue[j] => i = j
    /\ sub \in Blocks => record[sub] = "Block" /\ told[sub] = "none"

\* A verdict is about a block that was recorded, and a good one about a block
\* that the node has.
Verdicts ==
    /\ \A b \in Blocks : told[b] # "none" => record[b] \in {"Block", "Rejected"}
    /\ \A b \in Blocks : told[b] = "accepted" => b \in accepted
    /\ call = "null" => sub \in accepted

\* The blocks with one verdict.
Having(verdict) == {b \in Blocks : told[b] = verdict}

Books ==
    /\ IsFiniteSet({b \in Blocks : told[b] # "none"}) /\ IsFiniteSet(accepted)
    /\ counts.submitted = counts.accepted + counts.rejected + Cardinality(Having("unclear"))
    /\ counts.blocks = Cardinality(Having("accepted"))
    /\ counts.rejected = Cardinality(Having("failed"))

IndInv == TypeInv /\ WorkOfLastTip /\ OnItsWay /\ Verdicts /\ Books

-----------------------------------------------------------------------------
(* The operators on sequences.                                              *)

\* Appending an element to a queue.
LEMMA Appended ==
  ASSUME NEW S, NEW q \in Seq(S), NEW x \in S
  PROVE  /\ Append(q, x) \in Seq(S)
         /\ Len(q) \in Nat /\ Len(Append(q, x)) = Len(q) + 1
         /\ \A i \in 1..Len(q) : Append(q, x)[i] = q[i]
         /\ Append(q, x)[Len(q) + 1] = x
  BY AppendProperties, LenProperties

\* Taking the first element from a queue.
LEMMA Taken ==
  ASSUME NEW S, NEW q \in Seq(S), q # <<>>
  PROVE  /\ Head(q) \in S /\ Head(q) = q[1]
         /\ Tail(q) \in Seq(S)
         /\ Len(q) \in Nat \ {0} /\ Len(Tail(q)) = Len(q) - 1
         /\ \A i \in 1..Len(Tail(q)) : Tail(q)[i] = q[i + 1]
  <1>1. /\ Head(q) \in S /\ Tail(q) \in Seq(S) /\ Len(Tail(q)) = Len(q) - 1
        /\ \A i \in 1..Len(Tail(q)) : Tail(q)[i] = q[i + 1]
    BY HeadTailProperties
  <1>2. Len(q) \in Nat \ {0} /\ Head(q) = q[1]
    BY EmptySeq
  <1> QED
    BY <1>1, <1>2

\* The registry makes room for one more work and invents none.
LEMMA EvictedRegistry ==
  ASSUME NEW q \in Seq(Work), Len(q) <= RecentJobs
  PROVE  /\ Evicted(q) \in Seq(Work) /\ Len(Evicted(q)) < RecentJobs
         /\ \A i \in 1..Len(Evicted(q)) : \E j \in 1..Len(q) : Evicted(q)[i] = q[j]
  <1>1. Len(q) \in Nat /\ \A i \in 1..Len(q) : q[i] \in Work
    BY LenProperties, ElementOfSeq
  <1>2. CASE Len(q) < RecentJobs
    BY <1>1, <1>2 DEF Evicted
  <1>3. CASE Len(q) = RecentJobs
    <2>1. Evicted(q) = SubSeq(q, 2, Len(q))
      BY <1>1, <1>3, NodeAssumption DEF Evicted
    <2>2. /\ SubSeq(q, 2, Len(q)) \in Seq(Work)
          /\ Len(SubSeq(q, 2, Len(q))) = IF 2 <= Len(q) THEN Len(q) - 2 + 1 ELSE 0
          /\ \A i \in 1..(Len(q) - 2 + 1) : SubSeq(q, 2, Len(q))[i] = q[2 + i - 1]
      BY <1>1, SubSeqProperties
    <2>3. Len(q) >= 1
      BY <1>1, <1>3, NodeAssumption
    <2> QED
      BY <1>1, <1>3, <2>1, <2>2, <2>3
  <1> QED
    BY <1>1, <1>2, <1>3, NodeAssumption, SMTT(30)

-----------------------------------------------------------------------------
(* Type correctness.                                                        *)

\* Flags stay flags.
LEMMA FlagsKept ==
  ASSUME FlagsTypeOK, [Next]_vars
  PROVE  FlagsTypeOK'
  <1> USE DEF FlagsTypeOK
  <1>1. CASE Top
    BY <1>1 DEF Top, Goes, node
  <1>2. CASE Woken \/ ServeEnds \/ TickBranch \/ Fetched
    BY <1>2 DEF Woken, ServeEnds, TickBranch, Fetched, Goes, node, shown
  <1>3. CASE Serve
    BY <1>3 DEF Serve, Goes, node
  <1>4. CASE Disconnected
    BY <1>4 DEF Disconnected, Goes, node
  <1>5. CASE Decide
    <2>1. changed' \in BOOLEAN
      BY <1>5 DEF Decide
    <2> QED
      BY <1>5, <2>1 DEF Decide, Goes, node, shown
  <1>6. CASE Refreshed
    BY <1>6 DEF Refreshed, Goes, node
  <1>7. CASE Publish
    BY <1>7 DEF Publish, Goes, node
  <1>8. CASE SubmissionBranch
    BY <1>8 DEF SubmissionBranch, node, shown
  <1>9. CASE NodeTakes
    BY <1>9 DEF NodeTakes, clientVars, shown
  <1>10. ASSUME NEW answer, Concluded(answer)
         PROVE  FlagsTypeOK'
    BY <1>10 DEF Concluded, node, shown
  <1>11. CASE Answered \/ CallRefused \/ CallLost \/ Retry
    BY <1>10, <1>11 DEF Answered, CallRefused, CallLost, Retry, Goes, node, shown
  <1>12. CASE World
    <2>1. CASE BlockFound \/ ShareFound \/ DeviceLooks
      BY <2>1 DEF BlockFound, ShareFound, DeviceLooks, node, shown, clientVars
    <2>2. CASE NodeMovesOn
      BY <2>2 DEF NodeMovesOn, shown, clientVars
    <2>3. CASE PollDue
      BY <2>3 DEF PollDue, node, shown
    <2> QED
      BY <1>12, <2>1, <2>2, <2>3 DEF World
  <1>13. CASE Cancel
    BY <1>13 DEF Cancel, node, shown
  <1>14. CASE UNCHANGED vars
    BY <1>14 DEF vars, clientVars, shown, node
  <1> QED
    BY <1>1, <1>2, <1>3, <1>4, <1>5, <1>6, <1>7, <1>8, <1>9, <1>11, <1>12, <1>13, <1>14
    DEF Next, ServeStep, SubmitStep

\* The client moves between its places and holds what belongs there.
LEMMA ClientKept ==
  ASSUME TypeInv, [Next]_vars
  PROVE  ClientTypeOK' /\ InHand'
  <1> USE DEF TypeInv, TypeOK, ClientTypeOK, InHand
  <1>1. CASE Top
    <2>1. phase' \in {"sleep", "info"} /\ phase = "top"
      BY <1>1 DEF Top, Goes
    <2> QED
      BY <1>1, <2>1 DEF Top, Phases, submitVars, workVars
  <1>2. CASE Woken \/ Serve \/ ServeEnds \/ TickBranch
    BY <1>2 DEF Woken, Serve, ServeEnds, TickBranch, Goes, Phases, submitVars, workVars, shown
  <1>3. CASE Disconnected
    BY <1>3 DEF Disconnected, Goes, Phases, submitVars
  <1>4. CASE Fetched
    <2>1. template' \in Template /\ template' # NoWork
      BY <1>4, NoWorkAssumption DEF Fetched, NodeTypeOK, FlagsTypeOK, Template
    <2> QED
      BY <1>4, <2>1 DEF Fetched, Goes, Phases, submitVars, workVars, shown
  <1>5. CASE Decide
    <2>1. phase = "got" /\ phase' \in {"refresh", "publish", "select"}
      BY <1>5 DEF Decide, Goes
    <2>2. /\ template' = IF phase' = "select" THEN NoWork ELSE template
          /\ UNCHANGED <<last, submitVars, workVars, status>>
      BY <1>5 DEF Decide, shown
    <2> QED
      BY <2>1, <2>2 DEF Phases, submitVars, workVars
  <1>6. CASE Refreshed
    <2>1. /\ phase = "refresh" /\ phase' = IF changed THEN "publish" ELSE "select"
          /\ template' = IF changed THEN template ELSE NoWork
          /\ UNCHANGED <<last, submitVars, workVars, status>>
      BY <1>6 DEF Refreshed, Goes
    <2> QED
      BY <2>1 DEF Phases, submitVars, workVars
  <1>7. CASE Publish
    BY <1>7 DEF Publish, Goes, Phases, submitVars
  <1>8. CASE SubmissionBranch
    <2>1. Head(queue) \in Blocks
      BY <1>8, Taken DEF SubmissionBranch, SubmitTypeOK
    <2> QED
      BY <1>8, <2>1 DEF SubmissionBranch, Phases, workVars, shown
  <1>9. CASE NodeTakes
    <2>1. phase = "submit" /\ call' # "none" /\ UNCHANGED <<phase, sub, try>>
      BY <1>9 DEF NodeTakes, clientVars
    <2> QED
      BY <1>9, <2>1 DEF NodeTakes, clientVars, workVars, shown
  <1>10. ASSUME NEW answer, Concluded(answer)
         PROVE  ClientTypeOK' /\ InHand'
    BY <1>10 DEF Concluded, Phases, workVars, shown
  <1>11. CASE Answered \/ CallRefused
    BY <1>10, <1>11 DEF Answered, CallRefused
  <1>12. CASE CallLost \/ Retry
    BY <1>10, <1>12 DEF CallLost, Retry, Goes, Phases, workVars, shown
  <1>13. CASE World
    BY <1>13 DEF World, BlockFound, ShareFound, DeviceLooks, NodeMovesOn, PollDue,
                 clientVars, submitVars, workVars, shown
  <1>14. CASE Cancel
    BY <1>14 DEF Cancel, Phases, shown
  <1>15. CASE UNCHANGED vars
    BY <1>15 DEF vars, clientVars, submitVars, workVars, shown
  <1> QED
    BY <1>1, <1>2, <1>3, <1>4, <1>5, <1>6, <1>7, <1>8, <1>9, <1>11, <1>12, <1>13, <1>14, <1>15
    DEF Next, ServeStep, SubmitStep

\* The block being submitted and the queue.
LEMMA SubmitKept ==
  ASSUME TypeInv, [Next]_vars
  PROVE  SubmitTypeOK'
  <1> USE DEF TypeInv, TypeOK, SubmitTypeOK
  <1>1. CASE Top \/ ServeStep
    <2>1. UNCHANGED <<sub, try, call, queue>>
      BY <1>1 DEF Top, ServeStep, Woken, Serve, ServeEnds, Disconnected, TickBranch, Fetched,
                  Decide, Refreshed, Publish, Goes, submitVars
    <2> QED
      BY <2>1
  <1>2. CASE SubmissionBranch
    BY <1>2, Taken DEF SubmissionBranch
  <1>3. CASE NodeTakes
    <2>1. call' \in Answers /\ UNCHANGED <<sub, try, queue>>
      BY <1>3 DEF NodeTakes, Answers
    <2> QED
      BY <2>1
  <1>4. ASSUME NEW answer, Concluded(answer)
        PROVE  SubmitTypeOK'
    BY <1>4 DEF Concluded
  <1>5. CASE Answered \/ CallRefused \/ CallLost \/ Retry
    BY <1>4, <1>5 DEF Answered, CallRefused, CallLost, Retry, Goes
  <1>6. CASE BlockFound
    <2>1. UNCHANGED <<sub, try, call>>
      BY <1>6 DEF BlockFound, submitVars
    <2>2. PICK b \in Blocks : queue' \in {queue, Append(queue, b)}
      BY <1>6 DEF BlockFound
    <2> QED
      BY <2>1, <2>2, Appended
  <1>7. CASE ShareFound \/ DeviceLooks \/ NodeMovesOn \/ PollDue
    BY <1>7 DEF ShareFound, DeviceLooks, NodeMovesOn, PollDue, submitVars
  <1>8. CASE Cancel
    BY <1>8, EmptySeq DEF Cancel
  <1>9. CASE UNCHANGED vars
    BY <1>9 DEF vars, submitVars
  <1> QED
    BY <1>1, <1>2, <1>3, <1>5, <1>6, <1>7, <1>8, <1>9 DEF Next, SubmitStep, World

\* What the client publishes.
LEMMA PublishStep ==
  ASSUME TypeInv, Publish
  PROVE  LET q == Evicted(JobsBefore(NewTip))
             w == [id |-> nextWork, tip |-> template.tip]
         IN  /\ q \in Seq(Work) /\ Len(q) < RecentJobs /\ w \in Work
             /\ \A i \in 1..Len(q) : ~NewTip /\ \E j \in 1..Len(jobs) : q[i] = jobs[j]
             /\ jobs' = Append(q, w) /\ cell' = w /\ nextWork' = nextWork + 1
             /\ template \in Template /\ nextWork \in 1..MaxWorks /\ last' = template
             /\ UNCHANGED dev
  <1>1. template \in Template /\ nextWork \in 1..MaxWorks
    BY NodeAssumption
    DEF Publish, TypeInv, TypeOK, ClientTypeOK, WorkTypeOK, InHand
  <1>2. [id |-> nextWork, tip |-> template.tip] \in Work
    BY <1>1 DEF Template, Work
  <1>3. /\ JobsBefore(NewTip) \in Seq(Work) /\ Len(JobsBefore(NewTip)) <= RecentJobs
        /\ \A j \in 1..Len(JobsBefore(NewTip)) :
              ~NewTip /\ j \in 1..Len(jobs) /\ JobsBefore(NewTip)[j] = jobs[j]
    <2>1. jobs \in Seq(Work) /\ Len(jobs) <= RecentJobs
      BY DEF TypeInv, TypeOK, WorkTypeOK
    <2>2. CASE NewTip
      BY <2>2, EmptySeq, NodeAssumption DEF JobsBefore
    <2>3. CASE ~NewTip
      BY <2>1, <2>3 DEF JobsBefore
    <2> QED
      BY <2>2, <2>3
  <1>4. /\ Evicted(JobsBefore(NewTip)) \in Seq(Work)
        /\ Len(Evicted(JobsBefore(NewTip))) < RecentJobs
        /\ \A i \in 1..Len(Evicted(JobsBefore(NewTip))) :
             \E j \in 1..Len(JobsBefore(NewTip)) :
               Evicted(JobsBefore(NewTip))[i] = JobsBefore(NewTip)[j]
    BY <1>3, EvictedRegistry
  <1>5. /\ jobs' = Append(Evicted(JobsBefore(NewTip)), [id |-> nextWork, tip |-> template.tip])
        /\ cell' = [id |-> nextWork, tip |-> template.tip] /\ nextWork' = nextWork + 1
        /\ last' = template /\ UNCHANGED dev
    BY DEF Publish, Goes
  <1> QED
    BY <1>1, <1>2, <1>3, <1>4, <1>5

\* The registry within its bound, the cell and the devices.
LEMMA WorkKept ==
  ASSUME TypeInv, [Next]_vars
  PROVE  WorkTypeOK'
  <1> USE DEF TypeInv, TypeOK, WorkTypeOK
  <1>1. CASE Publish
    <2> DEFINE q == Evicted(JobsBefore(NewTip))
               w == [id |-> nextWork, tip |-> template.tip]
    <2>1. /\ q \in Seq(Work) /\ Len(q) < RecentJobs /\ w \in Work
          /\ jobs' = Append(q, w) /\ cell' = w /\ nextWork' = nextWork + 1
          /\ nextWork \in 1..MaxWorks /\ UNCHANGED dev
      BY <1>1, PublishStep
    <2> HIDE DEF q, w
    <2>2. jobs' \in Seq(Work) /\ Len(jobs') <= RecentJobs
      BY <2>1, Appended, NodeAssumption
    <2> QED
      BY <2>1, <2>2, NodeAssumption
  <1>2. CASE Disconnected \/ Cancel
    <2>1. jobs' = <<>> /\ cell' = NoWork /\ UNCHANGED <<nextWork, dev>>
      BY <1>2 DEF Disconnected, Cancel, Goes
    <2> QED
      BY <2>1, EmptySeq, NodeAssumption
  <1>3. CASE DeviceLooks
    BY <1>3 DEF DeviceLooks, workVars
  <1>4. CASE UNCHANGED <<jobs, cell, nextWork, dev>>
    BY <1>4
  <1>5. CASE Top \/ Woken \/ Serve \/ ServeEnds \/ TickBranch \/ Fetched \/ Decide \/ Refreshed
    BY <1>4, <1>5 DEF Top, Woken, Serve, ServeEnds, TickBranch, Fetched, Decide, Refreshed, Goes,
                      workVars
  <1>6. ASSUME NEW answer, Concluded(answer)
        PROVE  WorkTypeOK'
    BY <1>4, <1>6 DEF Concluded, workVars
  <1>7. CASE SubmissionBranch \/ NodeTakes \/ Answered \/ CallRefused \/ CallLost \/ Retry
    BY <1>4, <1>6, <1>7 DEF SubmissionBranch, NodeTakes, Answered, CallRefused, CallLost, Retry,
                            Goes, workVars
  <1>8. CASE BlockFound \/ ShareFound \/ NodeMovesOn \/ PollDue
    BY <1>4, <1>8 DEF BlockFound, ShareFound, NodeMovesOn, PollDue, workVars
  <1>9. CASE UNCHANGED vars
    BY <1>4, <1>9 DEF vars, workVars
  <1> QED
    BY <1>1, <1>2, <1>3, <1>5, <1>7, <1>8, <1>9 DEF Next, ServeStep, SubmitStep, World

\* Every answer to a submission is read as one of three verdicts, and only a
\* null one as good.
LEMMA VerdictOf ==
  ASSUME NEW answer
  PROVE  /\ Verdict(answer) \in {"accepted", "unclear", "failed"}
         /\ Verdict(answer) = "accepted" => answer = "null"
  <1>1. CASE answer = "null"
    BY <1>1 DEF Verdict
  <1>2. CASE answer \in {"duplicate", "inconclusive"}
    BY <1>2 DEF Verdict
  <1>3. CASE answer \notin {"null", "duplicate", "inconclusive"}
    BY <1>3 DEF Verdict
  <1> QED
    BY <1>1, <1>2, <1>3

\* A submission is concluded: the block's verdict, and the counters.
LEMMA ConcludedStep ==
  ASSUME TypeInv, NEW answer, Concluded(answer)
  PROVE  \E verdict \in {"accepted", "unclear", "failed"} :
           /\ verdict = "accepted" => answer = "null"
           /\ phase = "submit" /\ phase' = "select" /\ sub \in Blocks /\ sub' = NoBlock
           /\ call' = "none" /\ told' = [told EXCEPT ![sub] = verdict]
           /\ record' = IF verdict = "failed" THEN [record EXCEPT ![sub] = "Rejected"] ELSE record
           /\ counts' = [submitted |-> counts.submitted + 1,
                         accepted |-> counts.accepted + (IF verdict = "accepted" THEN 1 ELSE 0),
                         rejected |-> counts.rejected + (IF verdict = "failed" THEN 1 ELSE 0),
                         blocks |-> counts.blocks + (IF verdict = "accepted" THEN 1 ELSE 0)]
           /\ UNCHANGED <<queue, last, jobs, cell, tip, accepted, blockTip>>
  <1> DEFINE v == Verdict(answer)
  <1>1. v \in {"accepted", "unclear", "failed"} /\ (v = "accepted" => answer = "null")
    BY VerdictOf
  <1>2. phase = "submit" /\ sub \in Blocks
    BY DEF Concluded, TypeInv, InHand
  <1>3. /\ phase' = "select" /\ sub' = NoBlock
        /\ call' = "none" /\ told' = [told EXCEPT ![sub] = v]
        /\ record' = IF v = "failed" THEN [record EXCEPT ![sub] = "Rejected"] ELSE record
        /\ counts' = [submitted |-> counts.submitted + 1,
                      accepted |-> counts.accepted + (IF v = "accepted" THEN 1 ELSE 0),
                      rejected |-> counts.rejected + (IF v = "failed" THEN 1 ELSE 0),
                      blocks |-> counts.blocks + (IF v = "accepted" THEN 1 ELSE 0)]
        /\ UNCHANGED <<queue, last, jobs, cell, tip, accepted, blockTip>>
    BY DEF Concluded, Submitted, workVars, node
  <1> HIDE DEF v
  <1> QED
    BY <1>1, <1>2, <1>3

\* Which answer concludes a submission: one that came, or none.
LEMMA Conclusions ==
  ASSUME Answered \/ CallRefused \/ (CallLost /\ try # 1)
  PROVE  Concluded(call) \/ Concluded("error")
  BY DEF Answered, CallRefused, CallLost

\* Steps that leave the blocks on their way alone.
Aside ==
    \/ Top \/ ServeStep \/ ShareFound \/ DeviceLooks \/ NodeMovesOn \/ PollDue \/ Retry
    \/ (CallLost /\ try = 1) \/ UNCHANGED vars

\* Such a step changes no block, and counts at most a share of ours.
LEMMA AsideStep ==
  ASSUME TypeInv, Aside
  PROVE  /\ UNCHANGED <<sub, queue, record, told, accepted, blockTip>>
         /\ call' \in {call, "none", "sent"}
         /\ \/ UNCHANGED counts
            \/ counts' = [submitted |-> counts.submitted + 1, accepted |-> counts.accepted + 1,
                          rejected |-> counts.rejected, blocks |-> counts.blocks]
  <1>1. CASE Top \/ ServeStep
    BY <1>1 DEF Top, ServeStep, Woken, Serve, ServeEnds, Disconnected, TickBranch, Fetched,
                Decide, Refreshed, Publish, Goes, submitVars, books, node
  <1>2. CASE ShareFound \/ DeviceLooks \/ NodeMovesOn \/ PollDue
    BY <1>2 DEF ShareFound, DeviceLooks, NodeMovesOn, PollDue, submitVars, books, node
  <1>3. CASE Retry
    BY <1>3 DEF Retry, Goes, books, node
  <1>4. CASE CallLost /\ try = 1
    BY <1>4 DEF CallLost, books, node
  <1>5. CASE UNCHANGED vars
    BY <1>5 DEF vars, submitVars, books, node
  <1> QED
    BY <1>1, <1>2, <1>3, <1>4, <1>5 DEF Aside

\* A block is found: recorded, and queued if its work is known.
LEMMA FoundStep ==
  ASSUME TypeInv, BlockFound
  PROVE  \E b \in Blocks :
           /\ record[b] = "none"
           /\ \/ record' = [record EXCEPT ![b] = "Block"] /\ queue' = Append(queue, b)
              \/ record' = [record EXCEPT ![b] = "Stale"] /\ UNCHANGED queue
           /\ blockTip' \in [Blocks -> 0..MaxTips]
           /\ UNCHANGED <<sub, call, told, counts, accepted, tip>>
  <1>1. UNCHANGED <<sub, call, told, counts, accepted, tip>>
    BY DEF BlockFound, submitVars, node
  <1>2. PICK b \in Blocks :
          /\ record[b] = "none" /\ blockTip' = [blockTip EXCEPT ![b] = dev.tip]
          /\ \/ record' = [record EXCEPT ![b] = "Block"] /\ queue' = Append(queue, b)
             \/ record' = [record EXCEPT ![b] = "Stale"] /\ UNCHANGED queue
    BY DEF BlockFound
  <1>3. dev \in Work
    BY DEF BlockFound, TypeInv, TypeOK, WorkTypeOK
  <1>4. dev.tip \in 0..MaxTips
    BY <1>3 DEF Work, Tips
  <1>5. blockTip' \in [Blocks -> 0..MaxTips]
    BY <1>2, <1>4 DEF TypeInv, TypeOK, NodeTypeOK
  <1> QED
    BY <1>1, <1>2, <1>5

\* The node's answer: only a null one adds a block to its chain, the one offered.
LEMMA NodeStep ==
  ASSUME TypeInv, NodeTakes
  PROVE  /\ sub \in Blocks /\ tip' \in Tips /\ call' \in Answers
         /\ accepted' \in {accepted, accepted \cup {sub}}
         /\ call' = "null" => accepted' = accepted \cup {sub}
         /\ UNCHANGED <<sub, queue, record, told, counts, blockTip>>
  <1>1. sub \in Blocks /\ UNCHANGED <<sub, queue, record, told, counts, blockTip>>
    BY DEF NodeTakes, TypeInv, InHand, books
  <1>2. /\ accepted' \in {accepted, accepted \cup {sub}}
        /\ call' \in Answers /\ (call' = "null" => accepted' = accepted \cup {sub})
    BY DEF NodeTakes, Answers
  <1>3. tip' \in Tips
    BY NodeAssumption DEF NodeTakes, TypeInv, TypeOK, NodeTypeOK, Tips
  <1> QED
    BY <1>1, <1>2, <1>3

\* The end of the run.
LEMMA CancelStep ==
  ASSUME Cancel
  PROVE  /\ phase' = "gone" /\ queue' = <<>> /\ sub' = NoBlock /\ call' = "none"
         /\ UNCHANGED <<record, told, counts, accepted, blockTip, tip>>
  BY DEF Cancel, books, node

\* A block is taken from the queue.
LEMMA BranchStep ==
  ASSUME TypeInv, SubmissionBranch
  PROVE  /\ sub = NoBlock /\ sub' = queue[1] /\ sub' \in Blocks /\ call' = "sent"
         /\ Len(queue) \in Nat \ {0} /\ Len(queue') = Len(queue) - 1
         /\ \A i \in 1..Len(queue') : queue'[i] = queue[i + 1]
         /\ UNCHANGED <<record, told, counts, accepted, blockTip, tip>>
  <1>1. sub = NoBlock /\ UNCHANGED <<record, told, counts, accepted, blockTip, tip>>
    BY DEF SubmissionBranch, TypeInv, InHand, books, node
  <1>2. /\ sub' = Head(queue) /\ queue' = Tail(queue) /\ queue # <<>> /\ call' = "sent"
        /\ queue \in Seq(Blocks)
    BY DEF SubmissionBranch, TypeInv, TypeOK, SubmitTypeOK
  <1> QED
    BY <1>1, <1>2, Taken

\* All steps, by what they do to the blocks.
LEMMA Steps ==
  ASSUME TypeInv, [Next]_vars
  PROVE  Aside \/ SubmissionBranch \/ NodeTakes \/ BlockFound \/ Cancel
         \/ Concluded(call) \/ Concluded("error")
  BY Conclusions DEF Next, SubmitStep, World, Aside

\* The records, the counters and the node's state.
LEMMA BooksTypesKept ==
  ASSUME TypeInv, [Next]_vars
  PROVE  BooksTypeOK' /\ NodeTypeOK'
  <1> USE DEF TypeInv, TypeOK, BooksTypeOK, NodeTypeOK
  <1>1. CASE Aside
    <2>1. BooksTypeOK'
      BY <1>1, AsideStep
    <2>2. tip' \in Tips
      <3>1. CASE NodeMovesOn
        BY <3>1, NodeAssumption DEF NodeMovesOn, Tips
      <3>2. CASE ~NodeMovesOn
        BY <1>1, <3>2 DEF Aside, Top, ServeStep, Woken, Serve, ServeEnds, Disconnected, TickBranch,
                          Fetched, Decide, Refreshed, Publish, ShareFound, DeviceLooks, PollDue,
                          Retry, CallLost, Goes, node, vars
      <3> QED
        BY <3>1, <3>2
    <2> QED
      BY <1>1, <2>1, <2>2, AsideStep
  <1>2. CASE SubmissionBranch
    BY <1>2, BranchStep
  <1>3. CASE NodeTakes
    BY <1>3, NodeStep
  <1>4. CASE BlockFound
    BY <1>4, FoundStep
  <1>5. CASE Cancel
    BY <1>5, CancelStep
  <1>6. ASSUME NEW answer, Concluded(answer)
        PROVE  BooksTypeOK' /\ NodeTypeOK'
    BY <1>6, ConcludedStep
  <1> QED
    BY <1>1, <1>2, <1>3, <1>4, <1>5, <1>6, Steps

\* At first there is nothing anywhere.
LEMMA TypeInit == Init => TypeInv
  <1> SUFFICES ASSUME Init
               PROVE  TypeInv
    OBVIOUS
  <1>1. FlagsTypeOK
    BY DEF Init, FlagsTypeOK
  <1>2. ClientTypeOK /\ InHand
    BY DEF Init, ClientTypeOK, InHand, Phases
  <1>3. SubmitTypeOK /\ WorkTypeOK
    <2>1. jobs \in Seq(Work) /\ Len(jobs) = 0 /\ queue \in Seq(Blocks)
      BY EmptySeq DEF Init
    <2> QED
      BY <2>1, NodeAssumption DEF Init, SubmitTypeOK, WorkTypeOK
  <1>4. BooksTypeOK /\ NodeTypeOK
    BY NodeAssumption DEF Init, BooksTypeOK, NodeTypeOK, Tips
  <1> QED
    BY <1>1, <1>2, <1>3, <1>4 DEF TypeInv, TypeOK

\* Every step keeps the types.
LEMMA TypesKept == TypeInv /\ [Next]_vars => TypeInv'
  BY FlagsKept, ClientKept, SubmitKept, WorkKept, BooksTypesKept DEF TypeInv, TypeOK

\* Every variable keeps its type, and the registry its bound, for any blocks.
THEOREM TypeCorrect == Spec => []TypeOK
  <1>1. TypeInv => TypeOK
    BY DEF TypeInv
  <1> QED
    BY <1>1, TypeInit, TypesKept, PTL DEF Spec
-----------------------------------------------------------------------------
(* The devices and the registry follow the poll.                            *)

\* A step other than a publication, a lost connection and the end of the run
\* leaves the work alone.
LEMMA WorkAside ==
  ASSUME TypeInv, [Next]_vars, ~Publish, ~Disconnected, ~Cancel
  PROVE  UNCHANGED <<last, jobs, cell>> /\ (phase = "gone" => phase' = "gone")
  <1>1. CASE Top \/ ServeStep
    BY <1>1 DEF Top, ServeStep, Woken, Serve, ServeEnds, TickBranch, Fetched, Decide, Refreshed,
                Goes, workVars
  <1>2. ASSUME NEW answer, Concluded(answer)
        PROVE  UNCHANGED <<last, jobs, cell>> /\ (phase = "gone" => phase' = "gone")
    BY <1>2 DEF Concluded, workVars
  <1>3. CASE SubmissionBranch \/ SubmitStep
    BY <1>2, <1>3 DEF SubmissionBranch, SubmitStep, NodeTakes, Answered, CallRefused, CallLost,
                      Retry, Goes, workVars, clientVars
  <1>4. CASE World
    BY <1>4 DEF World, BlockFound, ShareFound, DeviceLooks, NodeMovesOn, PollDue, workVars,
                clientVars
  <1>5. CASE UNCHANGED vars
    BY <1>5 DEF vars, workVars, clientVars
  <1> QED
    BY <1>1, <1>3, <1>4, <1>5 DEF Next

\* A publication on a new tip starts from an empty registry; one on the same tip
\* adds to works that are on it.
LEMMA WorkOfLastTipKept ==
  ASSUME TypeInv, WorkOfLastTip, [Next]_vars
  PROVE  WorkOfLastTip'
  <1>1. CASE Publish
    <2> DEFINE q == Evicted(JobsBefore(NewTip))
               w == [id |-> nextWork, tip |-> template.tip]
    <2>1. /\ q \in Seq(Work) /\ w \in Work
          /\ \A i \in 1..Len(q) : ~NewTip /\ \E j \in 1..Len(jobs) : q[i] = jobs[j]
          /\ jobs' = Append(q, w) /\ cell' = w /\ last' = template
      BY <1>1, PublishStep
    <2>2. w.tip = template.tip /\ w # NoWork
      BY <2>1, NoWorkAssumption
    <2>3. phase # "gone"
      BY <1>1 DEF Publish, Goes
    <2> HIDE DEF q, w
    <2>4. /\ Len(q) \in Nat /\ Len(jobs') = Len(q) + 1
          /\ \A i \in 1..Len(q) : jobs'[i] = q[i]
          /\ jobs'[Len(q) + 1] = w
      BY <2>1, Appended
    <2>5. ASSUME NEW i \in 1..Len(jobs')
          PROVE  jobs'[i].tip = template.tip
      <3>1. CASE i = Len(q) + 1
        BY <2>2, <2>4, <3>1
      <3>2. CASE i # Len(q) + 1
        <4>1. i \in 1..Len(q) /\ jobs'[i] = q[i]
          BY <2>4, <3>2
        <4>2. PICK j \in 1..Len(jobs) : q[i] = jobs[j]
          BY <2>1, <4>1
        <4>3. last # NoWork /\ last.tip = template.tip
          BY <2>1, <4>1 DEF NewTip
        <4> QED
          BY <2>3, <4>1, <4>2, <4>3 DEF WorkOfLastTip
      <3> QED
        BY <3>1, <3>2
    <2> QED
      BY <2>1, <2>2, <2>5 DEF WorkOfLastTip
  <1>2. CASE Disconnected
    BY <1>2 DEF Disconnected, WorkOfLastTip
  <1>3. CASE Cancel
    BY <1>3 DEF Cancel, WorkOfLastTip
  <1>4. CASE ~Publish /\ ~Disconnected /\ ~Cancel
    BY <1>4, WorkAside DEF WorkOfLastTip
  <1> QED
    BY <1>1, <1>2, <1>3, <1>4

-----------------------------------------------------------------------------
(* Blocks on their way.                                                     *)

\* A block is in one place from the moment it is found until its verdict.
LEMMA OnItsWayKept ==
  ASSUME TypeInv, OnItsWay, Verdicts, [Next]_vars
  PROVE  OnItsWay'
  <1> USE DEF OnItsWay
  <1>0. /\ queue \in Seq(Blocks) /\ Len(queue) \in Nat
        /\ \A i \in 1..Len(queue) : queue[i] \in Blocks
        /\ sub \in Blocks \cup {NoBlock} /\ NoBlock \notin Blocks
    BY NodeAssumption, LenProperties, ElementOfSeq DEF TypeInv, TypeOK, SubmitTypeOK
  <1>1. CASE Aside
    BY <1>1, AsideStep
  <1>2. CASE SubmissionBranch
    <2>1. /\ sub' = queue[1] /\ Len(queue) \in Nat \ {0} /\ Len(queue') = Len(queue) - 1
          /\ \A i \in 1..Len(queue') : queue'[i] = queue[i + 1]
          /\ UNCHANGED <<record, told>>
      BY <1>2, BranchStep
    <2>2. \A i \in 1..Len(queue') : i + 1 \in 1..Len(queue) /\ i + 1 # 1
      BY <2>1
    <2> QED
      BY <2>1, <2>2, SMTT(30)
  <1>3. CASE NodeTakes
    BY <1>3, NodeStep
  <1>4. CASE BlockFound
    <2>1. PICK b \in Blocks :
            /\ record[b] = "none"
            /\ \/ record' = [record EXCEPT ![b] = "Block"] /\ queue' = Append(queue, b)
               \/ record' = [record EXCEPT ![b] = "Stale"] /\ UNCHANGED queue
            /\ UNCHANGED <<sub, told>>
      BY <1>4, FoundStep
    <2>2. \A c \in Blocks : c # b => record'[c] = record[c]
      BY <2>1 DEF TypeInv, TypeOK, BooksTypeOK
    <2>3. /\ \A i \in 1..Len(queue) : queue[i] # b
          /\ sub # b /\ told[b] = "none"
      BY <2>1 DEF Verdicts
    <2>4. CASE record' = [record EXCEPT ![b] = "Stale"] /\ UNCHANGED queue
      BY <1>0, <2>1, <2>2, <2>3, <2>4
    <2>5. CASE record' = [record EXCEPT ![b] = "Block"] /\ queue' = Append(queue, b)
      <3>1. /\ Len(queue') = Len(queue) + 1 /\ queue'[Len(queue) + 1] = b
            /\ \A i \in 1..Len(queue) : queue'[i] = queue[i]
        BY <1>0, <2>5, Appended
      <3>2. record'[b] = "Block"
        BY <2>5 DEF TypeInv, TypeOK, BooksTypeOK
      <3>3. \A i \in 1..Len(queue') : i \in 1..Len(queue) \/ queue'[i] = b
        BY <1>0, <3>1
      <3>4. \A i \in 1..Len(queue') :
               record'[queue'[i]] = "Block" /\ told'[queue'[i]] = "none" /\ queue'[i] # sub'
        BY <1>0, <2>1, <2>2, <2>3, <3>1, <3>2, <3>3
      <3>5. \A i, j \in 1..Len(queue') : queue'[i] = queue'[j] => i = j
        BY <1>0, <2>3, <3>1
      <3>6. sub' \in Blocks => record'[sub'] = "Block" /\ told'[sub'] = "none"
        BY <2>1, <2>2, <2>3
      <3> QED
        BY <3>4, <3>5, <3>6
    <2> QED
      BY <2>1, <2>4, <2>5
  <1>5. CASE Cancel
    <2>1. Len(queue') = 0 /\ sub' = NoBlock
      BY <1>5, CancelStep, EmptySeq
    <2> QED
      BY <1>0, <2>1
  <1>6. ASSUME NEW answer, Concluded(answer)
        PROVE  OnItsWay'
    <2>1. PICK verdict \in {"accepted", "unclear", "failed"} :
            /\ sub \in Blocks /\ sub' = NoBlock
            /\ told' = [told EXCEPT ![sub] = verdict]
            /\ record' = IF verdict = "failed" THEN [record EXCEPT ![sub] = "Rejected"] ELSE record
            /\ UNCHANGED queue
      BY <1>6, ConcludedStep
    <2>2. \A c \in Blocks : c # sub => record'[c] = record[c] /\ told'[c] = told[c]
      BY <2>1 DEF TypeInv, TypeOK, BooksTypeOK
    <2> QED
      BY <1>0, <2>1, <2>2
  <1> QED
    BY <1>1, <1>2, <1>3, <1>4, <1>5, <1>6, Steps

\* A good verdict follows a null answer, which only a block on the chain gets.
LEMMA VerdictsKept ==
  ASSUME TypeInv, OnItsWay, Verdicts, [Next]_vars
  PROVE  Verdicts'
  <1> USE DEF Verdicts
  <1>1. CASE Aside
    <2>1. /\ UNCHANGED <<sub, record, told, accepted>>
          /\ call' \in {call, "none", "sent"}
      BY <1>1, AsideStep
    <2> QED
      BY <2>1
  <1>2. CASE SubmissionBranch
    BY <1>2, BranchStep
  <1>3. CASE NodeTakes
    <2>1. /\ accepted' \in {accepted, accepted \cup {sub}}
          /\ call' = "null" => accepted' = accepted \cup {sub}
          /\ UNCHANGED <<sub, record, told>>
      BY <1>3, NodeStep
    <2> QED
      BY <2>1
  <1>4. CASE BlockFound
    <2>1. PICK b \in Blocks :
            /\ record[b] = "none"
            /\ record' \in {[record EXCEPT ![b] = "Block"], [record EXCEPT ![b] = "Stale"]}
            /\ UNCHANGED <<sub, call, told, accepted>>
      BY <1>4, FoundStep
    <2>2. \A c \in Blocks : c # b => record'[c] = record[c]
      BY <2>1 DEF TypeInv, TypeOK, BooksTypeOK
    <2>3. told[b] = "none"
      BY <2>1
    <2> QED
      BY <2>1, <2>2, <2>3
  <1>5. CASE Cancel
    BY <1>5, CancelStep
  <1>6. ASSUME NEW answer, Concluded(answer), answer \in {call, "error"}
        PROVE  Verdicts'
    <2>1. PICK verdict \in {"accepted", "unclear", "failed"} :
            /\ verdict = "accepted" => answer = "null"
            /\ sub \in Blocks /\ call' = "none"
            /\ told' = [told EXCEPT ![sub] = verdict]
            /\ record' = IF verdict = "failed" THEN [record EXCEPT ![sub] = "Rejected"] ELSE record
            /\ UNCHANGED accepted
      BY <1>6, ConcludedStep
    <2>2. \A c \in Blocks : c # sub => record'[c] = record[c] /\ told'[c] = told[c]
      BY <2>1 DEF TypeInv, TypeOK, BooksTypeOK
    <2>3. /\ told'[sub] = verdict /\ record'[sub] \in {"Block", "Rejected"}
          /\ verdict = "accepted" => sub \in accepted
      BY <1>6, <2>1 DEF TypeInv, TypeOK, BooksTypeOK, OnItsWay
    <2> QED
      BY <2>1, <2>2, <2>3
  <1> QED
    BY <1>1, <1>2, <1>3, <1>4, <1>5, <1>6, Steps

-----------------------------------------------------------------------------
(* The books.                                                               *)

\* A verdict told to a block without one adds one to its own count, and to no
\* other.
LEMMA OneMoreVerdict ==
  ASSUME told \in [Blocks -> {"none", "accepted", "unclear", "failed"}],
         IsFiniteSet({b \in Blocks : told[b] # "none"}),
         NEW c \in Blocks, told[c] = "none",
         NEW verdict \in {"accepted", "unclear", "failed"},
         told' = [told EXCEPT ![c] = verdict]
  PROVE  /\ IsFiniteSet({b \in Blocks : told'[b] # "none"})
         /\ \A v \in {"accepted", "unclear", "failed"} :
              /\ Cardinality(Having(v)) \in Nat
              /\ Cardinality(Having(v)') = Cardinality(Having(v)) + (IF v = verdict THEN 1 ELSE 0)
  <1> DEFINE T == {b \in Blocks : told[b] # "none"}
  <1>1. {b \in Blocks : told'[b] # "none"} = T \cup {c}
    OBVIOUS
  <1>2. IsFiniteSet(T \cup {c})
    BY FS_AddElement
  <1>3. ASSUME NEW v \in {"accepted", "unclear", "failed"}
        PROVE  /\ Cardinality(Having(v)) \in Nat
               /\ Cardinality(Having(v)') =
                    Cardinality(Having(v)) + (IF v = verdict THEN 1 ELSE 0)
    <2>1. Having(v) \subseteq T /\ c \notin Having(v)
      BY DEF Having
    <2>2. IsFiniteSet(Having(v)) /\ Cardinality(Having(v)) \in Nat
      BY <2>1, FS_Subset, FS_CardinalityType
    <2>3. Having(v)' = IF v = verdict THEN Having(v) \cup {c} ELSE Having(v)
      BY DEF Having
    <2>4. Cardinality(Having(v) \cup {c}) = Cardinality(Having(v)) + 1
      BY <2>1, <2>2, FS_AddElement
    <2> QED
      BY <2>2, <2>3, <2>4
  <1> QED
    BY <1>1, <1>2, <1>3

\* The books add up after every step.
LEMMA BooksKept ==
  ASSUME TypeInv, OnItsWay, Verdicts, Books, [Next]_vars
  PROVE  Books'
  <1>0. /\ counts \in [submitted : Nat, accepted : Nat, rejected : Nat, blocks : Nat]
        /\ told \in [Blocks -> {"none", "accepted", "unclear", "failed"}]
    BY DEF TypeInv, TypeOK, BooksTypeOK
  <1>1. ASSUME UNCHANGED <<told, counts, accepted>>
        PROVE  Books'
    BY <1>1 DEF Books, Having
  <1>2. CASE Aside
    <2>1. /\ UNCHANGED <<told, accepted>>
          /\ \/ UNCHANGED counts
             \/ counts' = [submitted |-> counts.submitted + 1, accepted |-> counts.accepted + 1,
                           rejected |-> counts.rejected, blocks |-> counts.blocks]
      BY <1>2, AsideStep
    <2>2. \A v \in {"accepted", "unclear", "failed"} : Having(v)' = Having(v)
      BY <2>1 DEF Having
    <2>3. IsFiniteSet(Having("unclear")) /\ Cardinality(Having("unclear")) \in Nat
      <3>1. Having("unclear") \subseteq {b \in Blocks : told[b] # "none"}
        BY DEF Having
      <3> QED
        BY <3>1, FS_Subset, FS_CardinalityType DEF Books
    <2>4. CASE UNCHANGED counts
      BY <1>1, <2>1, <2>4
    <2>5. CASE counts' = [submitted |-> counts.submitted + 1, accepted |-> counts.accepted + 1,
                          rejected |-> counts.rejected, blocks |-> counts.blocks]
      <3>1. /\ counts'.submitted = counts.submitted + 1 /\ counts'.accepted = counts.accepted + 1
            /\ counts'.rejected = counts.rejected /\ counts'.blocks = counts.blocks
        BY <2>5
      <3>2. counts'.submitted = counts'.accepted + counts'.rejected + Cardinality(Having("unclear"))
        BY <1>0, <2>3, <3>1 DEF Books
      <3> QED
        BY <2>1, <2>2, <3>1, <3>2 DEF Books
    <2> QED
      BY <2>1, <2>4, <2>5
  <1>3. CASE SubmissionBranch
    BY <1>1, <1>3, BranchStep
  <1>4. CASE NodeTakes
    <2>1. /\ accepted' \in {accepted, accepted \cup {sub}}
          /\ UNCHANGED <<told, counts>>
      BY <1>4, NodeStep
    <2>2. IsFiniteSet(accepted')
      BY <2>1, FS_AddElement DEF Books
    <2> QED
      BY <2>1, <2>2 DEF Books, Having
  <1>5. CASE BlockFound
    BY <1>1, <1>5, FoundStep
  <1>6. CASE Cancel
    BY <1>1, <1>6, CancelStep
  <1>7. ASSUME NEW answer, Concluded(answer)
        PROVE  Books'
    <2>1. PICK verdict \in {"accepted", "unclear", "failed"} :
            /\ sub \in Blocks /\ told' = [told EXCEPT ![sub] = verdict]
            /\ counts' = [submitted |-> counts.submitted + 1,
                          accepted |-> counts.accepted + (IF verdict = "accepted" THEN 1 ELSE 0),
                          rejected |-> counts.rejected + (IF verdict = "failed" THEN 1 ELSE 0),
                          blocks |-> counts.blocks + (IF verdict = "accepted" THEN 1 ELSE 0)]
            /\ UNCHANGED accepted
      BY <1>7, ConcludedStep
    <2>2. told[sub] = "none"
      BY <2>1 DEF OnItsWay
    <2>3. /\ IsFiniteSet({b \in Blocks : told'[b] # "none"})
          /\ \A v \in {"accepted", "unclear", "failed"} :
               /\ Cardinality(Having(v)) \in Nat
               /\ Cardinality(Having(v)') = Cardinality(Having(v)) + (IF v = verdict THEN 1 ELSE 0)
      BY <1>0, <2>1, <2>2, OneMoreVerdict DEF Books
    <2> DEFINE card(v) == Cardinality(Having(v))
               now(v) == Cardinality(Having(v)')
    <2>4. /\ \A v \in {"accepted", "unclear", "failed"} :
               card(v) \in Nat /\ now(v) = card(v) + (IF v = verdict THEN 1 ELSE 0)
          /\ counts.submitted = counts.accepted + counts.rejected + card("unclear")
          /\ counts.blocks = card("accepted") /\ counts.rejected = card("failed")
      BY <2>3 DEF Books
    <2> HIDE DEF card, now
    <2>5. /\ counts'.submitted = counts'.accepted + counts'.rejected + now("unclear")
          /\ counts'.blocks = now("accepted") /\ counts'.rejected = now("failed")
      BY <1>0, <2>1, <2>4
    <2> USE DEF now
    <2>6. /\ Cardinality(Having("unclear")') = Cardinality(Having("unclear"))'
          /\ Cardinality(Having("accepted")') = Cardinality(Having("accepted"))'
          /\ Cardinality(Having("failed")') = Cardinality(Having("failed"))'
      OBVIOUS
    <2>7. /\ counts'.submitted = counts'.accepted + counts'.rejected + Cardinality(Having("unclear"))'
          /\ counts'.blocks = Cardinality(Having("accepted"))'
          /\ counts'.rejected = Cardinality(Having("failed"))'
      BY <2>5, <2>6
    <2> QED
      BY <2>1, <2>3, <2>7 DEF Books
  <1> QED
    BY <1>2, <1>3, <1>4, <1>5, <1>6, <1>7, Steps

-----------------------------------------------------------------------------
(* The invariant holds.                                                     *)

\* It holds at first.
LEMMA IndInit == Init => IndInv
  <1> SUFFICES ASSUME Init
               PROVE  IndInv
    OBVIOUS
  <1>1. TypeInv
    BY TypeInit
  <1>2. WorkOfLastTip
    BY DEF Init, WorkOfLastTip
  <1>3. OnItsWay
    <2>1. Len(queue) = 0 /\ sub \notin Blocks
      BY EmptySeq, NodeAssumption DEF Init
    <2> QED
      BY <2>1 DEF OnItsWay
  <1>4. Verdicts
    BY DEF Init, Verdicts
  <1>5. Books
    <2>1. {b \in Blocks : told[b] # "none"} = {} /\ accepted = {}
          /\ Having("unclear") = {} /\ Having("accepted") = {} /\ Having("failed") = {}
      BY DEF Init, Having
    <2>2. IsFiniteSet({}) /\ Cardinality({}) = 0
      BY FS_EmptySet
    <2>3. counts.submitted = 0 /\ counts.accepted = 0 /\ counts.rejected = 0 /\ counts.blocks = 0
      BY DEF Init
    <2> QED
      BY <2>1, <2>2, <2>3 DEF Books
  <1> QED
    BY <1>1, <1>2, <1>3, <1>4, <1>5 DEF IndInv

\* Every step keeps it.
LEMMA IndKept == IndInv /\ [Next]_vars => IndInv'
  BY TypesKept, WorkOfLastTipKept, OnItsWayKept, VerdictsKept, BooksKept DEF IndInv

\* The inductive invariant is one.
THEOREM Inductive == Spec => []IndInv
  BY IndInit, IndKept, PTL DEF Spec

\* Between two polls the devices and the registry are on the tip of the last one.
THEOREM FollowsPoll == Spec => []WorkFollowsPoll
  <1>1. ASSUME IndInv
        PROVE  WorkFollowsPoll
    <2>1. DOMAIN jobs = 1..Len(jobs)
      BY <1>1, LenProperties DEF IndInv, TypeInv, TypeOK, WorkTypeOK
    <2> QED
      BY <1>1, <2>1 DEF IndInv, WorkOfLastTip, WorkFollowsPoll
  <1> QED
    BY <1>1, Inductive, PTL

\* The counters add up, and no block is counted as found that the node does not
\* have.
THEOREM BooksAddUp == Spec => []BooksBalance
  <1>1. ASSUME IndInv
        PROVE  BooksBalance
    <2>1. Having("accepted") \subseteq accepted /\ IsFiniteSet(accepted)
      BY <1>1 DEF IndInv, Verdicts, Books, Having
    <2>2. Cardinality(Having("accepted")) <= Cardinality(accepted)
      BY <2>1, FS_Subset
    <2> QED
      BY <1>1, <2>2 DEF IndInv, Books, BooksBalance, Having
  <1> QED
    BY <1>1, Inductive, PTL

-----------------------------------------------------------------------------
(* The client implements BlockDelivery.                                     *)

\* What is in a queue has a place there.
LEMMA InQueue ==
  ASSUME NEW q \in Seq(Blocks), NEW b
  PROVE  Contains(q, b) <=> \E i \in 1..Len(q) : q[i] = b
  BY LenProperties DEF Contains

\* The fate of a block, place by place.
LEMMA FateOf ==
  ASSUME NEW b \in Blocks
  PROVE  /\ record[b] = "none" => Fate(b) = "unfound"
         /\ record[b] = "Stale" => Fate(b) = "dropped"
         /\ record[b] \notin {"none", "Stale"} /\ told[b] # "none" => Fate(b) = told[b]
         /\ record[b] \notin {"none", "Stale"} /\ told[b] = "none" =>
              /\ sub = b => Fate(b) = "offered"
              /\ sub # b /\ Contains(queue, b) => Fate(b) = "waiting"
              /\ sub # b /\ ~Contains(queue, b) => Fate(b) = "lost"
  BY DEF Fate

\* The same after a step.
LEMMA FateOfNext ==
  ASSUME NEW b \in Blocks
  PROVE  /\ record'[b] = "none" => Fate(b)' = "unfound"
         /\ record'[b] = "Stale" => Fate(b)' = "dropped"
         /\ record'[b] \notin {"none", "Stale"} /\ told'[b] # "none" => Fate(b)' = told'[b]
         /\ record'[b] \notin {"none", "Stale"} /\ told'[b] = "none" =>
              /\ sub' = b => Fate(b)' = "offered"
              /\ sub' # b /\ Contains(queue', b) => Fate(b)' = "waiting"
              /\ sub' # b /\ ~Contains(queue', b) => Fate(b)' = "lost"
  BY DEF Fate

\* A block whose record, verdict and place stay has the same fate.
LEMMA SameFate ==
  ASSUME NEW b \in Blocks, record'[b] = record[b], told'[b] = told[b],
         sub' = b <=> sub = b, Contains(queue', b) <=> Contains(queue, b)
  PROVE  Fate(b)' = Fate(b)
  BY DEF Fate

\* One block's fate changes and no other.
LEMMA OneMoves ==
  ASSUME NEW b \in Blocks, NEW from, NEW to,
         Fate(b) = from, Fate(b)' = to,
         \A c \in Blocks : c # b => Fate(c)' = Fate(c)
  PROVE  Delivery!Becomes(b, from, to)
  BY DEF Delivery!Becomes

\* A step of the client is a step of BlockDelivery, or changes nothing there.
LEMMA DeliveryStep ==
  ASSUME IndInv, [Next]_vars
  PROVE  [Delivery!Next]_<<[b \in Blocks |-> Fate(b)], accepted>>
  <1>0. /\ TypeInv /\ OnItsWay /\ Verdicts
        /\ queue \in Seq(Blocks) /\ Len(queue) \in Nat
        /\ queue' \in Seq(Blocks) /\ Len(queue') \in Nat
        /\ record \in [Blocks -> {"none", "Block", "Stale", "Rejected"}]
        /\ told \in [Blocks -> {"none", "accepted", "unclear", "failed"}]
        /\ sub \in Blocks \cup {NoBlock} /\ NoBlock \notin Blocks
    BY SubmitKept, LenProperties, NodeAssumption
    DEF IndInv, TypeInv, TypeOK, SubmitTypeOK, BooksTypeOK
  <1>1. \A b \in Blocks :
          /\ Contains(queue, b) <=> \E i \in 1..Len(queue) : queue[i] = b
          /\ Contains(queue', b) <=> \E i \in 1..Len(queue') : queue'[i] = b
    BY <1>0, InQueue
  <1>2. CASE Aside
    <2>1. UNCHANGED <<sub, queue, record, told, accepted>>
      BY <1>0, <1>2, AsideStep
    <2>2. \A b \in Blocks : Fate(b)' = Fate(b)
      BY <2>1, SameFate
    <2> QED
      BY <2>1, <2>2
  <1>3. CASE SubmissionBranch
    <2>1. /\ sub = NoBlock /\ sub' = queue[1] /\ sub' \in Blocks
          /\ Len(queue) \in Nat \ {0} /\ Len(queue') = Len(queue) - 1
          /\ \A i \in 1..Len(queue') : queue'[i] = queue[i + 1]
          /\ UNCHANGED <<record, told, accepted>>
      BY <1>0, <1>3, BranchStep
    <2>2. PICK b \in Blocks : b = sub' /\ b = queue[1]
      BY <2>1
    <2>3. Fate(b) = "waiting"
      <3>1. record[b] = "Block" /\ told[b] = "none" /\ sub # b /\ Contains(queue, b)
        BY <1>0, <1>1, <2>1, <2>2 DEF OnItsWay
      <3> QED
        BY <3>1, FateOf
    <2>4. Fate(b)' = "offered"
      <3>1. record'[b] = "Block" /\ told'[b] = "none" /\ sub' = b
        BY <1>0, <2>1, <2>2 DEF OnItsWay
      <3> QED
        BY <3>1, FateOfNext
    <2>5. ASSUME NEW c \in Blocks, c # b
          PROVE  Fate(c)' = Fate(c)
      <3>1. ASSUME NEW i \in 1..Len(queue), queue[i] = c
            PROVE  \E j \in 1..Len(queue') : queue'[j] = c
        <4>1. i # 1 /\ i - 1 \in 1..Len(queue') /\ (i - 1) + 1 = i
          BY <2>1, <2>2, <2>5, <3>1
        <4> QED
          BY <2>1, <3>1, <4>1
      <3>2. ASSUME NEW j \in 1..Len(queue'), queue'[j] = c
            PROVE  \E i \in 1..Len(queue) : queue[i] = c
        <4>1. j + 1 \in 1..Len(queue)
          BY <2>1
        <4> QED
          BY <2>1, <3>2, <4>1
      <3>3. Contains(queue', c) <=> Contains(queue, c)
        BY <1>1, <3>1, <3>2
      <3> QED
        BY <1>0, <2>1, <2>2, <2>5, <3>3, SameFate
    <2>6. \A c \in Blocks : Fate(c) # "offered"
      <3> SUFFICES ASSUME NEW c \in Blocks
                   PROVE  Fate(c) # "offered"
        OBVIOUS
      <3>1. sub # c
        BY <1>0, <2>1
      <3> QED
        BY <1>0, <3>1 DEF Fate
    <2>7. Delivery!Offer(b)
      BY <2>1, <2>3, <2>4, <2>5, <2>6, OneMoves DEF Delivery!Offer
    <2> QED
      BY <2>7 DEF Delivery!Next
  <1>4. CASE NodeTakes
    <2>1. /\ sub \in Blocks /\ accepted' \in {accepted, accepted \cup {sub}}
          /\ UNCHANGED <<sub, queue, record, told>>
      BY <1>0, <1>4, NodeStep
    <2>2. \A b \in Blocks : Fate(b)' = Fate(b)
      BY <2>1, SameFate
    <2>3. CASE accepted' = accepted
      BY <2>2, <2>3
    <2>4. CASE accepted' = accepted \cup {sub}
      <3>1. PICK b \in Blocks : b = sub
        BY <2>1
      <3>2. Fate(b) = "offered"
        BY <1>0, <3>1, FateOf DEF OnItsWay
      <3>3. Delivery!Take(b)
        BY <2>2, <2>4, <3>1, <3>2 DEF Delivery!Take
      <3> QED
        BY <3>3 DEF Delivery!Next
    <2> QED
      BY <2>1, <2>3, <2>4
  <1>5. CASE BlockFound
    <2>1. PICK b \in Blocks :
            /\ record[b] = "none"
            /\ \/ record' = [record EXCEPT ![b] = "Block"] /\ queue' = Append(queue, b)
               \/ record' = [record EXCEPT ![b] = "Stale"] /\ UNCHANGED queue
            /\ UNCHANGED <<sub, told, accepted>>
      BY <1>0, <1>5, FoundStep
    <2>2. Fate(b) = "unfound" /\ told[b] = "none" /\ sub # b
      BY <1>0, <2>1, FateOf DEF Verdicts, OnItsWay
    <2>3. CASE record' = [record EXCEPT ![b] = "Stale"] /\ UNCHANGED queue
      <3>1. Fate(b)' = "dropped"
        BY <1>0, <2>3, FateOfNext
      <3>2. \A c \in Blocks : c # b => Fate(c)' = Fate(c)
        BY <1>0, <2>1, <2>3, SameFate
      <3>3. Delivery!Found(b)
        BY <2>1, <2>2, <3>1, <3>2, OneMoves DEF Delivery!Found
      <3> QED
        BY <3>3 DEF Delivery!Next
    <2>4. CASE record' = [record EXCEPT ![b] = "Block"] /\ queue' = Append(queue, b)
      <3>1. /\ Len(queue') = Len(queue) + 1 /\ queue'[Len(queue) + 1] = b
            /\ \A i \in 1..Len(queue) : queue'[i] = queue[i]
        BY <1>0, <2>4, Appended
      <3>2. Contains(queue', b)
        BY <1>0, <1>1, <3>1
      <3>3. Fate(b)' = "waiting"
        BY <1>0, <2>1, <2>2, <2>4, <3>2, FateOfNext
      <3>4. ASSUME NEW c \in Blocks, c # b
            PROVE  Fate(c)' = Fate(c)
        <4>1. (\E i \in 1..Len(queue') : queue'[i] = c) <=> \E i \in 1..Len(queue) : queue[i] = c
          BY <1>0, <3>1, <3>4
        <4>2. record'[c] = record[c] /\ told'[c] = told[c] /\ sub' = sub
          BY <1>0, <2>1, <2>4, <3>4
        <4> QED
          BY <1>1, <4>1, <4>2, SameFate
      <3>5. Delivery!Found(b)
        BY <2>1, <2>2, <3>3, <3>4, OneMoves DEF Delivery!Found
      <3> QED
        BY <3>5 DEF Delivery!Next
    <2> QED
      BY <2>1, <2>3, <2>4
  <1>6. CASE Cancel
    <2>1. /\ queue' = <<>> /\ sub' = NoBlock /\ UNCHANGED <<record, told, accepted>>
      BY <1>6, CancelStep
    <2>2. \A b \in Blocks : ~Contains(queue', b) /\ sub' # b
      BY <1>0, <1>1, <2>1, EmptySeq
    <2>3. \A b \in Blocks : Fate(b)' = IF Fate(b) \in {"waiting", "offered"} THEN "lost" ELSE Fate(b)
      <3> SUFFICES ASSUME NEW b \in Blocks
                   PROVE  Fate(b)' = IF Fate(b) \in {"waiting", "offered"} THEN "lost" ELSE Fate(b)
        OBVIOUS
      <3>1. /\ record'[b] = record[b] /\ told'[b] = told[b]
            /\ told[b] \in {"none", "accepted", "unclear", "failed"}
        BY <1>0, <2>1
      <3>2. ~Contains(queue', b) /\ sub' # b
        BY <2>2
      <3> QED
        BY <3>1, <3>2, FateOf, FateOfNext
    <2>4. Delivery!Stop
      BY <2>1, <2>3 DEF Delivery!Stop
    <2> QED
      BY <2>4 DEF Delivery!Next
  <1>7. ASSUME NEW answer, Concluded(answer), answer \in {call, "error"}
        PROVE  [Delivery!Next]_<<[b \in Blocks |-> Fate(b)], accepted>>
    <2>1. PICK verdict \in {"accepted", "unclear", "failed"} :
            /\ verdict = "accepted" => answer = "null"
            /\ sub \in Blocks /\ sub' = NoBlock
            /\ told' = [told EXCEPT ![sub] = verdict]
            /\ record' = IF verdict = "failed" THEN [record EXCEPT ![sub] = "Rejected"] ELSE record
            /\ UNCHANGED <<queue, accepted>>
      BY <1>0, <1>7, ConcludedStep
    <2>2. PICK b \in Blocks : b = sub
      BY <2>1
    <2>3. Fate(b) = "offered" /\ record[b] = "Block"
      BY <1>0, <2>2, FateOf DEF OnItsWay
    <2>4. Fate(b)' = verdict
      <3>1. told'[b] = verdict /\ record'[b] \in {"Block", "Rejected"}
        BY <1>0, <2>1, <2>2, <2>3
      <3> QED
        BY <3>1, FateOfNext
    <2>5. ASSUME NEW c \in Blocks, c # b
          PROVE  Fate(c)' = Fate(c)
      <3>1. record'[c] = record[c] /\ told'[c] = told[c] /\ sub' # c /\ sub # c /\ UNCHANGED queue
        BY <1>0, <2>1, <2>2, <2>5
      <3> QED
        BY <3>1, SameFate
    <2>6. verdict = "accepted" => b \in accepted
      BY <1>0, <1>7, <2>1, <2>2 DEF Verdicts
    <2>7. Delivery!Becomes(b, "offered", verdict)
      BY <2>3, <2>4, <2>5, OneMoves
    <2>8. Delivery!Tell(b)
      BY <2>1, <2>6, <2>7 DEF Delivery!Tell, Delivery!Told
    <2> QED
      BY <2>8 DEF Delivery!Next
  <1> QED
    BY <1>0, <1>2, <1>3, <1>4, <1>5, <1>6, <1>7, Steps

\* The client starts where BlockDelivery does.
LEMMA DeliveryInit == Init => Delivery!Init
  <1> SUFFICES ASSUME Init
               PROVE  Delivery!Init
    OBVIOUS
  <1>1. \A b \in Blocks : Fate(b) = "unfound"
    BY FateOf DEF Init
  <1> QED
    BY <1>1 DEF Init, Delivery!Init

\* A block goes the way of BlockDelivery: offered one at a time, told one verdict
\* that stands, counted as accepted only when the node took it, lost only at the
\* end of the run.
THEOREM Implements == Spec => RefinesDelivery
  BY Inductive, DeliveryInit, DeliveryStep, PTL DEF Spec, RefinesDelivery, Delivery!Spec
=============================================================================
