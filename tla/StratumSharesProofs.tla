------------------------- MODULE StratumSharesProofs --------------------------
(***************************************************************************)
(* What TLAPS proves of StratumShares: no share is lost, counted twice or  *)
(* shown with another verdict than its own, whatever the sizes of the      *)
(* registry and of the list, and however many works, shares and            *)
(* connections there are.                                                  *)
(***************************************************************************)
EXTENDS StratumShares, SequenceTheorems, FiniteSetTheorems, TLAPS

-----------------------------------------------------------------------------
(* The inductive invariant.                                                 *)

\* What the second steps of the network task and of the found thread hold.
ArgTypes ==
    /\ netpc = "publish" => netarg \in [work : Work, clean : BOOLEAN, step : {"first", "second"}]
    /\ netpc = "count" => netarg \in [share : Shares, result : Verdicts]
    /\ fpc # "idle" => farg \in [share : Shares, work : Work]

\* Every solution that waits can still have a number, a connection is numbered
\* by the count of connections, and the list of ids is as long as the records.
Numbers ==
    /\ nextShare + Len(found) <= MaxShares + 1
    /\ session \in {0, sessions}
    /\ Len(recent) = Len(recentIds)

TypeInv == TypeOK /\ ArgTypes /\ Numbers

\* A work about to be shown to the devices is registered, or was.
WorksKnown ==
    /\ NoUnknownWork
    /\ netpc = "publish" /\ netarg.step = "second" => netarg.work \in ToSet(jobs) \cup retired

\* Without a connection nothing is under way on one.
ConnectionOnly ==
    /\ OwnSessionOnly
    /\ session = 0 => pending = {} /\ out = {} /\ wire = {}

\* Numbers of requests are fresh within a connection.
Requests ==
    /\ AnswersFindTheirShare
    /\ \A p \in pending : p.req < nextReq
    /\ \A m \in out \cup wire : m.req < nextReq

\* A share that somebody holds has its number and no verdict yet; the one whose
\* verdict is being counted has just that verdict.
Held ==
    /\ \A j \in 1..Len(subs) : subs[j].share < nextShare /\ verdict[subs[j].share] = "none"
    /\ \A p \in pending : p.share < nextShare /\ verdict[p.share] = "none"
    /\ fpc # "idle" => farg.share < nextShare /\ verdict[farg.share] = "none"
    /\ netpc = "count" => netarg.share < nextShare /\ verdict[netarg.share] = netarg.result
    /\ \A s \in Shares : s >= nextShare => verdict[s] = "none"

\* A share is in one place at a time.
OnePlace ==
    /\ \A j, k \in 1..Len(subs) : subs[j].share = subs[k].share => j = k
    /\ \A p, q \in pending : p.share = q.share => p = q
    /\ \A j \in 1..Len(subs), p \in pending : subs[j].share # p.share
    /\ fpc # "idle" =>
        /\ \A j \in 1..Len(subs) : subs[j].share # farg.share
        /\ \A p \in pending : p.share # farg.share

\* Only shares that were recorded are listed.
Listed ==
    \A i \in 1..Len(recent) :
        /\ recent[i].share < nextShare
        /\ fpc \in {"first", "unknown"} => recent[i].share # farg.share

\* The shares that the counter of verdict v stands for.
Tally(v) == {s \in Shares : verdict[s] = v /\ ~(netpc = "count" /\ netarg.share = s)}

Counters ==
    /\ \A v \in Verdicts : counts[v] = Cardinality(Tally(v))
    /\ \A s \in Shares :
        decided[s] = IF verdict[s] = "none" \/ (netpc = "count" /\ netarg.share = s) THEN 0 ELSE 1

IndInv ==
    /\ TypeInv /\ WorksKnown /\ ConnectionOnly /\ Requests
    /\ Held /\ OnePlace /\ Listed /\ VerdictShown /\ PendingIsSomewhere /\ Counters
-----------------------------------------------------------------------------
(* The operators on sequences.                                              *)

\* Appending an element to a queue.
LEMMA Appended ==
  ASSUME NEW S, NEW q \in Seq(S), NEW x \in S
  PROVE  /\ Append(q, x) \in Seq(S)
         /\ Len(q) \in Nat /\ Len(Append(q, x)) = Len(q) + 1
         /\ \A i \in 1..Len(q) : Append(q, x)[i] = q[i]
         /\ Append(q, x)[Len(q) + 1] = x
         /\ ToSet(Append(q, x)) = ToSet(q) \cup {x}
  <1>1. /\ Append(q, x) \in Seq(S) /\ Len(Append(q, x)) = Len(q) + 1
        /\ \A i \in 1..Len(q) : Append(q, x)[i] = q[i]
        /\ Append(q, x)[Len(q) + 1] = x
    BY AppendProperties
  <1>2. /\ Len(q) \in Nat /\ DOMAIN q = 1..Len(q)
        /\ DOMAIN Append(q, x) = 1..(Len(q) + 1)
    BY <1>1, LenProperties
  <1> QED
    BY <1>1, <1>2 DEF ToSet

\* Taking the first element from a queue.
LEMMA Taken ==
  ASSUME NEW S, NEW q \in Seq(S), q # <<>>
  PROVE  /\ Head(q) \in S /\ Head(q) = q[1]
         /\ Tail(q) \in Seq(S)
         /\ Len(q) \in Nat \ {0} /\ Len(Tail(q)) = Len(q) - 1
         /\ \A i \in 1..Len(Tail(q)) : Tail(q)[i] = q[i + 1]
         /\ Head(q) \in ToSet(q) /\ ToSet(Tail(q)) \subseteq ToSet(q)
  <1>1. /\ Head(q) \in S /\ Tail(q) \in Seq(S) /\ Len(Tail(q)) = Len(q) - 1
        /\ \A i \in 1..Len(Tail(q)) : Tail(q)[i] = q[i + 1]
    BY HeadTailProperties
  <1>2. Len(q) \in Nat \ {0} /\ Head(q) = q[1]
    BY EmptySeq
  <1>3. DOMAIN q = 1..Len(q) /\ DOMAIN Tail(q) = 1..Len(Tail(q))
    BY <1>1, LenProperties
  <1> QED
    BY <1>1, <1>2, <1>3 DEF ToSet

\* How far the list moves when a record is pushed.
Shift(q) == IF Len(q) < RecentShares THEN 0 ELSE 1

\* push_share keeps the list within its bound and only drops the oldest record.
LEMMA PushedList ==
  ASSUME NEW S, NEW q \in Seq(S), NEW x \in S, Len(q) <= RecentShares
  PROVE  /\ Pushed(q, x) \in Seq(S)
         /\ Len(q) \in Nat /\ Shift(q) \in {0, 1}
         /\ Len(Pushed(q, x)) = Len(q) + 1 - Shift(q)
         /\ Len(Pushed(q, x)) <= RecentShares
         /\ \A i \in 1..(Len(q) - Shift(q)) : Pushed(q, x)[i] = q[i + Shift(q)]
         /\ Pushed(q, x)[Len(q) + 1 - Shift(q)] = x
  <1>0. Len(q) \in Nat
    BY LenProperties
  <1>1. CASE Len(q) < RecentShares
    BY <1>0, <1>1, Appended, BoundsAssumption DEF Pushed, Shift
  <1>2. CASE Len(q) = RecentShares
    <2>1. q # <<>> /\ Shift(q) = 1 /\ Pushed(q, x) = Append(Tail(q), x)
      BY <1>0, <1>2, EmptySeq, BoundsAssumption DEF Pushed, Shift
    <2>2. /\ Tail(q) \in Seq(S) /\ Len(Tail(q)) = Len(q) - 1
          /\ \A i \in 1..Len(Tail(q)) : Tail(q)[i] = q[i + 1]
      BY <2>1, Taken
    <2>3. /\ Append(Tail(q), x) \in Seq(S) /\ Len(Append(Tail(q), x)) = Len(q)
          /\ \A i \in 1..(Len(q) - 1) : Append(Tail(q), x)[i] = Tail(q)[i]
          /\ Append(Tail(q), x)[Len(q)] = x
      BY <1>0, <2>2, Appended
    <2> QED
      BY <1>0, <1>2, <2>1, <2>2, <2>3
  <1> QED
    BY <1>0, <1>1, <1>2, BoundsAssumption

\* The registry has room for one more work, and Kept invents none.
LEMMA KeptRegistry ==
  ASSUME jobs \in Seq(Work), Len(jobs) <= RecentJobs, NEW clean \in BOOLEAN
  PROVE  Kept(clean) \in Seq(Work) /\ Len(Kept(clean)) < RecentJobs
  <1> DEFINE q == IF clean THEN <<>> ELSE jobs
  <1>1. q \in Seq(Work) /\ Len(q) \in Nat /\ Len(q) <= RecentJobs
    BY EmptySeq, LenProperties, BoundsAssumption
  <1>2. Kept(clean) = IF Len(q) < RecentJobs THEN q
                      ELSE SubSeq(q, Len(q) - RecentJobs + 2, Len(q))
    BY DEF Kept
  <1>3. CASE Len(q) < RecentJobs
    BY <1>1, <1>2, <1>3
  <1>4. CASE Len(q) = RecentJobs
    <2>1. \A i \in 2..Len(q) : q[i] \in Work
      BY <1>1, ElementOfSeq
    <2>2. /\ SubSeq(q, 2, Len(q)) \in Seq(Work)
          /\ Len(SubSeq(q, 2, Len(q))) = IF 2 <= Len(q) THEN Len(q) - 2 + 1 ELSE 0
      BY <1>1, <2>1, SubSeqProperties
    <2>3. Kept(clean) = SubSeq(q, 2, Len(q))
      BY <1>1, <1>2, <1>4, BoundsAssumption
    <2> QED
      BY <1>1, <1>4, <2>2, <2>3, BoundsAssumption
  <1> QED
    BY <1>1, <1>3, <1>4, BoundsAssumption

\* share_result touches no record but the share's, and never a block's.
LEMMA ResultingList ==
  ASSUME recent \in Seq([share : Shares, result : Results]),
         NEW s \in Shares, NEW v \in Verdicts
  PROVE  /\ Resulting(s, v) \in Seq([share : Shares, result : Results])
         /\ Len(Resulting(s, v)) = Len(recent)
         /\ \A i \in 1..Len(recent) :
              /\ Resulting(s, v)[i].share = recent[i].share
              /\ Resulting(s, v)[i].result =
                   IF recentIds[i] = s /\ recent[i].result # "Block" THEN v ELSE recent[i].result
  <1> DEFINE R == [share : Shares, result : Results]
             f == Resulting(s, v)
             n == Len(recent)
  <1>1. n \in Nat /\ \A i \in 1..n : recent[i] \in R
    BY LenProperties, ElementOfSeq
  <1>2. \A i \in 1..n : [recent[i] EXCEPT !.result = v] \in R
    BY <1>1 DEF Results
  <1>3. f = [i \in 1..n |-> IF recentIds[i] = s /\ recent[i].result # "Block"
                            THEN [recent[i] EXCEPT !.result = v] ELSE recent[i]]
    BY DEF Resulting
  <1>4. f \in [1..n -> R]
    BY <1>1, <1>2, <1>3
  <1>5. f \in Seq(R)
    BY <1>1, <1>4, SeqDef
  <1>6. Len(f) = n
    <2>1. DOMAIN f = 1..Len(f) /\ DOMAIN f = 1..n /\ Len(f) \in Nat
      BY <1>4, <1>5, LenProperties
    <2> QED
      BY <1>1, <2>1
  <1> QED
    BY <1>1, <1>3, <1>5, <1>6


-----------------------------------------------------------------------------
(* Type correctness.                                                        *)

Message == Subscribed \/ Notify \/ SetDifficulty \/ SetExtranonce

\* What every message of the pool does to the task's state.
LEMMA MessageStep ==
  ASSUME TypeInv, Message
  PROVE  /\ MessageRead
         /\ e1' \in BOOLEAN /\ notify' \in BOOLEAN
         /\ nextWork' \in 1..(MaxWorks + 1)
         /\ \/ UNCHANGED <<netpc, netarg>>
            \/ /\ netpc' = "publish"
               /\ netarg' \in [work : Work, clean : BOOLEAN, step : {"first"}]
  <1>0. MessageRead
    BY DEF Message, Subscribed, Notify, SetDifficulty, SetExtranonce
  <1>1. MessageRead /\ session \in Sessions
    BY <1>0, BoundsAssumption DEF MessageRead, TypeInv, TypeOK, TaskTypeOK, Sessions
  <1>2. PICK clean \in BOOLEAN : e1' \in BOOLEAN /\ notify' \in BOOLEAN /\ Build(clean)
    BY DEF Message, Subscribed, Notify, SetDifficulty, SetExtranonce,
           TypeInv, TypeOK, TaskTypeOK
  <1>3. CASE e1' /\ notify'
    <2>1. nextWork \in 1..MaxWorks /\ nextWork' = nextWork + 1
      BY <1>2, <1>3, BoundsAssumption DEF Build, TypeInv, TypeOK, TaskTypeOK
    <2>2. [id |-> nextWork, session |-> session] \in Work
      BY <1>1, <2>1 DEF Work
    <2> QED
      BY <1>1, <1>2, <1>3, <2>1, <2>2, BoundsAssumption DEF Build
  <1>4. CASE ~(e1' /\ notify')
    BY <1>1, <1>2, <1>4 DEF Build, TypeInv, TypeOK, TaskTypeOK
  <1> QED
    BY <1>3, <1>4

\* A connection not yet made, nothing found.
LEMMA TypeInit == Init => TypeInv
  <1> SUFFICES ASSUME Init
               PROVE  TypeInv
    OBVIOUS
  <1>1. /\ jobs \in Seq(Work) /\ found \in Seq(Work)
        /\ subs \in Seq([share : Shares, work : Work])
        /\ recent \in Seq([share : Shares, result : Results]) /\ recentIds \in Seq(Shares)
        /\ Len(jobs) = 0 /\ Len(recent) = 0 /\ Len(found) = 0
    BY EmptySeq DEF Init
  <1>2. TaskTypeOK /\ RequestsTypeOK
    <2>1. e1 \in BOOLEAN /\ notify \in BOOLEAN
      BY DEF Init
    <2> QED
      BY <2>1, BoundsAssumption DEF Init, TaskTypeOK, RequestsTypeOK
  <1>3. WorksTypeOK /\ QueuesTypeOK
    BY <1>1, BoundsAssumption DEF Init, WorksTypeOK, QueuesTypeOK
  <1>4. RecordsTypeOK
    BY <1>1, BoundsAssumption DEF Init, RecordsTypeOK
  <1>5. ArgTypes /\ Numbers
    BY <1>1, BoundsAssumption DEF Init, ArgTypes, Numbers
  <1> QED
    BY <1>2, <1>3, <1>4, <1>5 DEF TypeInv, TypeOK

\* The steps of the network task that only read, connect or lose.
LEMMA TaskKeepsTypes ==
  ASSUME TypeInv, Connect \/ Message \/ Lost \/ ClearCell \/ Flush
  PROVE  TypeInv'
  <1> USE DEF TypeInv, TypeOK
  <1>1. CASE Connect
    <2>1. e1' \in BOOLEAN /\ notify' \in BOOLEAN
      BY <1>1 DEF Connect
    <2>2. TaskTypeOK' /\ ArgTypes' /\ Numbers'
      BY <1>1, <2>1, BoundsAssumption DEF Connect, TaskTypeOK, ArgTypes, Numbers, foundVars, recordVars
    <2>3. RequestsTypeOK'
      BY <1>1 DEF Connect, RequestsTypeOK
    <2>4. WorksTypeOK' /\ QueuesTypeOK' /\ RecordsTypeOK'
      BY <1>1 DEF Connect, WorksTypeOK, QueuesTypeOK, RecordsTypeOK,
                  foundVars, recordVars, history
    <2> QED
      BY <2>2, <2>3, <2>4
  <1>2. CASE Message
    <2>1. TaskTypeOK' /\ ArgTypes' /\ Numbers'
      BY <1>2, MessageStep DEF MessageRead, TaskTypeOK, ArgTypes, Numbers, foundVars, recordVars
    <2>2. RequestsTypeOK' /\ WorksTypeOK' /\ QueuesTypeOK' /\ RecordsTypeOK'
      BY <1>2, MessageStep DEF MessageRead, RequestsTypeOK, WorksTypeOK, QueuesTypeOK,
                               RecordsTypeOK, foundVars, recordVars, history
    <2> QED
      BY <2>1, <2>2
  <1>3. CASE Lost
    <2>1. WorksTypeOK'
      <3>1. ToSet(jobs) \subseteq Work
        BY LenProperties, ElementOfSeq DEF WorksTypeOK, ToSet
      <3>2. jobs' \in Seq(Work) /\ Len(jobs') <= RecentJobs
        BY <1>3, EmptySeq, BoundsAssumption DEF Lost
      <3> QED
        BY <1>3, <3>1, <3>2 DEF Lost, WorksTypeOK
    <2>2. RecordsTypeOK'
      <3>1. {p.share : p \in pending} \subseteq Shares
        BY DEF RequestsTypeOK
      <3> QED
        BY <1>3, <3>1 DEF Lost, RecordsTypeOK, recordVars
    <2>3. TaskTypeOK' /\ ArgTypes' /\ Numbers'
      <3>1. e1' \in BOOLEAN /\ notify' \in BOOLEAN
        BY <1>3 DEF Lost
      <3> QED
        BY <1>3, <3>1, BoundsAssumption DEF Lost, TaskTypeOK, ArgTypes, Numbers, foundVars, recordVars
    <2>4. RequestsTypeOK' /\ QueuesTypeOK'
      BY <1>3 DEF Lost, PendingAfterLoss, QueueAfterLoss, RequestsTypeOK, QueuesTypeOK, foundVars
    <2> QED
      BY <2>1, <2>2, <2>3, <2>4
  <1>4. CASE ClearCell
    BY <1>4 DEF ClearCell, TaskTypeOK, RequestsTypeOK, WorksTypeOK, QueuesTypeOK, RecordsTypeOK,
                ArgTypes, Numbers, foundVars, recordVars, history
  <1>5. CASE Flush
    <2>1. RequestsTypeOK'
      BY <1>5 DEF Flush, RequestsTypeOK
    <2>2. TaskTypeOK' /\ WorksTypeOK' /\ QueuesTypeOK' /\ RecordsTypeOK' /\ ArgTypes' /\ Numbers'
      BY <1>5 DEF Flush, TaskTypeOK, WorksTypeOK, QueuesTypeOK, RecordsTypeOK,
                  ArgTypes, Numbers, foundVars, recordVars, history
    <2> QED
      BY <2>1, <2>2
  <1> QED
    BY <1>1, <1>2, <1>3, <1>4, <1>5

\* Publishing: the registry stays within its bound.
LEMMA PublishKeepsTypes ==
  ASSUME TypeInv, Publish
  PROVE  TypeInv'
  <1> USE DEF TypeInv, TypeOK
  <1>1. netarg \in [work : Work, clean : BOOLEAN, step : {"first", "second"}]
    BY DEF Publish, ArgTypes
  <1>2. TaskTypeOK' /\ ArgTypes' /\ Numbers'
    <2>1. netpc' = "publish" => netarg' \in [work : Work, clean : BOOLEAN, step : {"first", "second"}]
      BY <1>1 DEF Publish
    <2>2. netpc' \in {"idle", "publish"}
      BY DEF Publish
    <2> QED
      BY <2>1, <2>2 DEF Publish, TaskTypeOK, ArgTypes, Numbers, foundVars, recordVars
  <1>3. RequestsTypeOK' /\ QueuesTypeOK' /\ RecordsTypeOK'
    BY DEF Publish, RequestsTypeOK, QueuesTypeOK, RecordsTypeOK, foundVars, recordVars
  <1>4. WorksTypeOK'
    <2>1. CASE netarg.step = "first"
      <3>1. Kept(netarg.clean) \in Seq(Work) /\ Len(Kept(netarg.clean)) < RecentJobs
        BY <1>1, KeptRegistry DEF WorksTypeOK
      <3>2. jobs' = Append(Kept(netarg.clean), netarg.work)
        BY <2>1 DEF Publish, RegistersAt
      <3>3. jobs' \in Seq(Work) /\ Len(jobs') <= RecentJobs
        BY <1>1, <3>1, <3>2, Appended, BoundsAssumption
      <3>4. ToSet(jobs) \subseteq Work
        BY LenProperties, ElementOfSeq DEF WorksTypeOK, ToSet
      <3>5. retired' \subseteq Work /\ UNCHANGED <<cell, dev>>
        BY <2>1, <3>4 DEF Publish, RegistersAt, WorksTypeOK
      <3> QED
        BY <3>3, <3>5 DEF WorksTypeOK
    <2>2. CASE netarg.step # "first"
      <3>1. cell' = netarg.work /\ UNCHANGED <<jobs, retired, dev>>
        BY <2>2 DEF Publish, RegistersAt
      <3> QED
        BY <1>1, <3>1 DEF WorksTypeOK
    <2> QED
      BY <2>1, <2>2
  <1> QED
    BY <1>2, <1>3, <1>4

\* What a verdict changes, and that it has its type.
LEMMA DecideTypes ==
  ASSUME TypeInv, NEW s \in Shares, NEW v \in Verdicts, Decide(s, v)
  PROVE  /\ RecordsTypeOK'
         /\ Len(recent') = Len(recentIds')
         /\ netpc' = "count"
         /\ netarg' \in [share : Shares, result : Verdicts]
  <1>1. recent \in Seq([share : Shares, result : Results])
    BY DEF TypeInv, TypeOK, RecordsTypeOK
  <1>2. recent' \in Seq([share : Shares, result : Results]) /\ Len(recent') = Len(recent)
    BY <1>1, ResultingList DEF Decide
  <1> QED
    BY <1>2 DEF Decide, TypeInv, TypeOK, RecordsTypeOK, Numbers

\* A share handed to Session::submit.
LEMMA SubmitKeepsTypes ==
  ASSUME TypeInv, Submit
  PROVE  TypeInv'
  <1> USE DEF TypeInv, TypeOK
  <1>1. /\ Head(subs) \in [share : Shares, work : Work]
        /\ subs' \in Seq([share : Shares, work : Work])
    BY Taken DEF Submit, QueuesTypeOK
  <1>2. WorksTypeOK' /\ QueuesTypeOK'
    BY <1>1 DEF Submit, WorksTypeOK, QueuesTypeOK, foundVars, history, Decide
  <1>3. CASE MaySubmit(Head(subs).work)
    <2>1. RequestsTypeOK'
      BY <1>1, <1>3 DEF Submit, RequestsTypeOK
    <2>2. counts' = [counts EXCEPT !["submitted"] = @ + 1]
      BY <1>3 DEF Submit
    <2>3. RecordsTypeOK'
      BY <1>3, <2>2 DEF Submit, RecordsTypeOK, history
    <2>4. TaskTypeOK' /\ ArgTypes' /\ Numbers'
      BY <1>3 DEF Submit, TaskTypeOK, ArgTypes, Numbers, foundVars
    <2> QED
      BY <1>2, <2>1, <2>3, <2>4
  <1>4. CASE ~MaySubmit(Head(subs).work)
    <2>1. Decide(Head(subs).share, "Stale") /\ UNCHANGED <<pending, out, nextReq>>
      BY <1>4 DEF Submit
    <2>2. /\ RecordsTypeOK' /\ Len(recent') = Len(recentIds')
          /\ netpc' = "count" /\ netarg' \in [share : Shares, result : Verdicts]
      BY <1>1, <2>1, DecideTypes DEF Verdicts
    <2>3. TaskTypeOK' /\ ArgTypes' /\ Numbers' /\ RequestsTypeOK'
      BY <2>1, <2>2 DEF Submit, TaskTypeOK, ArgTypes, Numbers, RequestsTypeOK, foundVars
    <2> QED
      BY <1>2, <2>2, <2>3
  <1> QED
    BY <1>3, <1>4

\* The pool's answer to a pending request.
LEMMA AnswerKeepsTypes ==
  ASSUME TypeInv, Answer
  PROVE  TypeInv'
  <1> USE DEF TypeInv, TypeOK
  <1>1. PICK p \in pending, v \in Verdicts : pending' = Answered(p) /\ Decide(p.share, v)
    BY DEF Answer
  <1>2. p.share \in Shares
    BY DEF RequestsTypeOK
  <1>3. /\ RecordsTypeOK' /\ Len(recent') = Len(recentIds')
        /\ netpc' = "count" /\ netarg' \in [share : Shares, result : Verdicts]
    BY <1>1, <1>2, DecideTypes
  <1>4. TaskTypeOK' /\ ArgTypes' /\ Numbers'
    BY <1>3 DEF Answer, TaskTypeOK, ArgTypes, Numbers, foundVars
  <1>5. RequestsTypeOK'
    BY <1>1 DEF Answer, Answered, RequestsTypeOK
  <1>6. WorksTypeOK' /\ QueuesTypeOK'
    BY <1>1 DEF Answer, Decide, WorksTypeOK, QueuesTypeOK, foundVars
  <1> QED
    BY <1>3, <1>4, <1>5, <1>6

\* The counters of a verdict.
LEMMA CountKeepsTypes ==
  ASSUME TypeInv, Count
  PROVE  TypeInv'
  <1> USE DEF TypeInv, TypeOK
  <1>1. netarg.share \in Shares /\ netarg.result \in Verdicts
    BY DEF Count, ArgTypes
  <1>2. counts' \in [{"submitted", "Accepted", "Stale", "Rejected", "blocks"} -> Nat]
    BY DEF Count, RecordsTypeOK
  <1>3. decided' \in [Shares -> Nat]
    <2>1. decided' = [decided EXCEPT ![netarg.share] = @ + 1]
      BY DEF Count
    <2> QED
      BY <1>1, <2>1 DEF RecordsTypeOK
  <1>4. RecordsTypeOK'
    BY <1>2, <1>3 DEF Count, RecordsTypeOK
  <1>5. TaskTypeOK' /\ ArgTypes' /\ Numbers'
    BY DEF Count, TaskTypeOK, ArgTypes, Numbers, foundVars, recordVars
  <1>6. RequestsTypeOK' /\ WorksTypeOK' /\ QueuesTypeOK'
    BY DEF Count, RequestsTypeOK, WorksTypeOK, QueuesTypeOK, foundVars
  <1> QED
    BY <1>4, <1>5, <1>6

\* A solution in the hands of the found thread, and the next one.
LEMMA FoundKeepsTypes ==
  ASSUME TypeInv, TakeFound \/ Discard
  PROVE  TypeInv'
  <1> USE DEF TypeInv, TypeOK
  <1>1. TaskTypeOK' /\ RequestsTypeOK' /\ WorksTypeOK' /\ RecordsTypeOK'
    BY DEF TakeFound, Discard, TaskTypeOK, RequestsTypeOK, WorksTypeOK, RecordsTypeOK,
           netVars, recordVars, history
  <1>2. CASE TakeFound
    <2>1. /\ Head(found) \in Work /\ found' \in Seq(Work)
          /\ Len(found) \in Nat \ {0} /\ Len(found') = Len(found) - 1
      BY <1>2, Taken DEF TakeFound, QueuesTypeOK
    <2>2. nextShare \in Shares /\ nextShare' = nextShare + 1
      BY <1>2, <2>1, BoundsAssumption DEF TakeFound, QueuesTypeOK, Numbers, Shares
    <2>3. nextShare' \in 1..(MaxShares + 1) /\ nextShare' + Len(found') <= MaxShares + 1
      BY <2>1, <2>2, BoundsAssumption DEF Numbers, Shares
    <2>4. farg' \in [share : Shares, work : Work]
      BY <1>2, <2>1, <2>2 DEF TakeFound
    <2>5. fpc' \in {"idle", "first", "second", "unknown"} 
          /\ UNCHANGED <<netVars, recordVars, subs>>
      BY <1>2 DEF TakeFound
    <2> QED
      BY <1>1, <2>1, <2>3, <2>4, <2>5
      DEF QueuesTypeOK, ArgTypes, Numbers, netVars, recordVars
  <1>3. CASE Discard
    BY <1>1, <1>3 DEF Discard, QueuesTypeOK, ArgTypes, Numbers, netVars, recordVars
  <1> QED
    BY <1>2, <1>3

\* push_share keeps both lists, in step.
LEMMA PushTypes ==
  ASSUME TypeInv, NEW s \in Shares, NEW r \in Results, PushShare(s, r)
  PROVE  /\ recent' \in Seq([share : Shares, result : Results])
         /\ recentIds' \in Seq(Shares)
         /\ Len(recent') <= RecentShares /\ Len(recent') = Len(recentIds')
  <1> DEFINE R == [share : Shares, result : Results]
             x == [share |-> s, result |-> r]
  <1>0. recent' = Pushed(recent, x) /\ recentIds' = Pushed(recentIds, s)
    BY DEF PushShare
  <1>1. x \in R
    OBVIOUS
  <1>2. /\ recent \in Seq(R) /\ recentIds \in Seq(Shares)
        /\ Len(recent) <= RecentShares /\ Len(recentIds) = Len(recent)
    BY DEF TypeInv, TypeOK, RecordsTypeOK, Numbers
  <1> HIDE DEF R, x
  <1>3. /\ recent' \in Seq(R)
        /\ Len(recent') <= RecentShares
        /\ Len(recent') = Len(recent) + 1 - Shift(recent)
    BY <1>0, <1>1, <1>2, PushedList
  <1>4. recentIds' \in Seq(Shares) /\ Len(recentIds') = Len(recentIds) + 1 - Shift(recentIds)
    BY <1>0, <1>2, PushedList
  <1>5. Shift(recent) = Shift(recentIds)
    BY <1>2 DEF Shift
  <1> QED
    BY <1>2, <1>3, <1>4, <1>5 DEF R

\* A solution of an unknown work is recorded and counted at once.
LEMMA UnknownKeepsTypes ==
  ASSUME TypeInv, RecordUnknown
  PROVE  TypeInv'
  <1> USE DEF TypeInv, TypeOK
  <1>1. farg.share \in Shares
    BY DEF RecordUnknown, ArgTypes
  <1>2. /\ recent' \in Seq([share : Shares, result : Results])
        /\ recentIds' \in Seq(Shares)
        /\ Len(recent') <= RecentShares /\ Len(recent') = Len(recentIds')
    BY <1>1, PushTypes DEF RecordUnknown, Results, Verdicts
  <1>3. counts' = [counts EXCEPT !["Stale"] = @ + 1]
    BY DEF RecordUnknown
  <1>4. RecordsTypeOK'
    <2>1. counts' \in [{"submitted", "Accepted", "Stale", "Rejected", "blocks"} -> Nat]
      BY <1>3 DEF RecordsTypeOK
    <2>2. verdict' \in [Shares -> Verdicts \cup {"none"}]
      BY DEF RecordUnknown, RecordsTypeOK, Verdicts
    <2>3. decided' \in [Shares -> Nat]
      BY <1>1 DEF RecordUnknown, RecordsTypeOK
    <2> QED
      BY <1>2, <2>1, <2>2, <2>3 DEF RecordUnknown, RecordsTypeOK
  <1>5. TaskTypeOK' /\ RequestsTypeOK' /\ WorksTypeOK' /\ QueuesTypeOK'
    BY DEF RecordUnknown, TaskTypeOK, RequestsTypeOK, WorksTypeOK, QueuesTypeOK, netVars
  <1>6. ArgTypes' /\ Numbers'
    BY <1>2 DEF RecordUnknown, ArgTypes, Numbers, netVars
  <1> QED
    BY <1>4, <1>5, <1>6

\* A share is recorded, then queued.
LEMMA RecordKeepsTypes ==
  ASSUME TypeInv, RecordOrSend
  PROVE  TypeInv'
  <1> USE DEF TypeInv, TypeOK
  <1>1. farg \in [share : Shares, work : Work]
    BY DEF RecordOrSend, ArgTypes
  <1>2. TaskTypeOK' /\ RequestsTypeOK' /\ WorksTypeOK'
    BY DEF RecordOrSend, TaskTypeOK, RequestsTypeOK, WorksTypeOK, netVars, history
  <1>3. CASE fpc = "first"
    <2>1. PushShare(farg.share, IF farg.share \in BlockShares THEN "Block" ELSE "Pending")
          /\ UNCHANGED <<subs, farg>> /\ fpc' = "second"
      BY <1>3 DEF RecordOrSend, RecordsAt
    <2>2. (IF farg.share \in BlockShares THEN "Block" ELSE "Pending") \in Results
      BY DEF Results
    <2>3. /\ recent' \in Seq([share : Shares, result : Results])
          /\ recentIds' \in Seq(Shares)
          /\ Len(recent') <= RecentShares /\ Len(recent') = Len(recentIds')
      BY <1>1, <2>1, <2>2, PushTypes
    <2> QED
      BY <1>1, <1>2, <2>1, <2>3
      DEF RecordOrSend, QueuesTypeOK, RecordsTypeOK, ArgTypes, Numbers, netVars, history
  <1>4. CASE fpc = "second"
    <2>1. subs' = Append(subs, farg) /\ UNCHANGED <<recent, recentIds>> /\ fpc' = "idle"
      BY <1>4 DEF RecordOrSend, RecordsAt
    <2>2. subs' \in Seq([share : Shares, work : Work])
      BY <1>1, <2>1, Appended DEF QueuesTypeOK
    <2> QED
      BY <1>2, <2>1, <2>2
      DEF RecordOrSend, QueuesTypeOK, RecordsTypeOK, ArgTypes, Numbers, netVars, history
  <1> QED
    BY <1>3, <1>4 DEF RecordOrSend

\* A device takes the cell's work, or finds a solution.
LEMMA DeviceKeepsTypes ==
  ASSUME TypeInv, DeviceTakes \/ DeviceFinds
  PROVE  TypeInv'
  <1> USE DEF TypeInv, TypeOK
  <1>1. TaskTypeOK' /\ RequestsTypeOK' /\ RecordsTypeOK' /\ ArgTypes'
    BY DEF DeviceTakes, DeviceFinds, TaskTypeOK, RequestsTypeOK, RecordsTypeOK, ArgTypes,
           netVars, foundVars, recordVars, history
  <1>2. CASE DeviceTakes
    BY <1>1, <1>2 DEF DeviceTakes, WorksTypeOK, QueuesTypeOK, Numbers,
                      netVars, foundVars, recordVars, history
  <1>3. CASE DeviceFinds
    <2>1. found \in Seq(Work) /\ dev \in Work
      BY <1>3 DEF DeviceFinds, QueuesTypeOK, WorksTypeOK
    <2>2. found' \in Seq(Work) /\ Len(found) \in Nat /\ Len(found') = Len(found) + 1
      BY <1>3, <2>1, Appended DEF DeviceFinds
    <2>3. nextShare' + Len(found') <= MaxShares + 1
      BY <1>3, <2>2, BoundsAssumption DEF DeviceFinds, QueuesTypeOK, foundVars
    <2> QED
      BY <1>1, <1>3, <2>2, <2>3 DEF DeviceFinds, WorksTypeOK, QueuesTypeOK, Numbers,
                                    netVars, foundVars, recordVars, history
  <1> QED
    BY <1>2, <1>3

\* A step of nobody keeps the types.
LEMMA StutterKeepsTypes ==
  ASSUME TypeInv, UNCHANGED vars
  PROVE  TypeInv'
  BY SMTT(30) DEF TypeInv, TypeOK, TaskTypeOK, RequestsTypeOK, WorksTypeOK, QueuesTypeOK, RecordsTypeOK,
         ArgTypes, Numbers, vars, netVars, foundVars, recordVars, history

\* Every step keeps the types.
LEMMA TypesKept == TypeInv /\ [Next]_vars => TypeInv'
  BY TaskKeepsTypes, PublishKeepsTypes, SubmitKeepsTypes, AnswerKeepsTypes, CountKeepsTypes,
     FoundKeepsTypes, UnknownKeepsTypes, RecordKeepsTypes, DeviceKeepsTypes, StutterKeepsTypes
  DEF Next, Net, FoundThread, Message

\* Every variable keeps its type, and the registry and the list of shares their
\* bounds, for every value of the constants.
THEOREM TypeCorrect == Spec => []TypeOK
  <1>1. TypeInv => TypeOK
    BY DEF TypeInv
  <1> QED
    BY <1>1, TypeInit, TypesKept, PTL DEF Spec

-----------------------------------------------------------------------------
(* No solution for a work the registry does not know, and no share of an    *)
(* earlier connection on the wire.                                          *)

\* Steps of Next that neither publish, lose, find nor touch a device.
Elsewhere ==
    \/ Connect \/ Submit \/ Flush \/ Answer \/ Count \/ RecordUnknown \/ Discard \/ RecordOrSend
    \/ UNCHANGED vars

\* What a decision leaves alone.
LEMMA DecideFrame ==
  ASSUME NEW s, NEW v, Decide(s, v)
  PROVE  /\ netpc' = "count" /\ netarg' = [share |-> s, result |-> v]
         /\ UNCHANGED <<recentIds, counts, retired, decided, orphans>>
  BY DEF Decide

\* Work is registered before the cell shows it, and no work leaves the registry
\* without a trace.
LEMMA WorksKnownKept ==
  ASSUME TypeInv, WorksKnown, [Next]_vars
  PROVE  WorksKnown'
  <1> USE DEF WorksKnown, NoUnknownWork
  <1>1. CASE Publish
    <2>1. netarg \in [work : Work, clean : BOOLEAN, step : {"first", "second"}]
      BY <1>1 DEF Publish, TypeInv, ArgTypes
    <2>2. UNCHANGED <<found, dev>>
      BY <1>1 DEF Publish
    <2>3. CASE netarg.step = "first"
      <3>1. Kept(netarg.clean) \in Seq(Work)
        BY <2>1, KeptRegistry DEF TypeInv, TypeOK, WorksTypeOK
      <3>2. jobs' = Append(Kept(netarg.clean), netarg.work)
        BY <1>1, <2>3 DEF Publish, RegistersAt
      <3>3. netarg.work \in ToSet(jobs')
        BY <2>1, <3>1, <3>2, Appended
      <3>4. retired' = retired \cup (ToSet(jobs) \ ToSet(jobs')) /\ cell' = cell
        BY <1>1, <2>3 DEF Publish, RegistersAt
      <3>5. netarg' = [netarg EXCEPT !.step = "second"]
        BY <1>1, <2>3 DEF Publish
      <3>6. netarg'.work = netarg.work
        BY <2>1, <3>5
      <3> QED
        BY <2>2, <3>3, <3>4, <3>6
    <2>4. CASE netarg.step = "second"
      BY <1>1, <2>2, <2>4 DEF Publish, RegistersAt
    <2> QED
      BY <2>1, <2>3, <2>4
  <1>2. CASE Lost
    BY <1>2 DEF Lost
  <1>3. CASE ClearCell
    BY <1>3 DEF ClearCell, history
  <1>4. CASE Message
    <2>1. UNCHANGED <<found, dev, cell, jobs, retired>>
      BY <1>4, MessageStep DEF MessageRead, history
    <2>2. netpc' = "publish" => netarg'.step = "first"
      BY <1>4, MessageStep DEF MessageRead
    <2> QED
      BY <2>1, <2>2
  <1>5. CASE DeviceTakes
    BY <1>5 DEF DeviceTakes, netVars, history
  <1>6. CASE DeviceFinds
    <2>1. ToSet(found') = ToSet(found) \cup {dev}
      BY <1>6, Appended DEF DeviceFinds, TypeInv, TypeOK, WorksTypeOK, QueuesTypeOK
    <2> QED
      BY <1>6, <2>1 DEF DeviceFinds, netVars, history
  <1>7. CASE TakeFound
    <2>1. ToSet(found') \subseteq ToSet(found)
      BY <1>7, Taken DEF TakeFound, TypeInv, TypeOK, QueuesTypeOK
    <2> QED
      BY <1>7, <2>1 DEF TakeFound, netVars, history
  <1>8. CASE Elsewhere
    <2>1. UNCHANGED <<found, dev, cell, jobs, retired>>
      BY <1>8 DEF Elsewhere, Connect, Submit, Flush, Answer, Count, RecordUnknown, Discard,
                  RecordOrSend, Decide, history, vars
    <2>2. netpc' = "publish" => UNCHANGED <<netpc, netarg>>
      BY <1>8 DEF Elsewhere, Connect, Submit, Flush, Answer, Count, RecordUnknown, Discard,
                  RecordOrSend, Decide, netVars, vars
    <2> QED
      BY <2>1, <2>2
  <1> QED
    BY <1>1, <1>2, <1>3, <1>4, <1>5, <1>6, <1>7, <1>8
    DEF Next, Net, FoundThread, Message, Elsewhere

\* What is under way on a connection is of that connection.
LEMMA ConnectionOnlyKept ==
  ASSUME TypeInv, ConnectionOnly, [Next]_vars
  PROVE  ConnectionOnly'
  <1> USE DEF ConnectionOnly, OwnSessionOnly
  <1>1. CASE Connect
    BY <1>1 DEF Connect
  <1>2. CASE Lost
    BY <1>2 DEF Lost, PendingAfterLoss
  <1>3. CASE Submit
    BY <1>3 DEF Submit, MaySubmit
  <1>4. CASE Flush
    BY <1>4 DEF Flush
  <1>5. CASE Answer
    BY <1>5 DEF Answer
  <1>6. CASE UNCHANGED <<session, pending, out, wire>>
    BY <1>6
  <1>7. Message \/ Publish \/ ClearCell \/ Count \/ FoundThread \/ DeviceTakes \/ DeviceFinds
        \/ UNCHANGED vars => UNCHANGED <<session, pending, out, wire>>
    <2>1. Message => UNCHANGED <<session, pending, out, wire>>
      BY MessageStep DEF MessageRead
    <2>2. Publish \/ ClearCell \/ Count => UNCHANGED <<session, pending, out, wire>>
      BY DEF Publish, ClearCell, Count
    <2>3. FoundThread \/ DeviceTakes \/ DeviceFinds \/ UNCHANGED vars
          => UNCHANGED <<session, pending, out, wire>>
      BY DEF FoundThread, TakeFound, RecordUnknown, Discard, RecordOrSend,
             DeviceTakes, DeviceFinds, netVars, vars
    <2> QED
      BY <2>1, <2>2, <2>3
  <1> QED
    BY <1>1, <1>2, <1>3, <1>4, <1>5, <1>6, <1>7 DEF Next, Net, Message

\* Each connection numbers its requests from the start, with an empty table.
LEMMA RequestsKept ==
  ASSUME TypeInv, ConnectionOnly, Requests, [Next]_vars
  PROVE  Requests'
  <1> USE DEF Requests, AnswersFindTheirShare
  <1>1. CASE Connect
    BY <1>1 DEF Connect, ConnectionOnly
  <1>2. CASE Lost
    BY <1>2 DEF Lost, PendingAfterLoss
  <1>3. CASE Submit
    <2>1. /\ nextReq \in Nat
          /\ \A p \in pending : p.req \in Nat
          /\ \A m \in out \cup wire : m.req \in Nat
      BY DEF TypeInv, TypeOK, RequestsTypeOK
    <2>2. CASE MaySubmit(Head(subs).work)
      <3> DEFINE s == Head(subs).share
                 p0 == [req |-> nextReq, share |-> s]
                 m0 == [req |-> nextReq, share |-> s, work |-> Head(subs).work]
      <3>1. pending' = pending \cup {p0} /\ out' = out \cup {m0}
        BY <1>3, <2>2 DEF Submit
      <3>2. wire' = wire /\ nextReq' = nextReq + 1
        BY <1>3, <2>2 DEF Submit
      <3>3. p0.req = nextReq /\ m0.req = nextReq /\ p0.share = m0.share
        OBVIOUS
      <3> HIDE DEF p0, m0
      <3>4. \A p \in pending' : p.req < nextReq'
        BY <2>1, <3>1, <3>2, <3>3
      <3>5. \A m \in out' \cup wire' : m.req < nextReq'
        BY <2>1, <3>1, <3>2, <3>3
      <3>6. \A p \in pending', m \in out' \cup wire' : p.req = m.req => p.share = m.share
        <4>1. \A p \in pending, m \in out \cup wire : p.req = m.req => p.share = m.share
          BY DEF AnswersFindTheirShare
        <4>2. \A p \in pending : p.req # m0.req
          BY <2>1, <3>3
        <4>3. \A m \in out \cup wire : p0.req # m.req
          BY <2>1, <3>3
        <4> QED
          BY <3>1, <3>2, <3>3, <4>1, <4>2, <4>3
      <3> QED
        BY <3>4, <3>5, <3>6
    <2>3. CASE ~MaySubmit(Head(subs).work)
      BY <1>3, <2>3 DEF Submit
    <2> QED
      BY <2>2, <2>3
  <1>4. CASE Flush
    BY <1>4 DEF Flush
  <1>5. CASE Answer
    BY <1>5 DEF Answer, Answered
  <1>6. CASE UNCHANGED <<pending, out, wire, nextReq>>
    BY <1>6
  <1>7. Message \/ Publish \/ ClearCell \/ Count \/ FoundThread \/ DeviceTakes \/ DeviceFinds
        \/ UNCHANGED vars => UNCHANGED <<pending, out, wire, nextReq>>
    <2>1. Message => UNCHANGED <<pending, out, wire, nextReq>>
      BY MessageStep DEF MessageRead
    <2>2. Publish \/ ClearCell \/ Count => UNCHANGED <<pending, out, wire, nextReq>>
      BY DEF Publish, ClearCell, Count
    <2>3. FoundThread \/ DeviceTakes \/ DeviceFinds \/ UNCHANGED vars
          => UNCHANGED <<pending, out, wire, nextReq>>
      BY DEF FoundThread, TakeFound, RecordUnknown, Discard, RecordOrSend,
             DeviceTakes, DeviceFinds, netVars, vars
    <2> QED
      BY <2>1, <2>2, <2>3
  <1> QED
    BY <1>1, <1>2, <1>3, <1>4, <1>5, <1>6, <1>7 DEF Next, Net, Message

-----------------------------------------------------------------------------
(* What the steps do to the shares.                                         *)

\* Steps that move no share from one place to another.
Aside ==
    \/ Connect \/ Message \/ Publish \/ ClearCell \/ Flush \/ Count
    \/ DeviceTakes \/ DeviceFinds \/ UNCHANGED vars

\* They touch neither a share nor what is shown of it; only Count counts.
LEMMA AsideStep ==
  ASSUME TypeInv, Aside
  PROVE  /\ UNCHANGED <<subs, pending, fpc, farg, nextShare>>
         /\ UNCHANGED <<verdict, orphans, recent, recentIds>>
         /\ netpc' = "count" => UNCHANGED <<netpc, netarg>>
         /\ ~Count => UNCHANGED <<counts, decided>> /\ (netpc = "count" => netpc' = "count")
  <1>1. CASE Message
    BY <1>1, MessageStep DEF MessageRead, foundVars, recordVars, history
  <1>2. CASE Connect \/ ClearCell \/ Flush
    BY <1>2 DEF Connect, ClearCell, Flush, foundVars, recordVars, history
  <1>3. CASE Publish
    BY <1>3 DEF Publish, foundVars, recordVars
  <1>4. CASE Count
    BY <1>4 DEF Count, foundVars
  <1>5. CASE DeviceTakes \/ DeviceFinds \/ UNCHANGED vars
    BY <1>5 DEF DeviceTakes, DeviceFinds, netVars, foundVars, recordVars, history, vars
  <1> QED
    BY <1>1, <1>2, <1>3, <1>4, <1>5 DEF Aside

\* A verdict shows in every record of its share but a block's, and nowhere else.
LEMMA DecideStep ==
  ASSUME TypeInv, NEW s \in Shares, NEW v \in Verdicts, Decide(s, v)
  PROVE  /\ verdict' = [verdict EXCEPT ![s] = v]
         /\ netpc' = "count" /\ netarg'.share = s /\ netarg'.result = v
         /\ UNCHANGED <<recentIds, counts, decided, orphans>>
         /\ Len(recent') = Len(recent)
         /\ \A i \in 1..Len(recent) :
              /\ recent'[i].share = recent[i].share
              /\ recent'[i].result = IF recentIds[i] = s /\ recent[i].result # "Block"
                                     THEN v ELSE recent[i].result
  BY ResultingList DEF Decide, TypeInv, TypeOK, RecordsTypeOK

\* Session::submit takes the oldest share: it is sent, or stale.
LEMMA SubmitStep ==
  ASSUME TypeInv, Submit
  PROVE  /\ netpc = "idle" /\ UNCHANGED <<fpc, farg, nextShare, orphans>>
         /\ subs[1].share \in Shares
         /\ Len(subs) \in Nat \ {0} /\ Len(subs') = Len(subs) - 1
         /\ \A j \in 1..Len(subs') : subs'[j] = subs[j + 1]
         /\ \/ /\ UNCHANGED <<netpc, netarg, verdict, decided, recent, recentIds>>
               /\ \A v \in Verdicts : counts'[v] = counts[v]
               /\ \E p \in pending' : p.share = subs[1].share /\ pending' = pending \cup {p}
            \/ Decide(subs[1].share, "Stale") /\ UNCHANGED pending
  <1> DEFINE R == [share : Shares, work : Work]
  <1>1. subs \in Seq(R) /\ subs # <<>> /\ subs' = Tail(subs)
    BY DEF Submit, TypeInv, TypeOK, QueuesTypeOK
  <1>2. /\ Head(subs) \in R /\ Head(subs) = subs[1]
        /\ Len(subs) \in Nat \ {0} /\ Len(subs') = Len(subs) - 1
        /\ \A j \in 1..Len(subs') : subs'[j] = subs[j + 1]
    <2> HIDE DEF R
    <2> QED
      BY <1>1, Taken
  <1>3. netpc = "idle" /\ UNCHANGED <<fpc, farg, nextShare>>
    BY DEF Submit, foundVars
  <1>4. CASE MaySubmit(Head(subs).work)
    <2>1. UNCHANGED <<netpc, netarg, verdict, decided, orphans, recent, recentIds>>
      BY <1>4 DEF Submit, history
    <2>2. counts' = [counts EXCEPT !["submitted"] = @ + 1]
      BY <1>4 DEF Submit
    <2>3. \A v \in Verdicts : counts'[v] = counts[v]
      BY <2>2 DEF TypeInv, TypeOK, RecordsTypeOK, Verdicts
    <2> DEFINE p0 == [req |-> nextReq, share |-> Head(subs).share]
    <2>4. pending' = pending \cup {p0}
      BY <1>4 DEF Submit
    <2>5. p0.share = subs[1].share
      BY <1>2
    <2> HIDE DEF p0
    <2>6. \E p \in pending' : p.share = subs[1].share /\ pending' = pending \cup {p}
      BY <2>4, <2>5
    <2> QED
      BY <1>2, <1>3, <2>1, <2>3, <2>6
  <1>5. CASE ~MaySubmit(Head(subs).work)
    <2>1. Decide(Head(subs).share, "Stale") /\ UNCHANGED pending
      BY <1>5 DEF Submit
    <2> QED
      BY <1>2, <1>3, <2>1, DecideFrame
  <1> QED
    BY <1>4, <1>5

\* The pool's verdict is on the share of one pending request.
LEMMA AnswerStep ==
  ASSUME TypeInv, Answer
  PROVE  /\ netpc = "idle" /\ UNCHANGED <<subs, fpc, farg, nextShare, orphans>>
         /\ \E p \in pending, v \in Verdicts :
              p.share \in Shares /\ pending' = pending \ {p} /\ Decide(p.share, v)
  <1>1. netpc = "idle" /\ UNCHANGED <<subs, fpc, farg, nextShare>>
    BY DEF Answer, foundVars
  <1>2. PICK p \in pending, v \in Verdicts : pending' = pending \ {p} /\ Decide(p.share, v)
    BY DEF Answer, Answered
  <1>3. p.share \in Shares
    BY DEF TypeInv, TypeOK, RequestsTypeOK
  <1> QED
    BY <1>1, <1>2, <1>3, DecideFrame

\* A lost connection leaves its unanswered shares without an answer.
LEMMA LostStep ==
  ASSUME TypeInv, Lost
  PROVE  /\ netpc = "idle" /\ netpc' = "clear"
         /\ UNCHANGED <<subs, fpc, farg, nextShare, verdict, decided, counts, recent, recentIds>>
         /\ pending' = {} /\ orphans' = orphans \cup {p.share : p \in pending}
  BY DEF Lost, PendingAfterLoss, QueueAfterLoss, foundVars, recordVars

\* Steps of the found thread leave the network task alone.
LEMMA FoundFrame ==
  ASSUME FoundThread
  PROVE  UNCHANGED <<netpc, netarg, pending, orphans>>
  BY DEF FoundThread, TakeFound, RecordUnknown, Discard, RecordOrSend, netVars, history

\* lookup gives the solution the next number.
LEMMA TakeStep ==
  ASSUME TypeInv, TakeFound
  PROVE  /\ nextShare \in Shares /\ nextShare' = nextShare + 1
         /\ fpc = "idle" /\ fpc' \in {"first", "unknown"} /\ farg'.share = nextShare
         /\ UNCHANGED <<subs, verdict, decided, counts, recent, recentIds>>
  <1>1. Len(found) \in Nat \ {0}
    BY Taken DEF TakeFound, TypeInv, TypeOK, QueuesTypeOK
  <1>2. nextShare \in Shares
    BY <1>1, BoundsAssumption DEF TypeInv, TypeOK, QueuesTypeOK, Numbers, Shares
  <1> QED
    BY <1>2 DEF TakeFound, recordVars, history

\* push_share adds a record at the end; the others are as they were.
LEMMA PushStep ==
  ASSUME TypeInv, NEW s \in Shares, NEW r \in Results, PushShare(s, r)
  PROVE  /\ Len(recent') = Len(recentIds') /\ Len(recent') \in Nat
         /\ \A i \in 1..Len(recent') :
              \/ /\ recent'[i].share = s /\ recent'[i].result = r
                 /\ recentIds'[i] = s
              \/ \E j \in 1..Len(recent) : recent'[i] = recent[j] /\ recentIds'[i] = recentIds[j]
  <1> DEFINE R == [share : Shares, result : Results]
             x == [share |-> s, result |-> r]
  <1>1. x \in R /\ x.share = s /\ x.result = r
    OBVIOUS
  <1>2. /\ recent \in Seq(R) /\ recentIds \in Seq(Shares)
        /\ Len(recent) <= RecentShares /\ Len(recentIds) = Len(recent)
    BY DEF TypeInv, TypeOK, RecordsTypeOK, Numbers
  <1>3. recent' = Pushed(recent, x) /\ recentIds' = Pushed(recentIds, s)
    BY DEF PushShare
  <1> HIDE DEF R, x
  <1>4. /\ Len(recent) \in Nat /\ Shift(recent) \in {0, 1}
        /\ Len(recent') = Len(recent) + 1 - Shift(recent)
        /\ \A i \in 1..(Len(recent) - Shift(recent)) : recent'[i] = recent[i + Shift(recent)]
        /\ recent'[Len(recent) + 1 - Shift(recent)] = x
    BY <1>1, <1>2, <1>3, PushedList, ZenonT(60)
  <1>5. Shift(recentIds) = Shift(recent)
    BY <1>2 DEF Shift
  <1>6. /\ Len(recentIds') = Len(recent) + 1 - Shift(recent)
        /\ \A i \in 1..(Len(recent) - Shift(recent)) : recentIds'[i] = recentIds[i + Shift(recent)]
        /\ recentIds'[Len(recent) + 1 - Shift(recent)] = s
    <2>1. /\ Len(recentIds') = Len(recentIds) + 1 - Shift(recentIds)
          /\ \A i \in 1..(Len(recentIds) - Shift(recentIds)) :
                recentIds'[i] = recentIds[i + Shift(recentIds)]
          /\ recentIds'[Len(recentIds) + 1 - Shift(recentIds)] = s
      BY <1>2, <1>3, PushedList, ZenonT(60)
    <2> QED
      BY <1>2, <1>5, <2>1
  <1>7. ASSUME NEW i \in 1..Len(recent'), i # Len(recent')
        PROVE  \E j \in 1..Len(recent) : recent'[i] = recent[j] /\ recentIds'[i] = recentIds[j]
    <2>1. i + Shift(recent) \in 1..Len(recent) /\ i \in 1..(Len(recent) - Shift(recent))
      BY <1>4, <1>7
    <2> QED
      BY <1>4, <1>6, <2>1
  <1>8. Len(recent') \in Nat
    BY <1>4
  <1> QED
    BY <1>1, <1>4, <1>6, <1>7, <1>8

\* A share with a known work is listed first and queued second.
LEMMA RecordStep ==
  ASSUME TypeInv, RecordOrSend
  PROVE  /\ farg.share \in Shares /\ UNCHANGED <<nextShare, counts, verdict, decided>>
         /\ \/ /\ fpc = "first" /\ fpc' = "second" /\ UNCHANGED <<farg, subs>>
               /\ PushShare(farg.share, IF farg.share \in BlockShares THEN "Block" ELSE "Pending")
            \/ /\ fpc = "second" /\ fpc' = "idle" /\ UNCHANGED <<recent, recentIds>>
               /\ Len(subs) \in Nat /\ Len(subs') = Len(subs) + 1
               /\ \A j \in 1..Len(subs) : subs'[j] = subs[j]
               /\ subs'[Len(subs) + 1].share = farg.share
  <1>1. farg \in [share : Shares, work : Work] /\ subs \in Seq([share : Shares, work : Work])
    BY DEF RecordOrSend, TypeInv, TypeOK, QueuesTypeOK, ArgTypes
  <1>2. UNCHANGED <<nextShare, counts, verdict, decided>>
    BY DEF RecordOrSend, history
  <1>3. CASE fpc = "first"
    BY <1>1, <1>2, <1>3 DEF RecordOrSend, RecordsAt
  <1>4. CASE fpc = "second"
    <2>1. subs' = Append(subs, farg) /\ fpc' = "idle" /\ UNCHANGED <<recent, recentIds>>
      BY <1>4 DEF RecordOrSend, RecordsAt
    <2> QED
      BY <1>1, <1>2, <1>4, <2>1, Appended
  <1> QED
    BY <1>3, <1>4 DEF RecordOrSend

\* A share of an unknown work is recorded and decided at once.
LEMMA UnknownStep ==
  ASSUME TypeInv, RecordUnknown
  PROVE  /\ fpc = "unknown" /\ fpc' = "idle" /\ farg.share \in Shares
         /\ UNCHANGED <<nextShare, subs>>
         /\ PushShare(farg.share, "Stale")
         /\ verdict' = [verdict EXCEPT ![farg.share] = "Stale"]
         /\ decided' = [decided EXCEPT ![farg.share] = @ + 1]
         /\ counts' = [counts EXCEPT !["Stale"] = @ + 1]
  BY DEF RecordUnknown, TypeInv, ArgTypes

\* A discarded share is nobody's.
LEMMA DiscardStep ==
  ASSUME Discard
  PROVE  /\ fpc' = "idle"
         /\ UNCHANGED <<nextShare, subs, verdict, decided, counts, recent, recentIds>>
  BY DEF Discard, recordVars, history

\* All steps, by what they do to the shares.
LEMMA Steps ==
  ASSUME [Next]_vars
  PROVE  Aside \/ Submit \/ Answer \/ Lost \/ TakeFound \/ RecordUnknown \/ Discard \/ RecordOrSend
  BY DEF Next, Net, FoundThread, Message, Aside

-----------------------------------------------------------------------------
(* A share is in one place at a time, undecided until its verdict.          *)

\* Everybody who holds a share holds one of Shares.
LEMMA HolderTypes ==
  ASSUME TypeInv
  PROVE  /\ Shares \subseteq Nat /\ nextShare \in Nat
         /\ \A j \in 1..Len(subs) : subs[j].share \in Shares
         /\ \A p \in pending : p.share \in Shares
         /\ fpc # "idle" => farg.share \in Shares
         /\ netpc = "count" => netarg.share \in Shares /\ netarg.result \in Verdicts
         /\ \A i \in 1..Len(recent) : recent[i].share \in Shares
  <1>1. \A j \in 1..Len(subs) : subs[j] \in [share : Shares, work : Work]
    BY ElementOfSeq DEF TypeInv, TypeOK, QueuesTypeOK
  <1>2. \A j \in 1..Len(subs) : subs[j].share \in Shares
    BY <1>1
  <1>3. \A i \in 1..Len(recent) : recent[i] \in [share : Shares, result : Results]
    BY ElementOfSeq DEF TypeInv, TypeOK, RecordsTypeOK
  <1>4. \A i \in 1..Len(recent) : recent[i].share \in Shares
    BY <1>3
  <1>5. \A p \in pending : p.share \in Shares
    BY DEF TypeInv, TypeOK, RequestsTypeOK
  <1>6. /\ fpc # "idle" => farg.share \in Shares
        /\ netpc = "count" => netarg.share \in Shares /\ netarg.result \in Verdicts
    BY DEF TypeInv, ArgTypes
  <1>7. Shares \subseteq Nat /\ nextShare \in Nat
    BY DEF TypeInv, TypeOK, QueuesTypeOK, Shares
  <1> QED
    BY <1>2, <1>4, <1>5, <1>6, <1>7

\* No verdict is also the absence of one.
LEMMA VerdictsAreVerdicts == "none" \notin Verdicts /\ "Stale" \in Verdicts
  BY DEF Verdicts

\* Who holds a share holds one with a number and without a verdict.
LEMMA HeldKept ==
  ASSUME TypeInv, Held, OnePlace, [Next]_vars
  PROVE  Held'
  <1>1. CASE Aside
    BY <1>1, AsideStep DEF Held
  <1>2. CASE Submit
    <2>1. CASE UNCHANGED <<netpc, netarg, verdict>>
      BY <1>2, <2>1, SubmitStep DEF Held, Decide
    <2>2. CASE Decide(subs[1].share, "Stale") /\ UNCHANGED pending
      <3> DEFINE s == subs[1].share
      <3>1. /\ s \in Shares /\ verdict' = [verdict EXCEPT ![s] = "Stale"]
            /\ netarg'.share = s /\ netarg'.result = "Stale"
            /\ UNCHANGED <<fpc, farg, nextShare>>
        BY <1>2, <2>2, SubmitStep, DecideStep, VerdictsAreVerdicts
      <3>2. \A j \in 1..Len(subs') : j + 1 \in 1..Len(subs) /\ j + 1 # 1 /\ subs'[j] = subs[j + 1]
        BY <1>2, SubmitStep
      <3>3. 1 \in 1..Len(subs)
        BY <1>2, SubmitStep
      <3>4. /\ \A t \in Shares : t # s => verdict'[t] = verdict[t]
            /\ verdict'[s] = "Stale"
        BY <3>1 DEF TypeInv, TypeOK, RecordsTypeOK
      <3>5. /\ \A j \in 1..Len(subs) : subs[j].share \in Shares
            /\ \A p \in pending : p.share \in Shares
            /\ fpc # "idle" => farg.share \in Shares
        BY HolderTypes
      <3> HIDE DEF s
      <3>6. \A j \in 1..Len(subs') :
              subs'[j].share < nextShare' /\ verdict'[subs'[j].share] = "none"
        BY <3>1, <3>2, <3>3, <3>4, <3>5 DEF s, Held, OnePlace
      <3>7. \A p \in pending' : p.share < nextShare' /\ verdict'[p.share] = "none"
        BY <2>2, <3>1, <3>3, <3>4, <3>5 DEF s, Held, OnePlace
      <3>8. fpc' # "idle" => farg'.share < nextShare' /\ verdict'[farg'.share] = "none"
        BY <3>1, <3>3, <3>4, <3>5 DEF s, Held, OnePlace
      <3>9. /\ netarg'.share < nextShare' /\ verdict'[netarg'.share] = netarg'.result
            /\ \A t \in Shares : t >= nextShare' => verdict'[t] = "none"
        <4>1. s < nextShare /\ s \in Nat /\ nextShare \in Nat
          BY <3>1, <3>3 DEF s, Held, Shares, TypeInv, TypeOK, QueuesTypeOK
        <4> QED
          BY <3>1, <3>4, <4>1 DEF Held, Shares
      <3> QED
        BY <3>6, <3>7, <3>8, <3>9 DEF Held
    <2> QED
      BY <1>2, <2>1, <2>2, SubmitStep
  <1>3. CASE Answer
    <2>1. PICK p \in pending, v \in Verdicts :
            p.share \in Shares /\ pending' = pending \ {p} /\ Decide(p.share, v)
      BY <1>3, AnswerStep
    <2> DEFINE s == p.share
    <2>2. /\ verdict' = [verdict EXCEPT ![s] = v]
          /\ netarg'.share = s /\ netarg'.result = v
          /\ UNCHANGED <<subs, fpc, farg, nextShare>>
      BY <1>3, <2>1, AnswerStep, DecideStep
    <2>3. /\ \A t \in Shares : t # s => verdict'[t] = verdict[t]
          /\ verdict'[s] = v
      BY <2>1, <2>2 DEF TypeInv, TypeOK, RecordsTypeOK
    <2>4. /\ \A j \in 1..Len(subs) : subs[j].share \in Shares
          /\ \A q \in pending : q.share \in Shares
          /\ fpc # "idle" => farg.share \in Shares
      BY HolderTypes
    <2>5. \A j \in 1..Len(subs') :
            subs'[j].share < nextShare' /\ verdict'[subs'[j].share] = "none"
      BY <2>2, <2>3, <2>4 DEF Held, OnePlace
    <2>6. \A q \in pending' : q.share < nextShare' /\ verdict'[q.share] = "none"
      BY <2>1, <2>2, <2>3, <2>4 DEF Held, OnePlace
    <2>7. fpc' # "idle" => farg'.share < nextShare' /\ verdict'[farg'.share] = "none"
      BY <2>2, <2>3, <2>4 DEF Held, OnePlace
    <2>8. /\ netarg'.share < nextShare' /\ verdict'[netarg'.share] = netarg'.result
          /\ \A t \in Shares : t >= nextShare' => verdict'[t] = "none"
      <3>1. s < nextShare /\ s \in Nat /\ nextShare \in Nat
        BY <2>1 DEF Held, Shares, TypeInv, TypeOK, QueuesTypeOK
      <3> QED
        BY <2>2, <2>3, <3>1 DEF Held, Shares
    <2> QED
      BY <2>5, <2>6, <2>7, <2>8 DEF Held
  <1>4. CASE Lost
    BY <1>4, LostStep DEF Held
  <1>5. CASE TakeFound
    <2>1. /\ nextShare \in Nat
          /\ \A j \in 1..Len(subs) : subs[j].share \in Nat
          /\ \A p \in pending : p.share \in Nat
          /\ netpc = "count" => netarg.share \in Nat
      BY HolderTypes
    <2> QED
      BY <1>5, <2>1, TakeStep, FoundFrame DEF Held, FoundThread, Shares
  <1>6. CASE RecordUnknown
    <2> DEFINE s == farg.share
    <2>1. /\ s \in Shares /\ verdict' = [verdict EXCEPT ![s] = "Stale"]
          /\ fpc = "unknown" /\ fpc' = "idle"
          /\ UNCHANGED <<netpc, netarg, pending, subs, nextShare>>
      BY <1>6, UnknownStep, FoundFrame DEF FoundThread
    <2>2. /\ \A t \in Shares : t # s => verdict'[t] = verdict[t]
          /\ verdict[s] = "none" /\ s < nextShare
      BY <2>1 DEF Held, TypeInv, TypeOK, RecordsTypeOK
    <2>3. /\ \A j \in 1..Len(subs) : subs[j].share \in Shares
          /\ \A p \in pending : p.share \in Shares
          /\ netpc = "count" => netarg.share \in Shares /\ netarg.result \in Verdicts
      BY HolderTypes
    <2>4. \A j \in 1..Len(subs') :
            subs'[j].share < nextShare' /\ verdict'[subs'[j].share] = "none"
      BY <2>1, <2>2, <2>3 DEF Held, OnePlace
    <2>5. \A p \in pending' : p.share < nextShare' /\ verdict'[p.share] = "none"
      BY <2>1, <2>2, <2>3 DEF Held, OnePlace
    <2>6. netpc' = "count" => netarg'.share < nextShare' /\ verdict'[netarg'.share] = netarg'.result
      BY <2>1, <2>2, <2>3, VerdictsAreVerdicts DEF Held
    <2>7. \A t \in Shares : t >= nextShare' => verdict'[t] = "none"
      <3>1. s \in Nat /\ nextShare \in Nat
        BY <2>1 DEF Shares, TypeInv, TypeOK, QueuesTypeOK
      <3> QED
        BY <2>1, <2>2, <3>1 DEF Held, Shares
    <2> QED
      BY <2>1, <2>4, <2>5, <2>6, <2>7 DEF Held
  <1>7. CASE Discard
    BY <1>7, DiscardStep, FoundFrame DEF Held, FoundThread
  <1>8. CASE RecordOrSend
    <2>1. UNCHANGED <<netpc, netarg, pending, nextShare, verdict>>
      BY <1>8, RecordStep, FoundFrame DEF FoundThread
    <2>2. \A j \in 1..Len(subs') :
            subs'[j].share < nextShare' /\ verdict'[subs'[j].share] = "none"
      BY <1>8, <2>1, RecordStep DEF Held
    <2>3. fpc' # "idle" => UNCHANGED farg /\ fpc # "idle"
      BY <1>8, RecordStep
    <2> QED
      BY <2>1, <2>2, <2>3 DEF Held
  <1> QED
    BY <1>1, <1>2, <1>3, <1>4, <1>5, <1>6, <1>7, <1>8, Steps

\* A share moves from the found thread to the queue, and from the queue to the
\* pending requests; it is never in two of them, nor twice in one.
LEMMA OnePlaceKept ==
  ASSUME TypeInv, Held, OnePlace, [Next]_vars
  PROVE  OnePlace'
  <1>1. CASE Aside
    BY <1>1, AsideStep DEF OnePlace
  <1>2. CASE Submit
    <2>1. \A j \in 1..Len(subs') : j + 1 \in 1..Len(subs) /\ j + 1 # 1 /\ subs'[j] = subs[j + 1]
      BY <1>2, SubmitStep
    <2>2. 1 \in 1..Len(subs) /\ UNCHANGED <<fpc, farg>>
      BY <1>2, SubmitStep
    <2>3. \A j, k \in 1..Len(subs') : subs'[j].share = subs'[k].share => j = k
      BY <2>1 DEF OnePlace
    <2>4. CASE pending' = pending
      BY <2>1, <2>2, <2>3, <2>4, SMTT(30) DEF OnePlace
    <2>5. CASE \E p \in pending' : p.share = subs[1].share /\ pending' = pending \cup {p}
      <3>1. PICK p \in pending' : p.share = subs[1].share /\ pending' = pending \cup {p}
        BY <2>5
      <3>2. \A q, r \in pending' : q.share = r.share => q = r
        BY <2>2, <3>1 DEF OnePlace
      <3>3. \A j \in 1..Len(subs'), q \in pending' : subs'[j].share # q.share
        BY <2>1, <2>2, <3>1 DEF OnePlace
      <3>4. fpc' # "idle" => /\ \A j \in 1..Len(subs') : subs'[j].share # farg'.share
                             /\ \A q \in pending' : q.share # farg'.share
        BY <2>1, <2>2, <3>1 DEF OnePlace
      <3> QED
        BY <2>3, <3>2, <3>3, <3>4 DEF OnePlace
    <2> QED
      BY <1>2, <2>4, <2>5, SubmitStep
  <1>3. CASE Answer
    BY <1>3, AnswerStep DEF OnePlace
  <1>4. CASE Lost
    BY <1>4, LostStep DEF OnePlace
  <1>5. CASE TakeFound
    <2>1. /\ \A j \in 1..Len(subs) : subs[j].share # nextShare
          /\ \A p \in pending : p.share # nextShare
      BY HolderTypes DEF Held
    <2> QED
      BY <1>5, <2>1, TakeStep, FoundFrame DEF OnePlace, FoundThread
  <1>6. CASE RecordUnknown
    BY <1>6, UnknownStep, FoundFrame DEF OnePlace, FoundThread
  <1>7. CASE Discard
    BY <1>7, DiscardStep, FoundFrame DEF OnePlace, FoundThread
  <1>8. CASE RecordOrSend
    <2>1. UNCHANGED pending
      BY <1>8, FoundFrame DEF FoundThread
    <2>2. CASE fpc = "first"
      BY <1>8, <2>1, <2>2, RecordStep DEF OnePlace
    <2>3. CASE fpc = "second"
      <3>1. /\ fpc' = "idle" /\ Len(subs) \in Nat /\ Len(subs') = Len(subs) + 1
            /\ \A j \in 1..Len(subs) : subs'[j] = subs[j]
            /\ subs'[Len(subs) + 1].share = farg.share
        BY <1>8, <2>3, RecordStep
      <3>2. /\ \A j \in 1..Len(subs) : subs[j].share # farg.share
            /\ \A p \in pending : p.share # farg.share
        BY <2>3 DEF OnePlace
      <3>3. \A j \in 1..Len(subs') : j = Len(subs) + 1 \/ j \in 1..Len(subs)
        BY <3>1
      <3> QED
        BY <2>1, <3>1, <3>2, <3>3 DEF OnePlace
    <2> QED
      BY <1>8, <2>2, <2>3, RecordStep
  <1> QED
    BY <1>1, <1>2, <1>3, <1>4, <1>5, <1>6, <1>7, <1>8, Steps

-----------------------------------------------------------------------------
(* The list of recent shares.                                               *)

\* No share is listed before it was recorded.
LEMMA ListedKept ==
  ASSUME TypeInv, Held, Listed, [Next]_vars
  PROVE  Listed'
  <1> USE HolderTypes
  <1>1. CASE Aside
    BY <1>1, AsideStep DEF Listed
  <1>2. ASSUME NEW s \in Shares, NEW v \in Verdicts, Decide(s, v), UNCHANGED <<fpc, farg, nextShare>>
        PROVE  Listed'
    BY <1>2, DecideStep DEF Listed
  <1>3. CASE Submit
    BY <1>2, <1>3, SubmitStep, VerdictsAreVerdicts DEF Listed
  <1>4. CASE Answer
    BY <1>2, <1>4, AnswerStep
  <1>5. CASE Lost
    BY <1>5, LostStep DEF Listed
  <1>6. CASE TakeFound
    BY <1>6, TakeStep DEF Listed, Shares
  <1>7. ASSUME NEW r \in Results, farg.share \in Shares, fpc # "idle", UNCHANGED nextShare,
               PushShare(farg.share, r), fpc' \notin {"first", "unknown"}
        PROVE  Listed'
    <2>1. ASSUME NEW i \in 1..Len(recent')
          PROVE  recent'[i].share < nextShare'
      BY <1>7, <2>1, PushStep DEF Listed, Held
    <2> QED
      BY <1>7, <2>1 DEF Listed
  <1>8. CASE RecordUnknown
    BY <1>7, <1>8, UnknownStep DEF Results, Verdicts
  <1>9. CASE Discard
    BY <1>9, DiscardStep DEF Listed
  <1>10. CASE RecordOrSend
    <2>1. CASE fpc = "first"
      <3>1. (IF farg.share \in BlockShares THEN "Block" ELSE "Pending") \in Results
        BY DEF Results
      <3> QED
        BY <1>7, <1>10, <2>1, <3>1, RecordStep
    <2>2. CASE fpc = "second"
      BY <1>10, <2>2, RecordStep DEF Listed
    <2> QED
      BY <1>10, <2>1, <2>2, RecordStep
  <1> QED
    BY <1>1, <1>3, <1>4, <1>5, <1>6, <1>8, <1>9, <1>10, Steps

\* A decision changes the records of its share to what it decided.
LEMMA DecideShows ==
  ASSUME TypeInv, VerdictShown, NEW s \in Shares, NEW v \in Verdicts, Decide(s, v)
  PROVE  VerdictShown'
  <1>1. /\ verdict' = [verdict EXCEPT ![s] = v]
        /\ recentIds' = recentIds /\ Len(recent') = Len(recent)
        /\ \A i \in 1..Len(recent) :
              /\ recent'[i].share = recent[i].share
              /\ recent'[i].result = IF recentIds[i] = s /\ recent[i].result # "Block"
                                     THEN v ELSE recent[i].result
    BY DecideStep
  <1>2. /\ \A t \in Shares : verdict'[t] = IF t = s THEN v ELSE verdict[t]
        /\ \A t \in Shares : verdict[t] # "Block"
    BY <1>1 DEF TypeInv, TypeOK, RecordsTypeOK, Verdicts
  <1>3. v # "none"
    BY DEF Verdicts
  <1>4. ASSUME NEW i \in 1..Len(recent')
        PROVE  LET t == recent'[i].share IN
               /\ t = recentIds'[i]
               /\ \/ recent'[i].result = IF verdict'[t] = "none" THEN "Pending" ELSE verdict'[t]
                  \/ recent'[i].result = "Block" /\ t \in BlockShares
    <2> DEFINE t == recent[i].share
    <2>1. i \in 1..Len(recent) /\ t \in Shares /\ t = recentIds[i] /\ recent'[i].share = t
      BY <1>1, HolderTypes DEF VerdictShown
    <2>2. \/ recent[i].result = IF verdict[t] = "none" THEN "Pending" ELSE verdict[t]
          \/ recent[i].result = "Block" /\ t \in BlockShares
      BY <2>1 DEF VerdictShown
    <2>3. CASE t = s
      BY <1>1, <1>2, <1>3, <2>1, <2>2, <2>3
    <2>4. CASE t # s
      BY <1>1, <1>2, <2>1, <2>2, <2>4
    <2> QED
      BY <2>3, <2>4
  <1> QED
    BY <1>1, <1>4 DEF VerdictShown

\* A share pushed with what is decided on it, and not listed yet, leaves the
\* list as it should be.
LEMMA PushShows ==
  ASSUME TypeInv, VerdictShown, NEW s \in Shares, NEW r \in Results, PushShare(s, r),
         \A t \in Shares : t # s => verdict'[t] = verdict[t],
         verdict'[s] = verdict[s] \/ \A i \in 1..Len(recent) : recent[i].share # s,
         \/ r = IF verdict'[s] = "none" THEN "Pending" ELSE verdict'[s]
         \/ r = "Block" /\ s \in BlockShares
  PROVE  VerdictShown'
  <1>1. /\ Len(recent') = Len(recentIds')
        /\ \A i \in 1..Len(recent') :
              \/ /\ recent'[i].share = s /\ recent'[i].result = r
                 /\ recentIds'[i] = s
              \/ \E j \in 1..Len(recent) : recent'[i] = recent[j] /\ recentIds'[i] = recentIds[j]
    BY PushStep
  <1>2. ASSUME NEW i \in 1..Len(recent')
        PROVE  LET t == recent'[i].share IN
               /\ t = recentIds'[i]
               /\ \/ recent'[i].result = IF verdict'[t] = "none" THEN "Pending" ELSE verdict'[t]
                  \/ recent'[i].result = "Block" /\ t \in BlockShares
    <2>1. CASE recent'[i].share = s /\ recent'[i].result = r /\ recentIds'[i] = s
      BY <2>1
    <2>2. CASE \E j \in 1..Len(recent) : recent'[i] = recent[j] /\ recentIds'[i] = recentIds[j]
      <3>1. PICK j \in 1..Len(recent) : recent'[i] = recent[j] /\ recentIds'[i] = recentIds[j]
        BY <2>2
      <3> DEFINE t == recent[j].share
      <3>2. t \in Shares /\ t = recentIds[j]
        BY HolderTypes DEF VerdictShown
      <3>3. \/ recent[j].result = IF verdict[t] = "none" THEN "Pending" ELSE verdict[t]
            \/ recent[j].result = "Block" /\ t \in BlockShares
        BY DEF VerdictShown
      <3>4. verdict'[t] = verdict[t]
        BY <3>2
      <3> QED
        BY <3>1, <3>2, <3>3, <3>4
    <2> QED
      BY <1>1, <2>1, <2>2
  <1> QED
    BY <1>1, <1>2 DEF VerdictShown

\* The list shows what was decided.
LEMMA VerdictShownKept ==
  ASSUME TypeInv, Held, Listed, VerdictShown, [Next]_vars
  PROVE  VerdictShown'
  <1>1. CASE UNCHANGED <<recent, recentIds, verdict>>
    BY <1>1 DEF VerdictShown
  <1>2. CASE Aside
    BY <1>1, <1>2, AsideStep
  <1>3. CASE Submit
    BY <1>1, <1>3, SubmitStep, DecideShows, VerdictsAreVerdicts
  <1>4. CASE Answer
    BY <1>4, AnswerStep, DecideShows
  <1>5. CASE Lost
    BY <1>1, <1>5, LostStep
  <1>6. CASE TakeFound
    BY <1>1, <1>6, TakeStep
  <1>7. CASE RecordUnknown
    <2> DEFINE s == farg.share
    <2>1. /\ fpc = "unknown" /\ s \in Shares /\ PushShare(s, "Stale")
          /\ verdict' = [verdict EXCEPT ![s] = "Stale"]
      BY <1>7, UnknownStep
    <2>2. \A t \in Shares : verdict'[t] = IF t = s THEN "Stale" ELSE verdict[t]
      BY <2>1 DEF TypeInv, TypeOK, RecordsTypeOK
    <2>3. \A i \in 1..Len(recent) : recent[i].share # s
      BY <2>1 DEF Listed
    <2>4. "Stale" \in Results
      BY DEF Results, Verdicts
    <2> HIDE DEF s
    <2> QED
      BY <2>1, <2>2, <2>3, <2>4, PushShows
  <1>8. CASE Discard
    BY <1>1, <1>8, DiscardStep
  <1>9. CASE RecordOrSend
    <2>1. CASE fpc = "first"
      <3> DEFINE s == farg.share
                 r == IF s \in BlockShares THEN "Block" ELSE "Pending"
      <3>1. s \in Shares /\ PushShare(s, r) /\ UNCHANGED verdict
        BY <1>9, <2>1, RecordStep
      <3>2. verdict[s] = "none"
        BY <2>1 DEF Held
      <3>3. r \in Results
        BY DEF Results
      <3>4. r = "Pending" \/ (r = "Block" /\ s \in BlockShares)
        OBVIOUS
      <3> HIDE DEF s, r
      <3> QED
        BY <3>1, <3>2, <3>3, <3>4, PushShows
    <2>2. CASE fpc = "second"
      BY <1>1, <1>9, <2>2, RecordStep
    <2> QED
      BY <1>9, <2>1, <2>2, RecordStep
  <1> QED
    BY <1>2, <1>3, <1>4, <1>5, <1>6, <1>7, <1>8, <1>9, Steps

-----------------------------------------------------------------------------
(* No share gets lost.                                                      *)

\* Where a share without a verdict may be.
Somewhere(s) ==
    \/ fpc = "second" /\ farg.share = s
    \/ \E j \in 1..Len(subs) : subs[j].share = s
    \/ \E p \in pending : p.share = s
    \/ s \in orphans

\* A verdict is never taken back.
LEMMA VerdictsStay ==
  ASSUME TypeInv, [Next]_vars, NEW t \in Shares, verdict'[t] = "none"
  PROVE  verdict[t] = "none"
  <1>1. ASSUME NEW s \in Shares, NEW v \in Verdicts, verdict' = [verdict EXCEPT ![s] = v]
        PROVE  verdict[t] = "none"
    BY <1>1, VerdictsAreVerdicts DEF TypeInv, TypeOK, RecordsTypeOK
  <1>2. ASSUME NEW s \in Shares, NEW v \in Verdicts, Decide(s, v)
        PROVE  verdict[t] = "none"
    BY <1>1, <1>2, DecideStep
  <1>3. CASE Aside \/ Lost \/ TakeFound \/ Discard \/ RecordOrSend
    BY <1>3, AsideStep, LostStep, TakeStep, DiscardStep, RecordStep
  <1>4. CASE Submit
    BY <1>2, <1>4, SubmitStep, VerdictsAreVerdicts
  <1>5. CASE Answer
    BY <1>2, <1>5, AnswerStep
  <1>6. CASE RecordUnknown
    BY <1>1, <1>6, UnknownStep, VerdictsAreVerdicts
  <1> QED
    BY <1>3, <1>4, <1>5, <1>6, Steps

\* A share that stays without a verdict stays in one of its places.
LEMMA SomewhereKept ==
  ASSUME TypeInv, OnePlace, [Next]_vars, NEW t \in Shares, Somewhere(t), verdict'[t] = "none"
  PROVE  Somewhere(t)'
  <1> USE DEF Somewhere
  <1>1. CASE Aside
    BY <1>1, AsideStep
  <1>2. CASE Submit
    <2>1. UNCHANGED <<fpc, farg, orphans>>
      BY <1>2, SubmitStep
    <2>2. CASE \E j \in 1..Len(subs) : subs[j].share = t
      <3>1. PICK j \in 1..Len(subs) : subs[j].share = t
        BY <2>2
      <3>2. CASE j = 1
        <4>1. ~Decide(subs[1].share, "Stale")
          BY <3>1, <3>2, DecideStep, VerdictsAreVerdicts DEF TypeInv, TypeOK, RecordsTypeOK
        <4> QED
          BY <1>2, <3>1, <3>2, <4>1, SubmitStep
      <3>3. CASE j # 1
        <4>1. j - 1 \in 1..Len(subs') /\ subs'[j - 1] = subs[j]
          BY <1>2, <3>3, SubmitStep
        <4> QED
          BY <3>1, <4>1
      <3> QED
        BY <3>2, <3>3
    <2>3. CASE \E p \in pending : p.share = t
      BY <1>2, <2>3, SubmitStep
    <2> QED
      BY <2>1, <2>2, <2>3
  <1>3. CASE Answer
    <2>1. PICK p \in pending, v \in Verdicts :
            p.share \in Shares /\ pending' = pending \ {p} /\ Decide(p.share, v)
      BY <1>3, AnswerStep
    <2>2. t # p.share
      BY <2>1, DecideStep, VerdictsAreVerdicts DEF TypeInv, TypeOK, RecordsTypeOK
    <2>3. UNCHANGED <<subs, fpc, farg, orphans>>
      BY <1>3, AnswerStep
    <2> QED
      BY <2>1, <2>2, <2>3
  <1>4. CASE Lost
    BY <1>4, LostStep
  <1>5. CASE TakeFound
    BY <1>5, TakeStep, FoundFrame DEF FoundThread
  <1>6. CASE RecordUnknown
    BY <1>6, UnknownStep, FoundFrame DEF FoundThread
  <1>7. CASE Discard
    BY <1>7, DiscardStep, FoundFrame DEF FoundThread, Discard
  <1>8. CASE RecordOrSend
    <2>1. UNCHANGED <<pending, orphans>>
      BY <1>8, FoundFrame DEF FoundThread
    <2>2. CASE fpc = "first"
      BY <1>8, <2>1, <2>2, RecordStep
    <2>3. CASE fpc = "second"
      <3>1. /\ Len(subs) \in Nat /\ Len(subs') = Len(subs) + 1
            /\ \A j \in 1..Len(subs) : subs'[j] = subs[j]
            /\ subs'[Len(subs) + 1].share = farg.share
        BY <1>8, <2>3, RecordStep
      <3>2. 1..Len(subs) \subseteq 1..Len(subs') /\ Len(subs) + 1 \in 1..Len(subs')
        BY <3>1
      <3> QED
        BY <2>1, <3>1, <3>2
    <2> QED
      BY <1>8, <2>2, <2>3, RecordStep
  <1> QED
    BY <1>1, <1>2, <1>3, <1>4, <1>5, <1>6, <1>7, <1>8, Steps

\* Only the share in hand is new in the list, and it is decided or about to be
\* queued.
LEMMA NewRecord ==
  ASSUME TypeInv, [Next]_vars, NEW i \in 1..Len(recent'),
         ~(\E j \in 1..Len(recent) : recent[j].share = recent'[i].share)
  PROVE  LET s == recent'[i].share IN verdict'[s] # "none" \/ (fpc' = "second" /\ farg'.share = s)
  <1>1. ASSUME NEW s \in Shares, NEW r \in Results, PushShare(s, r)
        PROVE  recent'[i].share = s
    BY <1>1, PushStep
  <1>2. CASE RecordUnknown
    BY <1>1, <1>2, UnknownStep DEF Results, Verdicts, TypeInv, TypeOK, RecordsTypeOK
  <1>3. CASE RecordOrSend
    <2>1. CASE fpc = "first"
      <3>1. (IF farg.share \in BlockShares THEN "Block" ELSE "Pending") \in Results
        BY DEF Results
      <3> QED
        BY <1>1, <1>3, <2>1, <3>1, RecordStep
    <2>2. CASE fpc = "second"
      BY <1>3, <2>2, RecordStep
    <2> QED
      BY <1>3, <2>1, <2>2, RecordStep
  <1>4. CASE Submit
    BY <1>4, SubmitStep, DecideStep, VerdictsAreVerdicts
  <1>5. CASE Answer
    BY <1>5, AnswerStep, DecideStep
  <1>6. CASE Aside \/ Lost \/ TakeFound \/ Discard
    BY <1>6, AsideStep, LostStep, TakeStep, DiscardStep
  <1> QED
    BY <1>2, <1>3, <1>4, <1>5, <1>6, Steps

\* A listed share without a verdict is somewhere.
LEMMA PendingIsSomewhereKept ==
  ASSUME TypeInv, TypeInv', OnePlace, PendingIsSomewhere, [Next]_vars
  PROVE  PendingIsSomewhere'
  <1>1. ASSUME NEW t \in Shares, NEW i \in 1..Len(recent'), recent'[i].share = t,
               verdict'[t] = "none"
        PROVE  Somewhere(t)'
    <2>1. CASE \E j \in 1..Len(recent) : recent[j].share = t
      <3>1. verdict[t] = "none"
        BY <1>1, VerdictsStay
      <3>2. Somewhere(t)
        BY <2>1, <3>1 DEF PendingIsSomewhere, Somewhere
      <3> QED
        BY <1>1, <3>2, SomewhereKept
    <2>2. CASE ~(\E j \in 1..Len(recent) : recent[j].share = t)
      BY <1>1, <2>2, NewRecord DEF Somewhere
    <2> QED
      BY <2>1, <2>2
  <1>2. \A i \in 1..Len(recent') : recent'[i].share \in Shares
    <2>1. \A i \in 1..Len(recent') : recent'[i] \in [share : Shares, result : Results]
      BY ElementOfSeq DEF TypeInv, TypeOK, RecordsTypeOK
    <2> QED
      BY <2>1
  <1> QED
    BY <1>1, <1>2 DEF PendingIsSomewhere, Somewhere

-----------------------------------------------------------------------------
(* Every share is counted once.                                             *)

\* The counters start at zero, with nothing decided.
LEMMA CountersInit == Init => Counters
  <1> SUFFICES ASSUME Init
               PROVE  Counters
    OBVIOUS
  <1>1. \A s \in Shares : verdict[s] = "none" /\ decided[s] = 0
    BY DEF Init
  <1>2. \A v \in Verdicts : Tally(v) = {}
    BY <1>1, VerdictsAreVerdicts DEF Tally
  <1>3. \A v \in Verdicts : counts[v] = 0
    BY DEF Init, Verdicts
  <1> QED
    BY <1>1, <1>2, <1>3, FS_EmptySet DEF Counters

\* A tally is a finite set.
LEMMA TallyFinite == \A v : IsFiniteSet(Tally(v))
  <1>1. IsFiniteSet(Shares)
    BY FS_Interval, BoundsAssumption DEF Shares
  <1> QED
    BY <1>1, FS_Subset DEF Tally

\* Steps that decide and count nothing.
LEMMA CountersSame ==
  ASSUME Counters, \A v \in Verdicts : counts'[v] = counts[v], UNCHANGED <<verdict, decided>>,
         \/ netpc = "count" /\ UNCHANGED <<netpc, netarg>>
         \/ netpc # "count" /\ netpc' # "count"
  PROVE  Counters'
  <1>1. \A v : Tally(v)' = Tally(v)
    BY DEF Tally
  <1> QED
    BY <1>1 DEF Counters

\* A share that is decided but not counted yet is in no tally.
LEMMA CountersDecide ==
  ASSUME TypeInv, Counters, netpc # "count",
         NEW s \in Shares, NEW r \in Verdicts, Decide(s, r), verdict[s] = "none"
  PROVE  Counters'
  <1>1. /\ verdict' = [verdict EXCEPT ![s] = r]
        /\ netpc' = "count" /\ netarg'.share = s
        /\ UNCHANGED <<counts, decided>>
    BY DecideStep
  <1>2. \A t \in Shares : verdict'[t] = IF t = s THEN r ELSE verdict[t]
    BY <1>1 DEF TypeInv, TypeOK, RecordsTypeOK
  <1>3. ASSUME NEW v \in Verdicts
        PROVE  Tally(v)' = Tally(v)
    BY <1>1, <1>2, VerdictsAreVerdicts DEF Tally
  <1>4. ASSUME NEW t \in Shares
        PROVE  decided'[t] = IF verdict'[t] = "none" \/ (netpc' = "count" /\ netarg'.share = t)
                             THEN 0 ELSE 1
    BY <1>1, <1>2 DEF Counters
  <1> QED
    BY <1>1, <1>3, <1>4 DEF Counters

\* Counting moves one share into one tally.
LEMMA CountersAdd ==
  ASSUME TypeInv, Counters, NEW s \in Shares, NEW r \in Verdicts, s \notin Tally(r),
         Tally(r)' = Tally(r) \cup {s},
         \A v \in Verdicts : v # r => Tally(v)' = Tally(v),
         \A v \in Verdicts : counts'[v] = IF v = r THEN counts[v] + 1 ELSE counts[v]
  PROVE  \A v \in Verdicts : counts'[v] = Cardinality(Tally(v)')
  <1>1. Cardinality(Tally(r) \cup {s}) = Cardinality(Tally(r)) + 1
    BY TallyFinite, FS_AddElement
  <1> QED
    BY <1>1 DEF Counters

\* The counters are the tallies.
LEMMA CountersKept ==
  ASSUME TypeInv, Held, Counters, [Next]_vars
  PROVE  Counters'
  <1>1. CASE Aside /\ ~Count
    BY <1>1, AsideStep, CountersSame
  <1>2. CASE Count
    <2>0. PICK s \in Shares, r \in Verdicts : s = netarg.share /\ r = netarg.result
      BY <1>2, HolderTypes DEF Count
    <2>1. /\ s = netarg.share /\ r = netarg.result
          /\ netpc = "count" /\ netpc' = "idle" /\ verdict' = verdict
      BY <1>2, <2>0 DEF Count
    <2>2. verdict[s] = r
      BY <2>1 DEF Held
    <2>3. decided' = [decided EXCEPT ![s] = @ + 1]
      BY <1>2, <2>1 DEF Count
    <2>4. \A v \in Verdicts : counts'[v] = IF v = r THEN counts[v] + 1 ELSE counts[v]
      BY <1>2, <2>1 DEF Count, TypeInv, TypeOK, RecordsTypeOK, Verdicts
    <2>5. decided[s] = 0 /\ \A t \in Shares : decided'[t] = IF t = s THEN 1 ELSE decided[t]
      BY <2>1, <2>3 DEF Counters, TypeInv, TypeOK, RecordsTypeOK
    <2>6. /\ s \notin Tally(r) /\ Tally(r)' = Tally(r) \cup {s}
          /\ \A v \in Verdicts : v # r => Tally(v)' = Tally(v)
      BY <2>1, <2>2 DEF Tally
    <2>7. \A t \in Shares : decided'[t] = IF verdict'[t] = "none" THEN 0 ELSE 1
      BY <2>1, <2>2, <2>5, VerdictsAreVerdicts DEF Counters
    <2>8. \A v \in Verdicts : counts'[v] = Cardinality(Tally(v)')
      BY <2>1, <2>4, <2>6, CountersAdd
    <2> QED
      BY <2>1, <2>7, <2>8 DEF Counters
  <1>3. CASE Submit
    <2>1. CASE UNCHANGED <<netpc, netarg, verdict, decided>>
                /\ \A v \in Verdicts : counts'[v] = counts[v]
      BY <1>3, <2>1, SubmitStep, CountersSame
    <2>2. CASE Decide(subs[1].share, "Stale")
      <3>1. verdict[subs[1].share] = "none" /\ subs[1].share \in Shares /\ netpc # "count"
        BY <1>3, SubmitStep DEF Held
      <3> QED
        BY <2>2, <3>1, CountersDecide, VerdictsAreVerdicts
    <2> QED
      BY <1>3, <2>1, <2>2, SubmitStep
  <1>4. CASE Answer
    <2>1. PICK p \in pending, v \in Verdicts :
            p.share \in Shares /\ pending' = pending \ {p} /\ Decide(p.share, v)
      BY <1>4, AnswerStep
    <2>2. verdict[p.share] = "none" /\ netpc # "count"
      BY <1>4, AnswerStep DEF Held
    <2> QED
      BY <2>1, <2>2, CountersDecide
  <1>5. CASE Lost
    BY <1>5, LostStep, CountersSame
  <1>6. CASE TakeFound \/ Discard \/ RecordOrSend
    BY <1>6, TakeStep, DiscardStep, RecordStep, FoundFrame, CountersSame DEF FoundThread
  <1>7. CASE RecordUnknown
    <2> DEFINE s == farg.share
    <2>1. /\ fpc = "unknown" /\ s \in Shares /\ UNCHANGED <<netpc, netarg>>
          /\ verdict' = [verdict EXCEPT ![s] = "Stale"]
          /\ decided' = [decided EXCEPT ![s] = @ + 1]
          /\ counts' = [counts EXCEPT !["Stale"] = @ + 1]
      BY <1>7, UnknownStep, FoundFrame DEF FoundThread
    <2>2. verdict[s] = "none" /\ ~(netpc = "count" /\ netarg.share = s)
      BY <2>1, HolderTypes, VerdictsAreVerdicts DEF Held
    <2>3. \A t \in Shares : verdict'[t] = IF t = s THEN "Stale" ELSE verdict[t]
      BY <2>1 DEF TypeInv, TypeOK, RecordsTypeOK
    <2>4. decided[s] = 0 /\ \A t \in Shares : decided'[t] = IF t = s THEN 1 ELSE decided[t]
      BY <2>1, <2>2 DEF Counters, TypeInv, TypeOK, RecordsTypeOK
    <2>5. \A v \in Verdicts : counts'[v] = IF v = "Stale" THEN counts[v] + 1 ELSE counts[v]
      BY <2>1 DEF TypeInv, TypeOK, RecordsTypeOK, Verdicts
    <2> HIDE DEF s
    <2>6. /\ s \notin Tally("Stale") /\ Tally("Stale")' = Tally("Stale") \cup {s}
          /\ \A v \in Verdicts : v # "Stale" => Tally(v)' = Tally(v)
      BY <2>1, <2>2, <2>3, VerdictsAreVerdicts DEF Tally
    <2>7. \A v \in Verdicts : counts'[v] = Cardinality(Tally(v)')
      BY <2>1, <2>5, <2>6, CountersAdd, VerdictsAreVerdicts
    <2>8. \A t \in Shares :
            decided'[t] = IF verdict'[t] = "none" \/ (netpc' = "count" /\ netarg'.share = t)
                          THEN 0 ELSE 1
      BY <2>1, <2>2, <2>3, <2>4 DEF Counters
    <2> QED
      BY <2>7, <2>8 DEF Counters
  <1> QED
    BY <1>1, <1>2, <1>3, <1>4, <1>5, <1>6, <1>7, Steps

-----------------------------------------------------------------------------
(* The theorems.                                                            *)

\* The invariant holds at first: nothing is under way.
LEMMA IndInit == Init => IndInv
  <1> SUFFICES ASSUME Init
               PROVE  IndInv
    OBVIOUS
  <1>1. TypeInv /\ Counters
    BY TypeInit, CountersInit
  <1>2. Len(recent) = 0 /\ Len(recentIds) = 0 /\ Len(subs) = 0 /\ Len(found) = 0 /\ ToSet(found) = {}
    BY EmptySeq DEF Init, ToSet
  <1>3. WorksKnown
    BY <1>2 DEF Init, WorksKnown, NoUnknownWork
  <1>4. ConnectionOnly /\ Requests
    BY DEF Init, ConnectionOnly, OwnSessionOnly, Requests, AnswersFindTheirShare
  <1>5. Held /\ OnePlace
    BY <1>2 DEF Init, Held, OnePlace
  <1>6. Listed /\ VerdictShown /\ PendingIsSomewhere
    BY <1>2 DEF Init, Listed, VerdictShown, PendingIsSomewhere
  <1> QED
    BY <1>1, <1>3, <1>4, <1>5, <1>6 DEF IndInv

\* Every step keeps it.
LEMMA IndKept == IndInv /\ [Next]_vars => IndInv'
  <1> SUFFICES ASSUME IndInv, [Next]_vars
               PROVE  IndInv'
    OBVIOUS
  <1>1. TypeInv'
    BY TypesKept DEF IndInv
  <1>2. WorksKnown' /\ ConnectionOnly' /\ Requests'
    BY WorksKnownKept, ConnectionOnlyKept, RequestsKept DEF IndInv
  <1>3. Held' /\ OnePlace' /\ Listed'
    BY HeldKept, OnePlaceKept, ListedKept DEF IndInv
  <1>4. VerdictShown' /\ PendingIsSomewhere' /\ Counters'
    BY <1>1, VerdictShownKept, PendingIsSomewhereKept, CountersKept DEF IndInv
  <1> QED
    BY <1>1, <1>2, <1>3, <1>4 DEF IndInv

\* It is an invariant.
LEMMA Inductive == Spec => []IndInv
  BY IndInit, IndKept, PTL DEF Spec

\* Devices never bring a solution for a work that was not registered, however
\* the publication interleaves with them (RunCtx::publish).
THEOREM KnownWork == Spec => []NoUnknownWork
  <1>1. IndInv => NoUnknownWork
    BY DEF IndInv, WorksKnown
  <1> QED
    BY <1>1, Inductive, PTL

\* A share built on an earlier connection's extranonce1 is never submitted,
\* though the queue outlives connections (Session::submit).
THEOREM OwnSession == Spec => []OwnSessionOnly
  <1>1. IndInv => OwnSessionOnly
    BY DEF IndInv, ConnectionOnly
  <1> QED
    BY <1>1, Inductive, PTL

\* An answer is applied to the share it is about, on every connection.
THEOREM RightShare == Spec => []AnswersFindTheirShare
  <1>1. IndInv => AnswersFindTheirShare
    BY DEF IndInv, Requests
  <1> QED
    BY <1>1, Inductive, PTL

\* The list shows each share's verdict (push_share, share_result).
THEOREM ShownVerdicts == Spec => []VerdictShown
  <1>1. IndInv => VerdictShown
    BY DEF IndInv
  <1> QED
    BY <1>1, Inductive, PTL

\* A listed share without a verdict is on its way, or its connection is gone.
THEOREM NothingLost == Spec => []PendingIsSomewhere
  <1>1. IndInv => PendingIsSomewhere
    BY DEF IndInv
  <1> QED
    BY <1>1, Inductive, PTL

\* No share is counted twice, and the counters agree with the verdicts.
THEOREM CountsAreExact == Spec => []CountedOnce
  <1>1. ASSUME IndInv
        PROVE  CountedOnce
    <2>1. \A s \in Shares : decided[s] <= 1
      BY <1>1 DEF IndInv, Counters
    <2>2. ASSUME netpc # "count", NEW v \in Verdicts
          PROVE  counts[v] = Cardinality({s \in Shares : verdict[s] = v})
      <3>1. Tally(v) = {s \in Shares : verdict[s] = v}
        BY <2>2 DEF Tally
      <3> QED
        BY <1>1, <3>1 DEF IndInv, Counters
    <2> QED
      BY <2>1, <2>2 DEF CountedOnce
  <1> QED
    BY <1>1, Inductive, PTL
=============================================================================
