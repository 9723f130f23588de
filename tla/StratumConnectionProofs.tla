------------------------ MODULE StratumConnectionProofs ------------------------
(***************************************************************************)
(* What TLAPS proves of StratumConnection, for any hosts, ports, waits,    *)
(* timeouts and limits: its types, that the client stays at its pool's     *)
(* site, that lines are handled as they were sent, that nothing of a lost  *)
(* session is shown or hashed, and that a dead pool is not hammered.       *)
(***************************************************************************)
EXTENDS StratumConnection, Integers, SequenceTheorems, FunctionTheorems, FiniteSetTheorems, TLAPS

-----------------------------------------------------------------------------
(* The inductive invariant.                                                 *)

\* Whatever the client dials now or will dial next belongs to the pool.
SameSite ==
    /\ Site[endpoint.host] = Site[Home.host]
    /\ end # Lost => Site[end.to.host] = Site[Home.host]

\* What has been read of a line, what is under way and what the pool is in the
\* middle of are one stream: each piece is the next of its line.
Stream ==
    /\ \A i \in 1..Len(line) : line[i] = [part |-> i, newline |-> FALSE]
    /\ inbound # <<>> => inbound[1].part = Len(line) + 1
    /\ \A i \in 1..(Len(inbound) - 1) :
          inbound[i + 1].part = IF inbound[i].newline THEN 1 ELSE inbound[i].part + 1
    /\ poolOpen /\ inbound = <<>> => sending = Len(line)
    /\ poolOpen /\ inbound # <<>> =>
          sending = IF inbound[Len(inbound)].newline THEN 0 ELSE inbound[Len(inbound)].part

\* What is shown, by the place the client is at.
Claims ==
    /\ cell => Open \/ phase = "ended"
    /\ connected => Open \/ phase \in {"ended", "cleared", "gone"}
    /\ phase \in {"sleep", "dial"} => status # "Mining"
    /\ failed => ~connected /\ status = "Error"

\* The wait that is owed before the next dial.
Owed == IF fruitless = 0 THEN base ELSE AtMost(base * 2 ^ fruitless, MaxBackoff)

IndInv == TypeOK /\ SameSite /\ Stream /\ ~torn /\ Claims /\ backoff >= Owed

-----------------------------------------------------------------------------
(* Operators.                                                               *)

\* Doubling once more is the next power of two: a set with one element more
\* has twice the subsets.
LEMMA PowerOfTwo ==
  ASSUME NEW n \in Nat
  PROVE  2 ^ n \in Nat \ {0} /\ 2 ^ (n + 1) = 2 * 2 ^ n
  <1> DEFINE S == 1..n
             T == 1..(n + 1)
             With == {X \cup {n + 1} : X \in SUBSET S}
  <1>1. IsFiniteSet(S) /\ Cardinality(S) = n /\ IsFiniteSet(T) /\ Cardinality(T) = n + 1
    BY FS_Interval
  <1>2. /\ IsFiniteSet(SUBSET S) /\ Cardinality(SUBSET S) = 2 ^ n
        /\ IsFiniteSet(SUBSET T) /\ Cardinality(SUBSET T) = 2 ^ (n + 1)
    BY <1>1, FS_SUBSET
  <1>3. IsFiniteSet(With) /\ Cardinality(With) = Cardinality(SUBSET S)
    <2> DEFINE f == [X \in SUBSET S |-> X \cup {n + 1}]
    <2>1. \A X \in SUBSET S : (X \cup {n + 1}) \ {n + 1} = X
      <3>1. n + 1 \notin S
        OBVIOUS
      <3> HIDE DEF S
      <3> QED
        BY <3>1
    <2>2. f \in [SUBSET S -> With] /\ \A Y \in With : \E X \in SUBSET S : f[X] = Y
      OBVIOUS
    <2>3. ASSUME NEW X \in SUBSET S, NEW Y \in SUBSET S, f[X] = f[Y]
          PROVE  X = Y
      <3>1. X \cup {n + 1} = Y \cup {n + 1}
        BY <2>3
      <3>2. (X \cup {n + 1}) \ {n + 1} = X /\ (Y \cup {n + 1}) \ {n + 1} = Y
        BY <2>1
      <3> QED
        BY <3>1, <3>2
    <2> HIDE DEF f
    <2>4. f \in Bijection(SUBSET S, With)
      BY <2>2, <2>3, Fun_IsBij
    <2>5. ExistsBijection(SUBSET S, With)
      BY <2>4, Fun_ExistsBij
    <2> HIDE DEF With
    <2> QED
      BY <1>2, <2>5, FS_Bijection
  <1>4. SUBSET T = (SUBSET S) \cup With /\ (SUBSET S) \cap With = {}
    <2>1. T = S \cup {n + 1} /\ n + 1 \notin S
      OBVIOUS
    <2>2. ASSUME NEW X \in SUBSET T, n + 1 \in X
          PROVE  X \in With
      <3>1. X \ {n + 1} \in SUBSET S /\ X = (X \ {n + 1}) \cup {n + 1}
        BY <2>1, <2>2
      <3> QED
        BY <3>1
    <2>3. \A X \in SUBSET T : n + 1 \notin X => X \in SUBSET S
      BY <2>1
    <2>4. (SUBSET S) \cup With \subseteq SUBSET T
      BY <2>1
    <2>5. \A X \in With : n + 1 \in X
      OBVIOUS
    <2>6. \A X \in SUBSET S : n + 1 \notin X
      BY <2>1
    <2> QED
      BY <2>2, <2>3, <2>4, <2>5, <2>6
  <1>5. Cardinality(SUBSET T) = Cardinality(SUBSET S) + Cardinality(With) - Cardinality({})
    <2> HIDE DEF S, T, With
    <2> QED
      BY <1>2, <1>3, <1>4, FS_Union
  <1>6. Cardinality(SUBSET S) \in Nat /\ Cardinality(SUBSET S) # 0 /\ Cardinality({}) = 0
    <2>1. Cardinality(SUBSET S) \in Nat /\ Cardinality({}) = 0
      BY <1>2, FS_CardinalityType, FS_EmptySet
    <2>2. {} \in SUBSET S
      OBVIOUS
    <2>3. Cardinality(SUBSET S) # 0
      BY <1>2, <2>2, FS_EmptySet
    <2> QED
      BY <2>1, <2>3
  <1> QED
    BY <1>2, <1>3, <1>5, <1>6

-----------------------------------------------------------------------------
(* What the steps do.                                                       *)

\* A redirect goes to a host of the pool's site.
LEMMA RedirectStays ==
  ASSUME NEW host \in Hosts \cup {NoHost}
  PROVE  RedirectHost(host) \in Hosts /\ Site[RedirectHost(host)] = Site[Home.host]
  BY ConnectionAssumption DEF RedirectHost, Endpoint

\* A redirect is no loss.
LEMMA RedirectIsNoLoss == Lost \notin Redirect
  BY DEF Lost, Redirect

\* What a line of the pool can show: nothing new, work, or a failed run.
ShowsOfLine ==
    \/ UNCHANGED shown
    \/ /\ ~failed /\ UNCHANGED <<failed, connected>>
       /\ cell' = TRUE /\ status' = "Mining"
    \/ /\ ~failed /\ failed' = TRUE /\ connected' = FALSE
       /\ UNCHANGED cell /\ status' = "Error"

\* A line is read in full and handled: the session goes on, or ends after what
\* it still has to say.
LEMMA PublishEffect ==
  ASSUME NEW atLoss, Publish(atLoss)
  PROVE  /\ phase' \in {"flush", "lastFlush"} /\ end' \in {end, Lost}
         /\ UNCHANGED hadWork \/ hadWork' = TRUE
         /\ ShowsOfLine
  BY DEF Publish, GoesOn, EndsWith, Fail, Shown, ShowsOfLine, shown

\* The same, whatever the line says.
LEMMA LineEffect ==
  ASSUME LineStep
  PROVE  /\ ReadLine /\ phase' \in {"flush", "lastFlush"}
         /\ \/ end' \in {end, Lost}
            \/ /\ end' \in Redirect
               /\ Site[end'.to.host] = Site[Home.host]
         /\ UNCHANGED asked \/ asked' = FALSE
         /\ UNCHANGED hadWork \/ hadWork' = TRUE
         /\ UNCHANGED e1 \/ e1' = TRUE
         /\ UNCHANGED notify \/ notify' = TRUE
         /\ UNCHANGED out \/ \E sent \in 0..1 : out' = out + sent
         /\ ShowsOfLine
  <1>1. CASE Subscribed \/ Notified \/ NewDifficulty \/ NewExtranonce
    <2>1. \E atLoss \in BOOLEAN : Publish(atLoss)
      BY <1>1 DEF Subscribed, Notified, NewDifficulty, NewExtranonce
    <2>2. /\ phase' \in {"flush", "lastFlush"} /\ end' \in {end, Lost}
          /\ UNCHANGED hadWork \/ hadWork' = TRUE
          /\ ShowsOfLine
      BY <2>1, PublishEffect
    <2>3. /\ ReadLine /\ UNCHANGED out
          /\ UNCHANGED asked \/ asked' = FALSE
          /\ UNCHANGED e1 \/ e1' = TRUE
          /\ UNCHANGED notify \/ notify' = TRUE
      BY <1>1, Zenon DEF Subscribed, Notified, NewDifficulty, NewExtranonce, Message
    <2> QED
      BY <2>2, <2>3
  <1>2. CASE SubscribeRefused \/ OtherLine
    BY <1>2 DEF SubscribeRefused, OtherLine, Message, GoesOn, EndsWith, ShowsOfLine
  <1>3. CASE Redirected
    <2>1. /\ ReadLine /\ phase' = "lastFlush"
          /\ UNCHANGED <<asked, hadWork, e1, notify, out, shown>>
      BY <1>3 DEF Redirected, Message, EndsWith
    <2>2. PICK host \in Hosts \cup {NoHost}, port \in Ports \cup {NoPort}, wait \in RedirectWaits :
            end' = [kind |-> "redirect", wait |-> wait,
                    to |-> [host |-> RedirectHost(host),
                            port |-> IF port = NoPort THEN Home.port ELSE port]]
      BY <1>3 DEF Redirected, EndsWith
    <2>3. RedirectHost(host) \in Hosts /\ Site[RedirectHost(host)] = Site[Home.host]
      BY RedirectStays
    <2>4. (IF port = NoPort THEN Home.port ELSE port) \in Ports
      BY ConnectionAssumption DEF Endpoint
    <2>5. end' \in Redirect /\ end'.to.host = RedirectHost(host)
      BY <2>2, <2>3, <2>4 DEF Redirect, Endpoint
    <2> QED
      BY <2>1, <2>3, <2>5 DEF ShowsOfLine
  <1> QED
    BY <1>1, <1>2, <1>3 DEF LineStep

-----------------------------------------------------------------------------
(* Type correctness.                                                        *)

\* Flags stay flags.
LEMMA FlagsKept ==
  ASSUME FlagsTypeOK, [Next]_vars
  PROVE  FlagsTypeOK'
  <1> USE DEF FlagsTypeOK
  <1>1. CASE Top \/ LossNoted \/ RedirectNoted
    BY <1>1, ZenonT(60) DEF Top, LossNoted, RedirectNoted, Disconnected, Shown, sessionVars,
                pool, shown, history
  <1>10. CASE DialSucceeds
    <2>1. /\ asked' = TRUE /\ hadWork' = FALSE /\ e1' = FALSE /\ notify' = FALSE
          /\ poolOpen' = TRUE /\ UNCHANGED <<attempts, cell, failed, torn>>
          /\ UNCHANGED connected \/ connected' = TRUE
      BY <1>10, Zenon DEF DialSucceeds, Shown, runVars, history
    <2> QED
      BY <2>1
  <1>2. CASE Woken \/ DialFails \/ ClearWork
    BY <1>2, ZenonT(60) DEF Woken, DialFails, ClearWork, SessionDropped, runVars, sessionVars, pool, shown,
                history
  <1>3. CASE FlushStep
    BY <1>3 DEF FlushStep, FlushOne, FlushFails, FlushDone, runVars, sessionVars, pool, shown,
                history
  <1>4. CASE LineStep
    <2>1. /\ ReadLine /\ ShowsOfLine
          /\ UNCHANGED asked \/ asked' = FALSE
          /\ UNCHANGED hadWork \/ hadWork' = TRUE
          /\ UNCHANGED e1 \/ e1' = TRUE
          /\ UNCHANGED notify \/ notify' = TRUE
      BY <1>4, LineEffect
    <2>2. UNCHANGED <<attempts, poolOpen>> /\ torn' \in BOOLEAN
      BY <2>1 DEF ReadLine, Whole, runVars
    <2>3. connected' \in BOOLEAN /\ cell' \in BOOLEAN /\ failed' \in BOOLEAN
      BY <2>1 DEF ShowsOfLine, shown
    <2> QED
      BY <2>1, <2>2, <2>3
  <1>5. CASE ReadPiece \/ ReadEnd \/ SubmitShare \/ Deadline
    BY <1>5 DEF ReadPiece, ReadEnd, SubmitShare, Deadline, runVars, sessionVars, pool, shown,
                history
  <1>6. CASE PoolSends \/ PoolReads \/ ShareFound \/ PoolCloses
    <2>1. /\ UNCHANGED <<attempts, asked, hadWork, e1, notify, connected, cell, failed, torn>>
          /\ UNCHANGED poolOpen \/ poolOpen' = FALSE
      BY <1>6, Zenon DEF PoolSends, PoolReads, ShareFound, PoolCloses, runVars, sessionVars, pool,
                         shown, history
    <2> QED
      BY <2>1
  <1>7. CASE Cancel
    <2>1. /\ asked' = FALSE /\ e1' = FALSE /\ notify' = FALSE /\ poolOpen' = FALSE
          /\ cell' = FALSE /\ UNCHANGED <<attempts, hadWork, connected, failed, torn>>
      BY <1>7, Zenon DEF Cancel, SessionDropped, runVars, history
    <2> QED
      BY <2>1
  <1>8. CASE Tick \/ UNCHANGED vars
    BY <1>8 DEF Tick, vars, runVars, sessionVars, pool, shown, history
  <1> QED
    BY <1>1, <1>2, <1>3, <1>4, <1>5, <1>6, <1>7, <1>8, <1>10 DEF Next, RunStep, ReadStep, World

\* Where the client is, where it dials, how the session ended.
LEMMA RunKept ==
  ASSUME RunTypeOK, [Next]_vars
  PROVE  RunTypeOK'
  <1> USE DEF RunTypeOK, Phases
  <1>1. CASE Top
    BY <1>1 DEF Top, Shown
  <1>2. CASE Woken \/ DialFails \/ ClearWork
    BY <1>2 DEF Woken, DialFails, ClearWork, runVars, shown
  <1>3. CASE DialSucceeds \/ LossNoted
    BY <1>3 DEF DialSucceeds, LossNoted, Disconnected, Shown, runVars
  <1>4. CASE RedirectNoted
    <2>1. end.to \in Endpoint
      BY <1>4 DEF RedirectNoted, Redirect
    <2> QED
      BY <1>4, <2>1 DEF RedirectNoted, Disconnected, Shown
  <1>5. CASE FlushStep
    BY <1>5 DEF FlushStep, FlushOne, FlushFails, FlushDone, runVars, shown
  <1>6. CASE LineStep
    <2>1. /\ phase' \in {"flush", "lastFlush"} /\ end' \in {end, Lost} \cup Redirect
          /\ ReadLine /\ ShowsOfLine
      BY <1>6, LineEffect
    <2>2. status' \in {status, "Mining", "Error"}
      BY <2>1 DEF ShowsOfLine, shown
    <2>3. UNCHANGED endpoint
      BY <2>1 DEF ReadLine, runVars
    <2> QED
      BY <2>1, <2>2, <2>3
  <1>7. CASE ReadPiece \/ ReadEnd \/ SubmitShare \/ Deadline
    BY <1>7 DEF ReadPiece, ReadEnd, SubmitShare, Deadline, runVars, shown
  <1>8. CASE World
    BY <1>8 DEF World, PoolSends, PoolReads, PoolCloses, ShareFound, Cancel, runVars, shown
  <1>9. CASE Tick \/ UNCHANGED vars
    BY <1>9 DEF Tick, vars, runVars, shown
  <1> QED
    BY <1>1, <1>2, <1>3, <1>4, <1>5, <1>6, <1>7, <1>8, <1>9 DEF Next, RunStep, ReadStep

\* Waits are within their bounds.
LEMMA WaitsKept ==
  ASSUME RunTypeOK, WaitsTypeOK, [Next]_vars
  PROVE  WaitsTypeOK'
  <1> USE DEF WaitsTypeOK
  <1>0. /\ backoff \in Nat /\ FirstWait \in 0..MaxBackoff /\ MaxBackoff \in Nat
        /\ ShortWait \in Nat /\ MaxFruitless \in Nat /\ RedirectWaits \subseteq Nat
    BY ConnectionAssumption
  <1>1. CASE LossNoted
    <2>1. /\ backoff' \in {FirstWait, AtMost(2 * backoff, MaxBackoff)}
          /\ fruitless' \in {0, AtMost(fruitless + 1, MaxFruitless)}
          /\ base' \in {FirstWait, base} /\ UNCHANGED clock
      BY <1>1 DEF LossNoted, NextBackoff
    <2>2. AtMost(2 * backoff, MaxBackoff) \in 0..MaxBackoff
      BY <1>0 DEF AtMost
    <2>3. AtMost(fruitless + 1, MaxFruitless) \in 0..MaxFruitless
      BY <1>0 DEF AtMost
    <2> QED
      BY <1>0, <2>1, <2>2, <2>3
  <1>2. CASE RedirectNoted
    <2>1. end.wait \in RedirectWaits
      BY <1>2 DEF RedirectNoted, RunTypeOK, Redirect
    <2>2. PICK wait \in RedirectWaits : wait = end.wait
      BY <2>1
    <2>3. AtLeast(wait, ShortWait) \in {wait, ShortWait}
      BY DEF AtLeast
    <2>4. /\ backoff' = AtLeast(wait, ShortWait) /\ base' = AtLeast(wait, ShortWait)
          /\ fruitless' = 0 /\ UNCHANGED clock
      BY <1>2, <2>2 DEF RedirectNoted
    <2>5. AtLeast(wait, ShortWait) \in RedirectWaits \cup {ShortWait} /\ RedirectWaits \cup {ShortWait} \subseteq Nat
      BY <1>0, <2>2, <2>3
    <2>6. backoff' \in RedirectWaits \cup (0..MaxBackoff) \cup {ShortWait} /\ base' \in Nat
      BY <2>4, <2>5
    <2>7. fruitless' \in 0..MaxFruitless /\ clock' \in Nat
      BY <1>0, <2>4
    <2> QED
      BY <2>6, <2>7
  <1>3. CASE Top \/ Woken \/ DialFails \/ DialSucceeds \/ ClearWork
    <2>1. UNCHANGED <<backoff, fruitless, base>> /\ (UNCHANGED clock \/ clock' = 0)
      BY <1>3, Zenon DEF Top, Woken, DialFails, DialSucceeds, ClearWork, runVars, history
    <2> QED
      BY <2>1
  <1>4. CASE FlushStep
    BY <1>4 DEF FlushStep, FlushOne, FlushFails, FlushDone, runVars, history
  <1>5. CASE LineStep
    BY <1>5, LineEffect DEF ReadLine, runVars
  <1>6. CASE ReadPiece \/ ReadEnd \/ SubmitShare \/ Deadline
    BY <1>6 DEF ReadPiece, ReadEnd, SubmitShare, Deadline, runVars, history
  <1>7. CASE World
    BY <1>7 DEF World, PoolSends, PoolReads, PoolCloses, ShareFound, Cancel, runVars, history
  <1>8. CASE Tick \/ UNCHANGED vars
    BY <1>8 DEF Tick, vars, runVars, history
  <1> QED
    BY <1>1, <1>2, <1>3, <1>4, <1>5, <1>6, <1>7, <1>8 DEF Next, RunStep, ReadStep

-----------------------------------------------------------------------------
(* The stream of the pool.                                                  *)

\* Appending an element to a sequence.
LEMMA Appended ==
  ASSUME NEW S, NEW q \in Seq(S), NEW x \in S
  PROVE  /\ Append(q, x) \in Seq(S)
         /\ Len(q) \in Nat /\ Len(Append(q, x)) = Len(q) + 1
         /\ \A i \in 1..Len(q) : Append(q, x)[i] = q[i]
         /\ Append(q, x)[Len(q) + 1] = x
         /\ Append(q, x) # <<>>
  BY AppendProperties, LenProperties

\* Taking the first element from a sequence.
LEMMA Taken ==
  ASSUME NEW S, NEW q \in Seq(S), q # <<>>
  PROVE  /\ Head(q) \in S /\ Head(q) = q[1]
         /\ Tail(q) \in Seq(S)
         /\ Len(q) \in Nat \ {0} /\ Len(Tail(q)) = Len(q) - 1
         /\ \A i \in 1..Len(Tail(q)) : Tail(q)[i] = q[i + 1]
         /\ Tail(q) = <<>> <=> Len(q) = 1
  <1>1. /\ Head(q) \in S /\ Tail(q) \in Seq(S) /\ Len(Tail(q)) = Len(q) - 1
        /\ \A i \in 1..Len(Tail(q)) : Tail(q)[i] = q[i + 1]
    BY HeadTailProperties
  <1>2. Len(q) \in Nat \ {0} /\ Head(q) = q[1]
    BY EmptySeq
  <1>3. Tail(q) = <<>> <=> Len(Tail(q)) = 0
    BY <1>1, EmptySeq
  <1> QED
    BY <1>1, <1>2, <1>3

\* The beginning of a sequence.
LEMMA Beginning ==
  ASSUME NEW S, NEW q \in Seq(S), NEW n \in 0..Len(q)
  PROVE  /\ SubSeq(q, 1, n) \in Seq(S) /\ Len(SubSeq(q, 1, n)) = n
         /\ \A i \in 1..n : SubSeq(q, 1, n)[i] = q[i]
  <1>1. Len(q) \in Nat /\ n \in Int /\ \A i \in 1..Len(q) : q[i] \in S
    BY LenProperties, ElementOfSeq
  <1>2. /\ Len(SubSeq(q, 1, n)) = IF 1 <= n THEN n - 1 + 1 ELSE 0
        /\ \A i \in 1..(n - 1 + 1) : SubSeq(q, 1, n)[i] = q[1 + i - 1]
        /\ \A i \in 1..n : q[i] \in S
    BY <1>1, SubSeqProperties
  <1>3. SubSeq(q, 1, n) \in Seq(S)
    BY <1>1, SubSeqProperties
  <1> QED
    BY <1>1, <1>2, <1>3

\* The steps that touch the stream; all others leave it alone.
StreamStep ==
    DialSucceeds \/ ClearWork \/ Cancel \/ ReadPiece \/ LineStep \/ PoolSends \/ PoolCloses

LEMMA StreamAside ==
  ASSUME [Next]_vars, ~StreamStep
  PROVE  UNCHANGED <<line, inbound, sending, poolOpen, torn>>
  <1>1. CASE Top \/ Woken \/ DialFails \/ LossNoted \/ RedirectNoted
    BY <1>1, Zenon DEF Top, Woken, DialFails, LossNoted, RedirectNoted, sessionVars, pool, history
  <1>2. CASE FlushStep
    BY <1>2, Zenon DEF FlushStep, FlushOne, FlushFails, FlushDone, sessionVars, pool, history
  <1>3. CASE ReadEnd \/ SubmitShare \/ Deadline
    BY <1>3, Zenon DEF ReadEnd, SubmitShare, LineKept, Deadline, sessionVars, pool, history
  <1>4. CASE PoolReads \/ ShareFound \/ Tick \/ UNCHANGED vars
    BY <1>4, Zenon DEF PoolReads, ShareFound, Tick, vars, sessionVars, pool, history
  <1> QED
    BY <1>1, <1>2, <1>3, <1>4 DEF Next, RunStep, ReadStep, World, StreamStep

\* A connection that begins or ends has nothing under way.
LEMMA StreamReset ==
  ASSUME DialSucceeds \/ ClearWork \/ Cancel
  PROVE  line' = <<>> /\ inbound' = <<>> /\ sending' = 0 /\ UNCHANGED torn
  BY DEF DialSucceeds, ClearWork, Cancel, SessionDropped, history

\* A piece without end is added to the line.
LEMMA PieceRead ==
  ASSUME ReadPiece
  PROVE  /\ inbound # <<>> /\ Head(inbound).newline # TRUE
         /\ line' = Append(line, Head(inbound)) /\ inbound' = Tail(inbound)
         /\ UNCHANGED <<sending, poolOpen, torn>>
  BY DEF ReadPiece, history

\* A piece that ends a line is taken, and the line is emptied.
LEMMA LineRead ==
  ASSUME LineStep
  PROVE  /\ inbound # <<>> /\ Head(inbound).newline
         /\ line' = <<>> /\ inbound' = Tail(inbound)
         /\ torn' = ~Whole(Append(line, Head(inbound)))
         /\ UNCHANGED <<sending, poolOpen, buffered, subs>>
  BY LineEffect DEF ReadLine

\* The pool sends the next piece.
LEMMA PieceSent ==
  ASSUME PoolSends, StreamTypeOK
  PROVE  \E newline \in BOOLEAN :
           LET piece == [part |-> sending + 1, newline |-> newline]
           IN  /\ piece \in Piece /\ inbound' = Append(inbound, piece)
               /\ sending' = IF newline THEN 0 ELSE sending + 1
               /\ sending + 1 \in 1..(MaxLine + 1)
               /\ poolOpen /\ UNCHANGED <<line, poolOpen, torn>>
  <1>1. PICK newline \in BOOLEAN :
          /\ inbound' = Append(inbound, [part |-> sending + 1, newline |-> newline])
          /\ sending' = IF newline THEN 0 ELSE sending + 1
    BY DEF PoolSends
  <1>2. sending + 1 \in 1..(MaxLine + 1)
    BY ConnectionAssumption DEF PoolSends, StreamTypeOK
  <1>3. poolOpen /\ UNCHANGED <<line, poolOpen, torn>>
    BY Zenon DEF PoolSends, sessionVars, history
  <1> QED
    BY <1>1, <1>2, <1>3 DEF Piece

\* The connection breaks somewhere in what is under way.
LEMMA StreamCut ==
  ASSUME PoolCloses
  PROVE  /\ \E n \in 0..Len(inbound) : inbound' = SubSeq(inbound, 1, n)
         /\ poolOpen' = FALSE /\ UNCHANGED <<line, sending, torn>>
  BY DEF PoolCloses, sessionVars, history

\* Lines and pieces, and what is counted.
LEMMA StreamTypesKept ==
  ASSUME StreamTypeOK, [Next]_vars
  PROVE  StreamTypeOK'
  <1>0. /\ line \in Seq(Piece) /\ inbound \in Seq(Piece) /\ sending \in 0..(MaxLine + 1)
        /\ out \in Nat /\ buffered \in 0..SocketRoom /\ subs \in 0..MaxQueued
        /\ SocketRoom \in Nat /\ MaxLine \in Nat /\ MaxQueued \in Nat
    BY ConnectionAssumption DEF StreamTypeOK
  <1>1. line' \in Seq(Piece) /\ inbound' \in Seq(Piece) /\ sending' \in 0..(MaxLine + 1)
    <2>1. CASE DialSucceeds \/ ClearWork \/ Cancel
      <3>1. line' = <<>> /\ inbound' = <<>> /\ sending' = 0
        BY <2>1, StreamReset
      <3>2. <<>> \in Seq(Piece)
        BY EmptySeq
      <3> QED
        BY <1>0, <3>1, <3>2
    <2>2. CASE ReadPiece
      <3>1. /\ inbound # <<>> /\ UNCHANGED sending
            /\ line' = Append(line, Head(inbound)) /\ inbound' = Tail(inbound)
        BY <2>2, PieceRead
      <3>2. Head(inbound) \in Piece /\ Tail(inbound) \in Seq(Piece)
        BY <1>0, <3>1, Taken
      <3>3. Append(line, Head(inbound)) \in Seq(Piece)
        BY <1>0, <3>2, Appended
      <3> QED
        BY <1>0, <3>1, <3>2, <3>3
    <2>3. CASE LineStep
      BY <1>0, <2>3, LineRead, Taken, EmptySeq
    <2>4. CASE PoolSends
      <3>1. PICK newline \in BOOLEAN, piece \in Piece :
              /\ inbound' = Append(inbound, piece) /\ UNCHANGED line
              /\ sending' = IF newline THEN 0 ELSE sending + 1
              /\ sending + 1 \in 1..(MaxLine + 1)
        BY <2>4, PieceSent
      <3> QED
        BY <1>0, <3>1, Appended
    <2>5. CASE PoolCloses
      BY <1>0, <2>5, StreamCut, Beginning
    <2>6. CASE ~StreamStep
      BY <1>0, <2>6, StreamAside
    <2> QED
      BY <2>1, <2>2, <2>3, <2>4, <2>5, <2>6 DEF StreamStep
  <1>2. out' \in Nat /\ buffered' \in 0..SocketRoom /\ subs' \in 0..MaxQueued
    <2>1. CASE FlushOne
      BY <1>0, <2>1 DEF FlushOne
    <2>2. CASE SubmitShare
      BY <1>0, <2>2 DEF SubmitShare, pool
    <2>3. CASE LineStep
      BY <1>0, <2>3, LineRead, LineEffect
    <2>4. CASE PoolReads
      BY <1>0, <2>4 DEF PoolReads, sessionVars
    <2>5. CASE ShareFound
      BY <1>0, <2>5 DEF ShareFound, sessionVars, pool
    <2>6. CASE DialSucceeds \/ ClearWork \/ Cancel
      <3>1. out' \in {0, 2} /\ buffered' = 0 /\ UNCHANGED subs
        BY <2>6 DEF DialSucceeds, ClearWork, Cancel, SessionDropped
      <3> QED
        BY <1>0, <3>1
    <2>7. CASE UNCHANGED <<out, buffered, subs>>
      BY <1>0, <2>7
    <2>8. CASE Top \/ Woken \/ DialFails \/ LossNoted \/ RedirectNoted
      BY <2>7, <2>8, Zenon DEF Top, Woken, DialFails, LossNoted, RedirectNoted, sessionVars, pool
    <2>9. CASE FlushFails \/ FlushDone \/ ReadPiece \/ ReadEnd \/ Deadline
      BY <2>7, <2>9, Zenon DEF FlushFails, FlushDone, ReadPiece, ReadEnd, Deadline, sessionVars, pool
    <2>10. CASE PoolSends \/ PoolCloses \/ Tick \/ UNCHANGED vars
      BY <2>7, <2>10, Zenon DEF PoolSends, PoolCloses, Tick, vars, sessionVars, pool
    <2> QED
      BY <2>1, <2>2, <2>3, <2>4, <2>5, <2>6, <2>8, <2>9, <2>10
      DEF Next, RunStep, FlushStep, ReadStep, World
  <1> QED
    BY <1>1, <1>2 DEF StreamTypeOK

\* A line that goes on: its next piece has the next number.
LEMMA StreamAfterPiece ==
  ASSUME StreamTypeOK, Stream, ReadPiece
  PROVE  Stream'
  <1> DEFINE n == Len(line)
             h == Head(inbound)
  <1>0. line \in Seq(Piece) /\ inbound \in Seq(Piece)
    BY DEF StreamTypeOK
  <1>1. /\ inbound # <<>> /\ ~inbound[1].newline
        /\ line' = Append(line, h) /\ inbound' = Tail(inbound)
        /\ UNCHANGED <<sending, poolOpen>>
    <2>1. inbound # <<>> /\ line' = Append(line, h) /\ inbound' = Tail(inbound)
          /\ UNCHANGED <<sending, poolOpen>>
      BY PieceRead
    <2>2. ~Head(inbound).newline
      BY Zenon DEF ReadPiece
    <2>3. Head(inbound) = inbound[1]
      BY <1>0, <2>1, Taken
    <2> QED
      BY <2>1, <2>2, <2>3
  <1>2. /\ h \in Piece /\ h = inbound[1] /\ Len(inbound) \in Nat \ {0}
        /\ Len(inbound') = Len(inbound) - 1
        /\ \A i \in 1..Len(inbound') : inbound'[i] = inbound[i + 1]
        /\ inbound' = <<>> <=> Len(inbound) = 1
    BY <1>0, <1>1, Taken
  <1>3. /\ n \in Nat /\ Len(line') = n + 1
        /\ \A i \in 1..n : line'[i] = line[i]
        /\ line'[n + 1] = h
    BY <1>0, <1>1, <1>2, Appended
  <1>4. h = [part |-> n + 1, newline |-> FALSE]
    <2>1. h.part = n + 1
      BY <1>1, <1>2 DEF Stream
    <2>2. h.newline = FALSE
      BY <1>1, <1>2 DEF Piece
    <2>3. h = [part |-> h.part, newline |-> h.newline]
      BY <1>2 DEF Piece
    <2> QED
      BY <2>1, <2>2, <2>3
  <1> HIDE DEF n, h
  <1>5. \A i \in 1..Len(line') : line'[i] = [part |-> i, newline |-> FALSE]
    <2>1. \A i \in 1..n : line'[i] = [part |-> i, newline |-> FALSE]
      BY <1>3 DEF Stream, n
    <2>2. \A i \in 1..Len(line') : i \in 1..n \/ i = n + 1
      BY <1>3
    <2> QED
      BY <1>3, <1>4, <2>1, <2>2
  <1>6. inbound' # <<>> => inbound'[1].part = Len(line') + 1
    <2>1. h.part = n + 1
      BY <1>4
    <2> SUFFICES ASSUME Len(inbound) # 1
                 PROVE  inbound'[1].part = n + 2
      BY <1>2, <1>3
    <2>2. 1 \in 1..(Len(inbound) - 1) /\ 1 \in 1..Len(inbound') /\ inbound'[1] = inbound[2]
      BY <1>2
    <2>3. inbound[2].part = inbound[1].part + 1
      BY <1>1, <2>2 DEF Stream
    <2> QED
      BY <1>2, <1>3, <2>1, <2>2, <2>3
  <1>7. \A i \in 1..(Len(inbound') - 1) :
          inbound'[i + 1].part = IF inbound'[i].newline THEN 1 ELSE inbound'[i].part + 1
    <2> SUFFICES ASSUME NEW i \in 1..(Len(inbound') - 1)
                 PROVE  inbound'[i + 1].part = IF inbound'[i].newline THEN 1 ELSE inbound'[i].part + 1
      OBVIOUS
    <2>1. /\ i + 1 \in 1..(Len(inbound) - 1) /\ i \in 1..Len(inbound') /\ i + 1 \in 1..Len(inbound')
          /\ inbound'[i] = inbound[i + 1] /\ inbound'[i + 1] = inbound[(i + 1) + 1]
      BY <1>2
    <2> QED
      BY <2>1 DEF Stream
  <1>8. poolOpen' /\ inbound' = <<>> => sending' = Len(line')
    <2>1. h.part = n + 1
      BY <1>4
    <2> QED
      BY <1>1, <1>2, <1>3, <2>1 DEF Stream
  <1>9. poolOpen' /\ inbound' # <<>> =>
          sending' = IF inbound'[Len(inbound')].newline THEN 0 ELSE inbound'[Len(inbound')].part
    <2> SUFFICES ASSUME poolOpen', inbound' # <<>>
                 PROVE  sending' = IF inbound'[Len(inbound')].newline THEN 0
                                   ELSE inbound'[Len(inbound')].part
      OBVIOUS
    <2>1. Len(inbound') \in 1..Len(inbound') /\ inbound'[Len(inbound')] = inbound[Len(inbound)]
      BY <1>2
    <2> QED
      BY <1>1, <2>1 DEF Stream
  <1> QED
    BY <1>5, <1>6, <1>7, <1>8, <1>9 DEF Stream

\* A line that ends was sent so, and the next one starts from its first piece.
LEMMA StreamAfterLine ==
  ASSUME StreamTypeOK, Stream, LineStep
  PROVE  Stream' /\ ~torn'
  <1> DEFINE n == Len(line)
             h == Head(inbound)
             l == Append(line, h)
  <1>0. line \in Seq(Piece) /\ inbound \in Seq(Piece)
    BY DEF StreamTypeOK
  <1>1. /\ inbound # <<>> /\ h.newline /\ line' = <<>> /\ inbound' = Tail(inbound)
        /\ torn' = ~Whole(l) /\ UNCHANGED <<sending, poolOpen>>
    BY LineRead
  <1>2. /\ h \in Piece /\ h = inbound[1] /\ Len(inbound) \in Nat \ {0}
        /\ Len(inbound') = Len(inbound) - 1
        /\ \A i \in 1..Len(inbound') : inbound'[i] = inbound[i + 1]
        /\ inbound' = <<>> <=> Len(inbound) = 1
    BY <1>0, <1>1, Taken
  <1>3. /\ n \in Nat /\ Len(l) = n + 1 /\ l \in Seq(Piece)
        /\ \A i \in 1..n : l[i] = line[i]
        /\ l[n + 1] = h
    BY <1>0, <1>2, Appended
  <1>4. h = [part |-> n + 1, newline |-> TRUE]
    <2>1. h.part = n + 1
      BY <1>1, <1>2 DEF Stream
    <2>2. h.newline = TRUE
      BY <1>1, <1>2 DEF Piece
    <2>3. h = [part |-> h.part, newline |-> h.newline]
      BY <1>2 DEF Piece
    <2> QED
      BY <2>1, <2>2, <2>3
  <1> HIDE DEF n, h, l
  <1>5. ~torn'
    <2>1. DOMAIN l = 1..(n + 1)
      BY <1>3, LenProperties
    <2>2. ASSUME NEW i \in 1..(n + 1)
          PROVE  l[i] = [part |-> i, newline |-> i = Len(l)]
      <3>1. CASE i = n + 1
        <4>1. (i = Len(l)) = TRUE
          BY <1>3, <3>1
        <4>2. l[i] = [part |-> i, newline |-> TRUE]
          BY <1>3, <1>4, <3>1
        <4> QED
          BY <4>1, <4>2
      <3>2. CASE i # n + 1
        <4>1. i # Len(l) /\ i \in 1..n
          BY <1>3, <3>2
        <4>2. (i = Len(l)) = FALSE
          BY <4>1
        <4>3. l[i] = [part |-> i, newline |-> FALSE]
          BY <1>3, <4>1 DEF Stream, n
        <4> QED
          BY <4>2, <4>3
      <3> QED
        BY <3>1, <3>2
    <2> QED
      BY <1>1, <2>1, <2>2 DEF Whole
  <1>6. Len(line') = 0
    BY <1>1, EmptySeq
  <1>7. inbound' # <<>> => inbound'[1].part = Len(line') + 1
    <2> SUFFICES ASSUME Len(inbound) # 1
                 PROVE  inbound'[1].part = 1
      BY <1>2, <1>6
    <2>2. 1 \in 1..(Len(inbound) - 1) /\ 1 \in 1..Len(inbound') /\ inbound'[1] = inbound[2]
      BY <1>2
    <2>3. inbound[2].part = 1
      BY <1>1, <1>2, <2>2 DEF Stream
    <2> QED
      BY <2>2, <2>3
  <1>8. \A i \in 1..(Len(inbound') - 1) :
          inbound'[i + 1].part = IF inbound'[i].newline THEN 1 ELSE inbound'[i].part + 1
    <2> SUFFICES ASSUME NEW i \in 1..(Len(inbound') - 1)
                 PROVE  inbound'[i + 1].part = IF inbound'[i].newline THEN 1 ELSE inbound'[i].part + 1
      OBVIOUS
    <2>1. /\ i + 1 \in 1..(Len(inbound) - 1) /\ i \in 1..Len(inbound') /\ i + 1 \in 1..Len(inbound')
          /\ inbound'[i] = inbound[i + 1] /\ inbound'[i + 1] = inbound[(i + 1) + 1]
      BY <1>2
    <2> QED
      BY <2>1 DEF Stream
  <1>9. poolOpen' /\ inbound' = <<>> => sending' = Len(line')
    BY <1>1, <1>2, <1>6 DEF Stream
  <1>10. poolOpen' /\ inbound' # <<>> =>
           sending' = IF inbound'[Len(inbound')].newline THEN 0 ELSE inbound'[Len(inbound')].part
    <2> SUFFICES ASSUME poolOpen', inbound' # <<>>
                 PROVE  sending' = IF inbound'[Len(inbound')].newline THEN 0
                                   ELSE inbound'[Len(inbound')].part
      OBVIOUS
    <2>1. Len(inbound') \in 1..Len(inbound') /\ inbound'[Len(inbound')] = inbound[Len(inbound)]
      BY <1>2
    <2> QED
      BY <1>1, <2>1 DEF Stream
  <1>11. \A i \in 1..Len(line') : line'[i] = [part |-> i, newline |-> FALSE]
    BY <1>6
  <1> QED
    BY <1>5, <1>7, <1>8, <1>9, <1>10, <1>11 DEF Stream

\* The pool goes on where it was.
LEMMA StreamAfterSend ==
  ASSUME StreamTypeOK, Stream, PoolSends
  PROVE  Stream'
  <1>1. PICK newline \in BOOLEAN, piece \in Piece :
          /\ piece = [part |-> sending + 1, newline |-> newline]
          /\ inbound' = Append(inbound, piece)
          /\ sending' = IF newline THEN 0 ELSE sending + 1
          /\ poolOpen /\ UNCHANGED <<line, poolOpen>>
    BY PieceSent
  <1> DEFINE k == Len(inbound)
  <1>2. /\ inbound \in Seq(Piece) /\ k \in Nat /\ Len(inbound') = k + 1
        /\ \A i \in 1..k : inbound'[i] = inbound[i]
        /\ inbound'[k + 1] = piece /\ inbound' # <<>>
        /\ inbound = <<>> <=> k = 0
    <2>1. inbound \in Seq(Piece) /\ (inbound = <<>> <=> k = 0)
      BY EmptySeq DEF StreamTypeOK
    <2> QED
      BY <1>1, <2>1, Appended
  <1>3. piece.part = sending + 1 /\ (piece.newline <=> newline)
    BY <1>1
  <1> HIDE DEF k
  <1>4. inbound'[1].part = Len(line') + 1
    <2>1. CASE k = 0
      BY <1>1, <1>2, <1>3, <2>1 DEF Stream
    <2>2. CASE k # 0
      BY <1>1, <1>2, <2>2 DEF Stream
    <2> QED
      BY <2>1, <2>2
  <1>5. \A i \in 1..(Len(inbound') - 1) :
          inbound'[i + 1].part = IF inbound'[i].newline THEN 1 ELSE inbound'[i].part + 1
    <2> SUFFICES ASSUME NEW i \in 1..k
                 PROVE  inbound'[i + 1].part = IF inbound'[i].newline THEN 1 ELSE inbound'[i].part + 1
      BY <1>2
    <2>1. CASE i = k
      <3>1. inbound'[k] = inbound[k] /\ inbound # <<>>
        BY <1>2, <2>1
      <3>2. sending = IF inbound[k].newline THEN 0 ELSE inbound[k].part
        BY <1>1, <3>1 DEF Stream, k
      <3>3. inbound'[k + 1].part = sending + 1
        BY <1>2, <1>3
      <3> QED
        BY <2>1, <3>1, <3>2, <3>3
    <2>2. CASE i # k
      <3>1. i \in 1..(k - 1) /\ i + 1 \in 1..k
        BY <1>2, <2>2
      <3>2. inbound'[i] = inbound[i] /\ inbound'[i + 1] = inbound[i + 1]
        BY <1>2, <3>1
      <3> QED
        BY <3>1, <3>2 DEF Stream, k
    <2> QED
      BY <2>1, <2>2
  <1>6. sending' = IF inbound'[Len(inbound')].newline THEN 0 ELSE inbound'[Len(inbound')].part
    BY <1>1, <1>2, <1>3
  <1>7. \A i \in 1..Len(line') : line'[i] = [part |-> i, newline |-> FALSE]
    BY <1>1 DEF Stream
  <1> QED
    BY <1>2, <1>4, <1>5, <1>6, <1>7 DEF Stream

\* What is left of a broken connection is the beginning of what was sent.
LEMMA StreamAfterCut ==
  ASSUME StreamTypeOK, Stream, PoolCloses
  PROVE  Stream'
  <1>1. PICK n \in 0..Len(inbound) : inbound' = SubSeq(inbound, 1, n)
    BY StreamCut
  <1>2. ~poolOpen' /\ UNCHANGED line
    BY StreamCut
  <1>3. inbound \in Seq(Piece) /\ Len(inbound) \in Nat
    BY LenProperties DEF StreamTypeOK
  <1>4. /\ Len(inbound') = n /\ \A i \in 1..n : inbound'[i] = inbound[i]
        /\ inbound' = <<>> <=> n = 0
        /\ inbound = <<>> <=> Len(inbound) = 0
    <2>1. inbound' \in Seq(Piece) /\ Len(inbound') = n /\ \A i \in 1..n : inbound'[i] = inbound[i]
      BY <1>1, <1>3, Beginning
    <2> QED
      BY <1>3, <2>1, EmptySeq
  <1>5. inbound' # <<>> => inbound'[1].part = Len(line') + 1
    <2> SUFFICES ASSUME n # 0
                 PROVE  inbound'[1].part = Len(line') + 1
      BY <1>4
    <2>1. 1 \in 1..n /\ Len(inbound) # 0
      BY <1>1, <1>3
    <2> QED
      BY <1>2, <1>4, <2>1 DEF Stream
  <1>6. \A i \in 1..(Len(inbound') - 1) :
          inbound'[i + 1].part = IF inbound'[i].newline THEN 1 ELSE inbound'[i].part + 1
    <2> SUFFICES ASSUME NEW i \in 1..(n - 1)
                 PROVE  inbound'[i + 1].part = IF inbound'[i].newline THEN 1 ELSE inbound'[i].part + 1
      BY <1>4
    <2>1. i \in 1..(Len(inbound) - 1) /\ i \in 1..n /\ i + 1 \in 1..n
      BY <1>1, <1>3
    <2>2. inbound'[i] = inbound[i] /\ inbound'[i + 1] = inbound[i + 1]
      BY <1>4, <2>1
    <2> QED
      BY <2>1, <2>2 DEF Stream
  <1>7. \A i \in 1..Len(line') : line'[i] = [part |-> i, newline |-> FALSE]
    BY <1>2 DEF Stream
  <1> QED
    BY <1>2, <1>5, <1>6, <1>7 DEF Stream

\* The stream stays one, and every line is handled as it was sent.
LEMMA StreamKept ==
  ASSUME StreamTypeOK, Stream, ~torn, [Next]_vars
  PROVE  Stream' /\ ~torn'
  <1>1. CASE DialSucceeds \/ ClearWork \/ Cancel
    <2>1. line' = <<>> /\ inbound' = <<>> /\ sending' = 0 /\ UNCHANGED torn
      BY <1>1, StreamReset
    <2>2. Len(line') = 0 /\ Len(inbound') = 0
      BY <2>1, EmptySeq
    <2> QED
      BY <2>1, <2>2 DEF Stream
  <1>2. CASE ReadPiece
    BY <1>2, StreamAfterPiece, PieceRead
  <1>3. CASE LineStep
    BY <1>3, StreamAfterLine
  <1>4. CASE PoolSends
    <2>1. UNCHANGED torn
      BY <1>4, Zenon DEF PoolSends, history
    <2> QED
      BY <1>4, <2>1, StreamAfterSend
  <1>5. CASE PoolCloses
    BY <1>5, StreamAfterCut, StreamCut
  <1>6. CASE ~StreamStep
    <2>1. UNCHANGED <<line, inbound, sending, poolOpen, torn>>
      BY <1>6, StreamAside
    <2> QED
      BY <2>1 DEF Stream
  <1> QED
    BY <1>1, <1>2, <1>3, <1>4, <1>5, <1>6 DEF StreamStep

-----------------------------------------------------------------------------
(* The pool's site, what is shown, and the waits.                           *)

\* A redirect is followed within the site only.
LEMMA SameSiteKept ==
  ASSUME SameSite, [Next]_vars
  PROVE  SameSite'
  <1> USE DEF SameSite
  <1>1. CASE RedirectNoted
    BY <1>1 DEF RedirectNoted
  <1>2. CASE LineStep
    <2>1. \/ end' \in {end, Lost}
          \/ Site[end'.to.host] = Site[Home.host]
      BY <1>2, LineEffect
    <2>2. UNCHANGED endpoint
      BY <1>2, LineEffect DEF ReadLine, runVars
    <2> QED
      BY <2>1, <2>2
  <1>3. ASSUME UNCHANGED endpoint, end' \in {end, Lost}
        PROVE  SameSite'
    BY <1>3
  <1>4. CASE Top \/ Woken \/ DialFails \/ DialSucceeds \/ ClearWork \/ LossNoted
    <2>1. UNCHANGED endpoint /\ end' \in {end, Lost}
      BY <1>4 DEF Top, Woken, DialFails, DialSucceeds, ClearWork, LossNoted, runVars
    <2> QED
      BY <1>3, <2>1
  <1>5. CASE FlushStep
    <2>1. UNCHANGED endpoint /\ end' \in {end, Lost}
      BY <1>5 DEF FlushStep, FlushOne, FlushFails, FlushDone, runVars
    <2> QED
      BY <1>3, <2>1
  <1>6. CASE ReadPiece \/ ReadEnd \/ SubmitShare \/ Deadline
    <2>1. UNCHANGED endpoint /\ end' \in {end, Lost}
      BY <1>6 DEF ReadPiece, ReadEnd, SubmitShare, Deadline, runVars
    <2> QED
      BY <1>3, <2>1
  <1>7. CASE World
    <2>1. UNCHANGED <<endpoint, end>>
      BY <1>7 DEF World, PoolSends, PoolReads, PoolCloses, ShareFound, Cancel, runVars
    <2> QED
      BY <1>3, <2>1
  <1>8. CASE Tick \/ UNCHANGED vars
    BY <1>3, <1>8 DEF Tick, vars, runVars
  <1> QED
    BY <1>1, <1>2, <1>4, <1>5, <1>6, <1>7, <1>8 DEF Next, RunStep, ReadStep

\* What is shown follows the session: connected while there is one, mining only
\* in one, nothing of it when the client dials again.
LEMMA ClaimsKept ==
  ASSUME Claims, [Next]_vars
  PROVE  Claims'
  <1> USE DEF Claims, Open
  <1>1. CASE Top
    BY <1>1 DEF Top, Shown
  <1>2. CASE Woken
    BY <1>2 DEF Woken, shown
  <1>3. CASE DialFails
    BY <1>3 DEF DialFails, shown
  <1>4. CASE DialSucceeds
    <2>1. /\ phase = "dial" /\ phase' = "flush" /\ UNCHANGED <<cell, failed, status>>
          /\ failed => UNCHANGED connected
      BY <1>4, Zenon DEF DialSucceeds, Shown
    <2> QED
      BY <2>1
  <1>5. CASE ClearWork
    <2>1. /\ phase = "ended" /\ phase' = "cleared" /\ cell' = FALSE
          /\ UNCHANGED <<status, connected, failed>>
      BY <1>5, Zenon DEF ClearWork
    <2> QED
      BY <2>1
  <1>6. CASE LossNoted \/ RedirectNoted
    <2>1. /\ phase = "cleared" /\ phase' = "top" /\ UNCHANGED <<cell, failed>>
          /\ failed => UNCHANGED <<status, connected>>
          /\ ~failed => connected' = FALSE
      BY <1>6, Zenon DEF LossNoted, RedirectNoted, Disconnected, Shown
    <2> QED
      BY <2>1
  <1>7. CASE FlushStep
    <2>1. phase \in {"flush", "lastFlush"} /\ phase' \in {phase, "select", "ended"}
      BY <1>7 DEF FlushStep, FlushOne, FlushFails, FlushDone
    <2>2. UNCHANGED <<status, connected, cell, failed>>
      BY <1>7, Zenon DEF FlushStep, FlushOne, FlushFails, FlushDone, shown
    <2> QED
      BY <2>1, <2>2
  <1>8. CASE LineStep
    <2>1. phase = "select" /\ phase' \in {"flush", "lastFlush"} /\ ShowsOfLine
      BY <1>8, LineEffect DEF ReadLine
    <2>2. CASE UNCHANGED shown
      BY <2>1, <2>2 DEF shown
    <2>3. CASE ~UNCHANGED shown
      BY <2>1, <2>3 DEF ShowsOfLine
    <2> QED
      BY <2>2, <2>3
  <1>9. CASE ReadPiece \/ ReadEnd \/ SubmitShare \/ Deadline
    <2>1. phase = "select" /\ phase' \in {"select", "flush", "ended"}
      BY <1>9 DEF ReadPiece, ReadEnd, SubmitShare, Deadline, AwaitsDeadline
    <2>2. UNCHANGED <<status, connected, cell, failed>>
      BY <1>9, Zenon DEF ReadPiece, ReadEnd, SubmitShare, Deadline, shown
    <2> QED
      BY <2>1, <2>2
  <1>10. CASE Cancel
    <2>1. phase' = "gone" /\ cell' = FALSE /\ UNCHANGED <<status, connected, failed>>
      BY <1>10, Zenon DEF Cancel
    <2> QED
      BY <2>1
  <1>11. CASE PoolSends \/ PoolReads \/ PoolCloses \/ ShareFound \/ Tick \/ UNCHANGED vars
    <2>1. UNCHANGED <<phase, status, connected, cell, failed>>
      BY <1>11, Zenon DEF PoolSends, PoolReads, PoolCloses, ShareFound, Tick, vars, shown
    <2> QED
      BY <2>1
  <1> QED
    BY <1>1, <1>2, <1>3, <1>4, <1>5, <1>6, <1>7, <1>8, <1>9, <1>10, <1>11
    DEF Next, RunStep, ReadStep, World

\* Two numbers and a limit: what is doubled under the limit has been doubled.
LEMMA DoubledUnderLimit ==
  ASSUME NEW b \in Nat, NEW x \in Nat, NEW m \in Nat
  PROVE  /\ b >= x => AtMost(2 * b, m) >= AtMost(2 * x, m)
         /\ b >= AtMost(x, m) => AtMost(2 * b, m) >= AtMost(2 * x, m)
         /\ b >= AtMost(x, m) => AtMost(2 * b, m) >= AtMost(x, m)
  BY DEF AtMost

\* A loss without work doubles what is owed, as long as the history counts.
LEMMA FruitlessLoss ==
  ASSUME RunTypeOK, WaitsTypeOK, backoff >= Owed, LossNoted, ~hadWork
  PROVE  backoff' >= Owed'
  <1>0. /\ backoff \in Nat /\ base \in Nat /\ MaxBackoff \in Nat
        /\ fruitless \in 0..MaxFruitless /\ MaxFruitless \in Nat \ {0}
    BY ConnectionAssumption DEF WaitsTypeOK
  <1>1. /\ backoff' = AtMost(2 * backoff, MaxBackoff)
        /\ fruitless' = AtMost(fruitless + 1, MaxFruitless) /\ base' = base
    BY DEF LossNoted, NextBackoff
  <1>2. CASE fruitless = 0
    <2>1. fruitless' = 1 /\ backoff >= base
      BY <1>0, <1>1, <1>2 DEF AtMost, Owed
    <2>2. 2 ^ 1 = 2
      <3>1. 2 ^ 0 = 1 /\ 2 ^ (0 + 1) = 2 * 2 ^ 0
        BY PowerOfTwo
      <3> QED
        BY <3>1
    <2>3. Owed' = AtMost(2 * base, MaxBackoff)
      <3>1. 2 ^ fruitless' = 2
        BY <2>1, <2>2
      <3>2. base' * 2 ^ fruitless' = 2 * base
        BY <1>0, <1>1, <3>1
      <3>3. Owed' = AtMost(base' * 2 ^ fruitless', MaxBackoff)
        BY <2>1 DEF Owed
      <3> QED
        BY <3>2, <3>3
    <2> QED
      BY <1>0, <1>1, <2>1, <2>3, DoubledUnderLimit
  <1>3. CASE fruitless # 0
    <2> DEFINE x == base * 2 ^ fruitless
    <2>1. 2 ^ fruitless \in Nat /\ 2 ^ (fruitless + 1) = 2 * 2 ^ fruitless
      BY <1>0, PowerOfTwo
    <2>2. x \in Nat /\ base * 2 ^ (fruitless + 1) = 2 * x
      <3>1. PICK p \in Nat : p = 2 ^ fruitless
        BY <2>1
      <3>2. base * p \in Nat /\ base * (2 * p) = 2 * (base * p)
        BY <1>0
      <3> QED
        BY <2>1, <3>1, <3>2
    <2>3. backoff >= AtMost(x, MaxBackoff)
      BY <1>3 DEF Owed
    <2>4. CASE fruitless < MaxFruitless
      <3>1. fruitless' = fruitless + 1 /\ fruitless' # 0
        BY <1>0, <1>1, <2>4 DEF AtMost
      <3>2. Owed' = AtMost(2 * x, MaxBackoff)
        BY <1>1, <2>2, <3>1 DEF Owed
      <3> HIDE DEF x
      <3> QED
        BY <1>0, <1>1, <2>2, <2>3, <3>2, DoubledUnderLimit
    <2>5. CASE fruitless = MaxFruitless
      <3>1. fruitless' = fruitless
        BY <1>0, <1>1, <2>5 DEF AtMost
      <3>2. Owed' = AtMost(x, MaxBackoff)
        BY <1>1, <1>3, <3>1 DEF Owed
      <3> HIDE DEF x
      <3> QED
        BY <1>0, <1>1, <2>2, <2>3, <3>2, DoubledUnderLimit
    <2> QED
      BY <1>0, <2>4, <2>5
  <1> QED
    BY <1>2, <1>3

\* The back-off is never less than what is owed.
LEMMA OwedKept ==
  ASSUME FlagsTypeOK, RunTypeOK, WaitsTypeOK, backoff >= Owed, [Next]_vars
  PROVE  backoff' >= Owed'
  <1>1. CASE LossNoted
    <2>1. CASE hadWork
      <3>1. backoff' = FirstWait /\ fruitless' = 0 /\ base' = FirstWait
        BY <1>1, <2>1 DEF LossNoted, NextBackoff
      <3> QED
        BY <3>1, ConnectionAssumption DEF Owed
    <2>2. CASE ~hadWork
      BY <1>1, <2>2, FruitlessLoss
    <2> QED
      BY <2>1, <2>2
  <1>2. CASE RedirectNoted
    <2>1. backoff' = base' /\ fruitless' = 0
      BY <1>2 DEF RedirectNoted
    <2>2. backoff' \in Nat
      <3>1. WaitsTypeOK'
        BY WaitsKept
      <3> QED
        BY <3>1, ConnectionAssumption DEF WaitsTypeOK
    <2> QED
      BY <2>1, <2>2 DEF Owed
  <1>3. ASSUME UNCHANGED <<backoff, fruitless, base>>
        PROVE  backoff' >= Owed'
    BY <1>3 DEF Owed
  <1>4. CASE Top \/ Woken \/ DialFails \/ DialSucceeds \/ ClearWork \/ FlushStep
    <2>1. UNCHANGED <<backoff, fruitless, base>>
      BY <1>4, Zenon DEF Top, Woken, DialFails, DialSucceeds, ClearWork, FlushStep, FlushOne,
                         FlushFails, FlushDone, runVars, history
    <2> QED
      BY <1>3, <2>1
  <1>5. CASE LineStep
    BY <1>3, <1>5, LineEffect DEF ReadLine, runVars
  <1>6. CASE ReadPiece \/ ReadEnd \/ SubmitShare \/ Deadline
    <2>1. UNCHANGED <<backoff, fruitless, base>>
      BY <1>6, Zenon DEF ReadPiece, ReadEnd, SubmitShare, Deadline, runVars, history
    <2> QED
      BY <1>3, <2>1
  <1>7. CASE World \/ Tick \/ UNCHANGED vars
    <2>1. UNCHANGED <<backoff, fruitless, base>>
      BY <1>7, Zenon DEF World, PoolSends, PoolReads, PoolCloses, ShareFound, Cancel, Tick, vars,
                         runVars, history
    <2> QED
      BY <1>3, <2>1
  <1> QED
    BY <1>1, <1>2, <1>4, <1>5, <1>6, <1>7 DEF Next, RunStep, ReadStep

-----------------------------------------------------------------------------
(* The theorems.                                                            *)

\* The invariant holds at first.
LEMMA IndInit == Init => IndInv
  <1> SUFFICES ASSUME Init
               PROVE  IndInv
    OBVIOUS
  <1>1. FlagsTypeOK
    BY DEF Init, FlagsTypeOK
  <1>2. RunTypeOK
    BY ConnectionAssumption DEF Init, RunTypeOK, Phases
  <1>3. WaitsTypeOK
    BY ConnectionAssumption DEF Init, WaitsTypeOK
  <1>4. StreamTypeOK
    <2>1. <<>> \in Seq(Piece)
      BY EmptySeq
    <2> QED
      BY <2>1, ConnectionAssumption DEF Init, StreamTypeOK
  <1>5. SameSite
    BY DEF Init, SameSite
  <1>6. Stream
    <2>1. Len(line) = 0 /\ Len(inbound) = 0 /\ line = <<>> /\ inbound = <<>> /\ ~poolOpen
      BY EmptySeq DEF Init
    <2> QED
      BY <2>1 DEF Stream
  <1>7. ~torn /\ Claims
    BY DEF Init, Claims
  <1>8. backoff >= Owed
    BY ConnectionAssumption DEF Init, Owed
  <1> QED
    BY <1>1, <1>2, <1>3, <1>4, <1>5, <1>6, <1>7, <1>8 DEF IndInv, TypeOK

\* Every step keeps it.
LEMMA IndKept == IndInv /\ [Next]_vars => IndInv'
  BY FlagsKept, RunKept, WaitsKept, StreamTypesKept, SameSiteKept, StreamKept, ClaimsKept, OwedKept
  DEF IndInv, TypeOK

\* The inductive invariant is one.
THEOREM Inductive == Spec => []IndInv
  BY IndInit, IndKept, PTL DEF Spec

\* Every variable keeps its type: the socket, the queue and the line stay within
\* their limits, and the back-off is one of the waits that the code knows.
THEOREM TypeCorrect == Spec => []TypeOK
  <1>1. IndInv => TypeOK
    BY DEF IndInv
  <1> QED
    BY <1>1, Inductive, PTL

\* Whatever the pool sends, the client dials its site only.
THEOREM AtTheSite == Spec => []StaysAtSite
  <1>1. IndInv => StaysAtSite
    BY DEF IndInv, SameSite, StaysAtSite
  <1> QED
    BY <1>1, Inductive, PTL

\* A line is handled as it was sent, through every interruption of select!.
THEOREM LinesAreWhole == Spec => []WholeLines
  <1>1. IndInv => WholeLines
    BY DEF IndInv, WholeLines
  <1> QED
    BY <1>1, Inductive, PTL

\* Between sessions nothing is hashed, and none is shown.
THEOREM NothingLeftOver == Spec => []NothingOfALostSession
  <1>1. IndInv => NothingOfALostSession
    BY DEF IndInv, Claims, Open, NothingOfALostSession
  <1> QED
    BY <1>1, Inductive, PTL

\* The next dial comes only after the wait that is owed.
THEOREM Patient == Spec => DeadPoolNotHammered
  <1>1. ASSUME IndInv, Next, phase = "sleep", phase' = "dial"
        PROVE  clock >= Owed
    <2>1. CASE Woken
      <3>1. clock >= backoff /\ backoff >= Owed
        BY <1>1, <2>1 DEF Woken, IndInv
      <3>2. clock \in Nat /\ backoff \in Nat /\ Owed \in Nat
        <4>1. /\ base \in Nat /\ fruitless \in Nat /\ MaxBackoff \in Nat
              /\ clock \in Nat /\ backoff \in Nat
          BY <1>1, ConnectionAssumption DEF IndInv, TypeOK, WaitsTypeOK
        <4>2. PICK p \in Nat : p = 2 ^ fruitless
          BY <4>1, PowerOfTwo
        <4>3. base * p \in Nat
          BY <4>1
        <4> QED
          BY <4>1, <4>2, <4>3 DEF Owed, AtMost
      <3> QED
        BY <3>1, <3>2
    <2>2. CASE ~Woken
      <3>1. ~LineStep
        BY <1>1, LineEffect DEF ReadLine
      <3> QED
        BY <1>1, <2>2, <3>1, Zenon
        DEF Next, RunStep, FlushStep, ReadStep, World, Top, DialFails, DialSucceeds, ClearWork,
            LossNoted, RedirectNoted, FlushOne, FlushFails, FlushDone, ReadPiece, ReadEnd,
            SubmitShare, Deadline, PoolSends, PoolReads, PoolCloses, ShareFound, Cancel, Tick
    <2> QED
      BY <2>1, <2>2
  <1>2. ASSUME IndInv, [Next]_vars
        PROVE  [phase = "sleep" /\ phase' = "dial" =>
                 clock >= IF fruitless = 0 THEN base
                          ELSE AtMost(base * 2 ^ fruitless, MaxBackoff)]_vars
    BY <1>1, <1>2 DEF Owed
  <1> QED
    BY <1>2, Inductive, PTL DEF Spec, DeadPoolNotHammered
=============================================================================
