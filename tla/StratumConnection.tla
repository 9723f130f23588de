------------------------- MODULE StratumConnection -------------------------
(***************************************************************************)
(* The connection loop of the Stratum client (stratum/client.rs): dialling *)
(* with back-off, one session at a time, and the ways a session ends.      *)
(*                                                                         *)
(* A session alternates between writing what it has to say (flush, awaited *)
(* alone) and a select! over a line of the pool, a share to submit and the *)
(* inactivity deadline.  Lines arrive in pieces; a piece without newline   *)
(* stays in `line' when another branch wins.  The pool may do anything:    *)
(* refuse, close, fall silent, stop reading, send rubbish, or ask us to    *)
(* connect elsewhere.  What a share or a job contains is left to           *)
(* StratumShares; here a job is only "work".                               *)
(*                                                                         *)
(* Time is counted in ticks.  FirstWait ticks are the second that back-off *)
(* starts from, ShortWait ticks the least wait after a redirect.           *)
(***************************************************************************)
EXTENDS Naturals, Sequences, SequencesExt

CONSTANTS
    Hosts, Ports,       \* what an endpoint can be made of
    Site,               \* host -> its last two labels, or the address itself
    Home,               \* the endpoint of the configured URL
    FirstWait, MaxBackoff, ShortWait, RedirectWaits, \* back-off, in ticks
    ConnectTimeout, Inactivity,  \* in ticks
    MaxLine,            \* pieces a line may have and no newline yet
    SocketRoom,         \* messages the socket takes from us before the pool reads
    MaxInbound, MaxQueued, MaxFruitless  \* bounds: pieces under way, queued shares, history

Endpoint == [host : Hosts, port : Ports]
NoHost == "none" \* a redirect that names no host; port 0 is none either
NoPort == 0

ASSUME ConnectionAssumption ==
    /\ Site \in [Hosts -> Hosts] /\ Home \in Endpoint /\ NoHost \notin Hosts /\ Ports \subseteq Nat \ {NoPort}
    /\ FirstWait \in Nat \ {0} /\ ShortWait \in Nat \ {0} /\ MaxBackoff \in Nat
    /\ FirstWait <= MaxBackoff
    /\ RedirectWaits \subseteq Nat
    /\ ConnectTimeout \in Nat /\ Inactivity \in Nat \ {0}
    /\ MaxLine \in Nat \ {0} /\ SocketRoom \in Nat \ {0}
    /\ MaxInbound \in Nat /\ MaxQueued \in Nat /\ MaxFruitless \in Nat \ {0}

VARIABLES
    phase,      \* where the task is: see Phases
    endpoint, backoff, attempts,  \* locals of run; attempts only as "any yet"
    clock,      \* ticks waited: in the sleep, for the dial, since the last line
    end,        \* how the session ended
    asked,      \* subscribe awaits its answer
    hadWork, e1, notify,  \* of the session
    line,       \* pieces of the line being read
    out,        \* messages pushed, not yet given to the socket
    \* Environment
    inbound,    \* pieces the pool has sent
    sending,    \* pieces of the message the pool is in the middle of
    buffered,   \* messages of ours the pool has not read
    poolOpen,
    subs,       \* shares in the submission queue
    \* Snapshot and cell
    status, connected, cell,
    failed,     \* RunCtx::fail was called: the run is not current any more
    \* History
    torn,       \* the last line handled was not one that the pool sent
    fruitless, base \* losses without work since `base' was made the back-off

runVars == <<endpoint, backoff, attempts>>
sessionVars == <<asked, hadWork, e1, notify, line, out>>
pool == <<inbound, sending, buffered, poolOpen>>
shown == <<status, connected, cell, failed>>
history == <<torn, fruitless, base>>
vars == <<phase, runVars, clock, end, sessionVars, pool, subs, shown, history>>

Phases == {"top", "sleep", "dial", "flush", "select", "lastFlush", "ended", "cleared", "gone"}
Open == phase \in {"flush", "select", "lastFlush"}

Lost == [kind |-> "lost"]
Redirect == [kind : {"redirect"}, to : Endpoint, wait : RedirectWaits]

Init ==
    /\ phase = "top" /\ clock = 0 /\ end = Lost
    /\ endpoint = Home /\ backoff = FirstWait /\ attempts = FALSE
    /\ asked = FALSE /\ hadWork = FALSE /\ e1 = FALSE /\ notify = FALSE
    /\ line = <<>> /\ out = 0
    /\ inbound = <<>> /\ sending = 0 /\ buffered = 0 /\ poolOpen = FALSE
    /\ subs = 0
    /\ status = "Connecting" /\ connected = FALSE /\ cell = FALSE /\ failed = FALSE
    /\ torn = FALSE /\ fruitless = 0 /\ base = FirstWait

\* RunCtx::update: what a run that is over writes is dropped.
Shown(newStatus, newConnected) ==
    IF failed THEN UNCHANGED <<status, connected>>
    ELSE status' = newStatus /\ connected' = newConnected

-----------------------------------------------------------------------------
(* run: the loop around the sessions. *)

\* The top of the loop: the first attempt goes at once, every other one waits.
Top ==
    /\ phase = "top"
    /\ phase' = IF attempts THEN "sleep" ELSE "dial"
    /\ Shown(IF attempts THEN "Reconnecting" ELSE "Connecting", connected)
    /\ attempts' = TRUE /\ clock' = 0
    /\ UNCHANGED <<endpoint, backoff, end, sessionVars, pool, subs, cell, failed, history>>

Woken ==
    /\ phase = "sleep" /\ clock >= backoff
    /\ phase' = "dial" /\ clock' = 0
    /\ UNCHANGED <<runVars, end, sessionVars, pool, subs, shown, history>>

\* net::connect fails, at the latest when its timeout is over.  (The code
\* allows the timeout once for TCP and once more for TLS; ConnectTimeout is both.)
DialFails ==
    /\ phase = "dial"
    /\ phase' = "ended" /\ end' = Lost /\ hadWork' = FALSE
    /\ UNCHANGED <<runVars, clock, asked, e1, notify, line, out, pool, subs, shown, history>>

\* session(): a new connection, with subscribe and authorize to be sent.
DialSucceeds ==
    /\ phase = "dial" /\ clock <= ConnectTimeout
    /\ phase' = "flush" /\ clock' = 0
    /\ asked' = TRUE /\ hadWork' = FALSE /\ e1' = FALSE /\ notify' = FALSE
    /\ line' = <<>> /\ out' = 2
    /\ inbound' = <<>> /\ sending' = 0 /\ buffered' = 0 /\ poolOpen' = TRUE
    /\ Shown(status, TRUE)
    /\ UNCHANGED <<runVars, end, subs, cell, failed, history>>

SessionDropped ==
    /\ asked' = FALSE /\ e1' = FALSE /\ notify' = FALSE /\ line' = <<>> /\ out' = 0
    /\ inbound' = <<>> /\ sending' = 0 /\ buffered' = 0 /\ poolOpen' = FALSE

\* clear_work, before anything tells of the loss.  The socket and the other
\* locals are gone with the session.
ClearWork ==
    /\ phase = "ended"
    /\ phase' = "cleared" /\ cell' = FALSE
    /\ SessionDropped
    /\ UNCHANGED <<runVars, clock, end, hadWork, subs, status, connected, failed, history>>

\* Mutant: the redirect branch forgets the flag that the loss branch clears.
StillShown == UNCHANGED <<status, connected>>

Disconnected == Shown(status, FALSE)

AtMost(a, b) == IF a < b THEN a ELSE b
AtLeast(a, b) == IF a > b THEN a ELSE b

\* Mutant: back-off without its cap.
UncappedBackoff(wait, worked, wasConnected) == IF worked THEN FirstWait ELSE 2 * wait

\* Mutant: a connection that was made counts as one that worked.
ConnectedNextBackoff(wait, worked, wasConnected) ==
    IF worked \/ wasConnected THEN FirstWait ELSE AtMost(2 * wait, MaxBackoff)

NextBackoff(wait, worked, wasConnected) ==
    IF worked THEN FirstWait ELSE AtMost(2 * wait, MaxBackoff)

LossNoted ==
    /\ phase = "cleared" /\ end = Lost
    /\ backoff' = NextBackoff(backoff, hadWork, connected)
    /\ Disconnected
    /\ fruitless' = IF hadWork THEN 0 ELSE AtMost(fruitless + 1, MaxFruitless)
    /\ base' = IF hadWork THEN FirstWait ELSE base
    /\ phase' = "top"
    /\ UNCHANGED <<endpoint, attempts, clock, end, sessionVars, pool, subs, cell, failed, torn>>

RedirectNoted ==
    /\ phase = "cleared" /\ end # Lost
    /\ endpoint' = end.to
    /\ backoff' = AtLeast(end.wait, ShortWait)
    /\ Disconnected
    /\ fruitless' = 0 /\ base' = AtLeast(end.wait, ShortWait)
    /\ phase' = "top" /\ end' = Lost
    /\ UNCHANGED <<attempts, clock, sessionVars, pool, subs, cell, failed, torn>>

-----------------------------------------------------------------------------
(* session: flush, then select!. *)

\* flush hands the messages to the socket as long as it takes them; nothing
\* else of the session runs meanwhile.
FlushOne ==
    /\ phase \in {"flush", "lastFlush"} /\ out > 0
    /\ poolOpen /\ buffered < SocketRoom
    /\ out' = out - 1 /\ buffered' = buffered + 1
    /\ UNCHANGED <<phase, runVars, clock, end, asked, hadWork, e1, notify, line, inbound, sending, poolOpen,
                   subs, shown, history>>

FlushFails ==
    /\ phase \in {"flush", "lastFlush"} /\ out > 0 /\ ~poolOpen
    /\ phase' = "ended"
    /\ end' = IF phase = "flush" THEN Lost ELSE end
    /\ UNCHANGED <<runVars, clock, sessionVars, pool, subs, shown, history>>

FlushDone ==
    /\ phase \in {"flush", "lastFlush"} /\ out = 0
    /\ phase' = IF phase = "flush" THEN "select" ELSE "ended"
    /\ UNCHANGED <<runVars, clock, end, sessionVars, pool, subs, shown, history>>

\* Mutant: a line that has begun is read to its end before select! goes on.
AwaitsBetweenLines == phase = "select" /\ line = <<>>

AwaitsDeadline == phase = "select"

\* The deadline branch of the select!.
Deadline ==
    /\ AwaitsDeadline /\ clock >= Inactivity
    /\ phase' = "ended" /\ end' = Lost
    /\ UNCHANGED <<runVars, clock, sessionVars, pool, subs, shown, history>>

\* Mutant: the line is a local of read_line, and lost when another branch wins.
LineLost(read) == <<>>

LineKept(read) == read

\* The submissions branch; a share of another session is not sent.
SubmitShare ==
    /\ phase = "select" /\ subs > 0
    /\ subs' = subs - 1
    /\ \E sent \in 0..1 : out' = out + sent
    /\ line' = LineKept(line)
    /\ phase' = "flush"
    /\ UNCHANGED <<runVars, clock, end, asked, hadWork, e1, notify, pool, shown, history>>

\* read_line: a piece without newline waits in `line'; too many of them, or
\* the end of the stream, end the session.
ReadPiece ==
    /\ phase = "select" /\ inbound # <<>> /\ ~Head(inbound).newline
    /\ line' = Append(line, Head(inbound)) /\ inbound' = Tail(inbound)
    /\ IF Len(line') > MaxLine
       THEN phase' = "ended" /\ end' = Lost
       ELSE UNCHANGED <<phase, end>>
    /\ UNCHANGED <<runVars, clock, asked, hadWork, e1, notify, out, sending, buffered, poolOpen, subs,
                   shown, history>>

ReadEnd ==
    /\ phase = "select" /\ inbound = <<>> /\ ~poolOpen
    /\ phase' = "ended" /\ end' = Lost
    /\ UNCHANGED <<runVars, clock, sessionVars, pool, subs, shown, history>>

Whole(l) == \A i \in DOMAIN l : l[i] = [part |-> i, newline |-> i = Len(l)]

\* A line is complete: the deadline moves, the buffer is emptied.
ReadLine ==
    /\ phase = "select" /\ inbound # <<>> /\ Head(inbound).newline
    /\ torn' = ~Whole(Append(line, Head(inbound)))
    /\ line' = <<>> /\ inbound' = Tail(inbound) /\ clock' = 0
    /\ UNCHANGED <<runVars, sending, buffered, poolOpen, subs, fruitless, base>>

\* The line parses, and says whatever the pool likes; one that is torn is
\* no message.
Message == ReadLine /\ ~torn'

GoesOn == phase' = "flush" /\ UNCHANGED end
EndsWith(how) == phase' = "lastFlush" /\ end' = how

\* RunCtx::fail
Fail == failed' = TRUE /\ status' = "Error" /\ connected' = FALSE /\ UNCHANGED cell

\* publish, publish_sized and RunCtx::publish: work when both its parts are
\* there, a failed run when they do not make a coinbase.
Publish(atLoss) ==
    IF ~(e1' /\ notify') THEN GoesOn /\ UNCHANGED <<hadWork, shown>>
    ELSE \/ /\ hadWork' = TRUE
            /\ IF failed THEN UNCHANGED shown
               ELSE /\ cell' = TRUE /\ UNCHANGED failed
                    /\ Shown("Mining", connected)
            /\ GoesOn
         \/ /\ IF failed THEN UNCHANGED shown ELSE Fail
            /\ UNCHANGED hadWork
            /\ IF atLoss THEN EndsWith(Lost) ELSE GoesOn

\* The answer to mining.subscribe; republish only logs that it failed.
Subscribed ==
    /\ Message
    /\ asked /\ asked' = FALSE /\ e1' = TRUE
    /\ UNCHANGED <<notify, out>>
    /\ Publish(FALSE)

SubscribeRefused ==
    /\ Message /\ asked /\ asked' = FALSE
    /\ EndsWith(Lost)
    /\ UNCHANGED <<hadWork, e1, notify, out, shown>>

\* mining.notify, mining.set_difficulty (the job again) and mining.set_extranonce.
Notified ==
    /\ Message /\ notify' = TRUE
    /\ UNCHANGED <<asked, e1, out>>
    /\ Publish(TRUE)

NewDifficulty ==
    /\ Message
    /\ UNCHANGED <<asked, e1, notify, out>>
    /\ Publish(TRUE)

NewExtranonce ==
    /\ Message /\ e1' = TRUE
    /\ UNCHANGED <<asked, notify, out>>
    /\ Publish(TRUE)

\* Everything that at most makes us say something: a ping, a question about
\* our version, an unknown method, the answer to authorize (maybe_suggest
\* _difficulty), verdicts, messages to show, lines that are empty or not JSON.
OtherLine ==
    /\ ReadLine
    /\ \E sent \in 0..1 : out' = out + sent
    /\ GoesOn
    /\ UNCHANGED <<asked, hadWork, e1, notify, shown>>

\* Mutant: the redirect is applied to the host the pool names, whoever it is.
AnywhereHost(host) == IF host = NoHost THEN Home.host ELSE host

\* same_site: a host of our pool, or the configured one.
RedirectHost(host) ==
    IF host # NoHost /\ Site[host] = Site[Home.host] THEN host ELSE Home.host

\* client.reconnect, each parameter optional.  What is missing is taken from
\* the configured URL, not from the endpoint in use.
Redirected ==
    /\ Message
    /\ \E host \in Hosts \cup {NoHost}, port \in Ports \cup {NoPort}, wait \in RedirectWaits :
          EndsWith([kind |-> "redirect", wait |-> wait,
                    to |-> [host |-> RedirectHost(host),
                            port |-> IF port = NoPort THEN Home.port ELSE port]])
    /\ UNCHANGED <<asked, hadWork, e1, notify, out, shown>>

-----------------------------------------------------------------------------
(* The rest of the world. *)

Piece == [part : 1..(MaxLine + 1), newline : BOOLEAN]

\* The next piece of a message; one without end is possible.
PoolSends ==
    /\ poolOpen /\ Len(inbound) < MaxInbound /\ sending <= MaxLine
    /\ \E newline \in BOOLEAN :
          /\ inbound' = Append(inbound, [part |-> sending + 1, newline |-> newline])
          /\ sending' = IF newline THEN 0 ELSE sending + 1
    /\ UNCHANGED <<phase, runVars, clock, end, sessionVars, buffered, poolOpen, subs, shown, history>>

PoolReads ==
    /\ buffered > 0 /\ buffered' = buffered - 1
    /\ UNCHANGED <<phase, runVars, clock, end, sessionVars, inbound, sending, poolOpen, subs, shown, history>>

\* The connection closes, maybe in the middle of a line.
PoolCloses ==
    /\ poolOpen /\ poolOpen' = FALSE
    /\ \E n \in 0..Len(inbound) : inbound' = SubSeq(inbound, 1, n)
    /\ UNCHANGED <<phase, runVars, clock, end, sessionVars, sending, buffered, subs, shown, history>>

\* The found thread queues a share, for this session or an earlier one.
ShareFound ==
    /\ phase # "gone" /\ subs < MaxQueued
    /\ subs' = subs + 1
    /\ UNCHANGED <<phase, runVars, clock, end, sessionVars, pool, shown, history>>

\* Stop, or the end of a failed run: the supervisor drops the task wherever it
\* waits, and clears the work again.
Cancel ==
    /\ phase \in {"sleep", "dial", "flush", "select", "lastFlush"}
    /\ phase' = "gone"
    /\ cell' = FALSE
    /\ SessionDropped
    /\ UNCHANGED <<runVars, clock, end, hadWork, subs, status, connected, failed, history>>

Tick ==
    /\ clock < CASE phase = "sleep" -> backoff
                 [] phase = "dial" -> ConnectTimeout
                 [] Open -> Inactivity
                 [] OTHER -> 0
    /\ clock' = clock + 1
    /\ UNCHANGED <<phase, runVars, end, sessionVars, pool, subs, shown, history>>

RunStep == Top \/ Woken \/ DialFails \/ DialSucceeds \/ ClearWork \/ LossNoted \/ RedirectNoted
FlushStep == FlushOne \/ FlushFails \/ FlushDone
LineStep ==
    Subscribed \/ SubscribeRefused \/ Notified \/ NewDifficulty \/ NewExtranonce \/ OtherLine
    \/ Redirected
ReadStep == ReadPiece \/ ReadEnd \/ LineStep
World == PoolSends \/ PoolReads \/ PoolCloses \/ ShareFound \/ Cancel

Next == RunStep \/ FlushStep \/ ReadStep \/ SubmitShare \/ Deadline \/ World \/ Tick

(***************************************************************************)
(* The task runs and time passes.  select! polls its branches in a random  *)
(* order, so a branch that is ready again and again is taken (SF).  The    *)
(* pool owes nothing.                                                      *)
(***************************************************************************)
Fairness ==
    /\ WF_vars(RunStep) /\ WF_vars(FlushStep) /\ WF_vars(Tick)
    /\ SF_vars(ReadStep) /\ SF_vars(Deadline)

Spec == Init /\ [][Next]_vars /\ Fairness

-----------------------------------------------------------------------------
(* Properties *)

FlagsTypeOK ==
    /\ attempts \in BOOLEAN /\ asked \in BOOLEAN /\ hadWork \in BOOLEAN /\ e1 \in BOOLEAN
    /\ notify \in BOOLEAN /\ poolOpen \in BOOLEAN /\ connected \in BOOLEAN /\ cell \in BOOLEAN
    /\ failed \in BOOLEAN /\ torn \in BOOLEAN

RunTypeOK ==
    /\ phase \in Phases /\ endpoint \in Endpoint /\ end \in {Lost} \cup Redirect
    /\ status \in {"Connecting", "Reconnecting", "Mining", "Error"}

WaitsTypeOK ==
    /\ backoff \in RedirectWaits \cup (0..MaxBackoff) \cup {ShortWait}
    /\ clock \in Nat /\ fruitless \in 0..MaxFruitless /\ base \in Nat

StreamTypeOK ==
    /\ line \in Seq(Piece) /\ inbound \in Seq(Piece) /\ sending \in 0..(MaxLine + 1)
    /\ out \in Nat /\ buffered \in 0..SocketRoom /\ subs \in 0..MaxQueued

TypeOK == FlagsTypeOK /\ RunTypeOK /\ WaitsTypeOK /\ StreamTypeOK

(* "A dead pool is not hammered": after so many attempts in a row that gave *)
(* no work, the next dial comes only when the wait has doubled as often, up *)
(* to the longest one; after a redirect, it starts from the pool's wait.    *)
DeadPoolNotHammered ==
    [][phase = "sleep" /\ phase' = "dial" =>
          clock >= IF fruitless = 0 THEN base ELSE AtMost(base * 2 ^ fruitless, MaxBackoff)]_vars

(* Whatever the pool sends and however often it redirects, we never dial a  *)
(* host outside the configured pool's site.                                 *)
StaysAtSite == Site[endpoint.host] = Site[Home.host]

(* A line is handled as it was sent: no piece is lost because a share or    *)
(* the deadline was served in the middle of it, and no two lines are mixed. *)
WholeLines == ~torn

(* Devices hash only for a session that is open: between sessions the cell  *)
(* is empty, the miner does not claim to be connected or to mine, also when *)
(* the run failed or was stopped in the middle.                             *)
NothingOfALostSession ==
    /\ cell => Open \/ phase = "ended"
    /\ phase \in {"sleep", "dial"} => ~connected /\ status # "Mining"

(* Reconnect when nothing arrives: as long as flush returns, the client     *)
(* always hears a line again, or dials again, or was stopped.  A pool that  *)
(* stops reading can keep flush, and with it the deadline, for ever.        *)
HearsOrDials ==
    []<>(phase \notin {"flush", "lastFlush"})
        => []<>(phase \in {"dial", "gone"} \/ (Open /\ clock = 0))
=============================================================================
