---------------------------- MODULE AppSettings -----------------------------
(***************************************************************************)
(* The application's settings and what it remembers between runs (app.rs,  *)
(* store.rs, headless.rs, main.rs and the settings page of view.rs).       *)
(*                                                                         *)
(* One configuration lives in up to five places: the file, `config', the   *)
(* widgets of the form, the `draft' behind them, and the run that the      *)
(* miner is in.  The draft is read from the form before every use (only    *)
(* its theme is not, and that is always the configuration's), so that it   *)
(* is an operator here.  Reading the form and filling it are conversions   *)
(* that lose something: blanks, a thread count that is none, commas with   *)
(* nothing between them.  Files are written in place: a failing write or a *)
(* crash can leave half of one, which loads as the defaults; while the     *)
(* program is not running the user may write one by hand, without a check. *)
(* A second file keeps the best difficulty ever found.  One process uses   *)
(* the files at a time.                                                    *)
(***************************************************************************)
EXTENDS Naturals

CONSTANTS
    Words,        \* what texts say, Addresses the plausible addresses among them
    Addresses,
    DefaultUrl, DefaultRpc, DefaultPoll, \* of the pool, of the node, poll_secs: 5
    NoNumber,     \* no thread count: None, or a text that is no number
    Typed,        \* what is typed, field by field
    HandWritten,  \* configurations that users write by hand
    MaxEdits,     \* bound: changes of the form
    DemoBest,     \* the best-ever difficulty of the synthetic miner
    MaxBest       \* bound: difficulties that shares have

NoText == ""
\* A text is a word with or without blanks around it.
Text == [word : Words, padded : BOOLEAN]
Just(word) == [word |-> word, padded |-> FALSE]
Padded(text) == [text EXCEPT !.padded = TRUE]
Trim(text) == [text EXCEPT !.padded = FALSE]

\* The order of a list of devices and its repeats, which all conversions keep,
\* are left out.
PoolSources == [kind : {"pool"}, url : Text, password : Text]
NodeSources == [kind : {"node"}, rpc_url : Text, poll : Nat]
Config == [address : Text, source : PoolSources \cup NodeSources, threads : Nat \cup {NoNumber},
           network_devices : SUBSET Text, theme : {"system", "dark"}, autostart : BOOLEAN]

\* The form, with the fields of both kinds of source, one of them hidden.  The
\* text of a thread count is a numeral, as it is shown or some other way (04),
\* or it is none, blank or not; that of a list its pieces between the commas.
ThreadTexts == [number : Nat \cup {NoNumber}, padded : BOOLEAN]
Form == [address : Text, kind : {"pool", "node"}, url : Text, password : Text, rpc_url : Text,
         threads : ThreadTexts, network_devices : SUBSET Text, autostart : BOOLEAN]

Default == [address |-> Just(NoText),
            source |-> [kind |-> "pool", url |-> Just(DefaultUrl), password |-> Just("x")],
            threads |-> NoNumber, network_devices |-> {}, theme |-> "system", autostart |-> FALSE]
Torn == [torn |-> TRUE] \* half a file
Idle == [idle |-> TRUE] \* the miner is in no run

ASSUME SettingsAssumption ==
    /\ {NoText, "x", DefaultUrl, DefaultRpc} \subseteq Words /\ Addresses \subseteq Words \ {NoText}
    /\ DefaultPoll \in Nat
    /\ NoNumber \notin Nat
    /\ HandWritten \subseteq Config
    /\ MaxEdits \in Nat /\ DemoBest \in Nat \ {0} /\ MaxBest \in Nat
ASSUME TypedAssumption ==
    /\ DOMAIN Typed = {"address", "kind", "url", "password", "rpc_url", "threads", "network_devices", "autostart"}
    /\ Typed.address \subseteq Text /\ Typed.kind \subseteq {"pool", "node"} /\ Typed.url \subseteq Text
    /\ Typed.password \subseteq Text /\ Typed.rpc_url \subseteq Text /\ Typed.threads \subseteq ThreadTexts
    /\ Typed.network_devices \subseteq SUBSET Text /\ Typed.autostart \subseteq BOOLEAN

VARIABLES
    mode,                \* "off", "window", "demo" or "headless"
    diskConfig, diskBest,\* the files
    config, form,
    running,             \* configuration of the run, or Idle
    best,                \* the application's State
    sessionBest, ever,   \* of the miner's snapshot
    edits,               \* counts up to MaxEdits
    \* History
    byHand,              \* what was last written by hand, Torn before that
    intact,              \* the last write of the configuration went well
    found                \* the best difficulty of any real share

files == <<diskConfig, diskBest>>
settings == <<config, form>>
miner == <<running, sessionBest, ever>>
user == <<edits, byHand>>
vars == <<mode, files, settings, miner, best, user, intact, found>>

-----------------------------------------------------------------------------
(* Files *)

\* load_config: what cannot be read is the default.  (So it is with load_state;
\* a torn state file is the same as one that says 0.)
LoadedConfig == IF diskConfig = Torn THEN Default ELSE diskConfig

\* write: the whole text, nothing of it (the directory is read-only), or a
\* part (the disk is full).
WriteConfig(c) ==
    \/ diskConfig' = c /\ intact' = TRUE
    \/ UNCHANGED diskConfig /\ intact' = FALSE
    \/ diskConfig' = Torn /\ intact' = FALSE

WriteBest(difficulty) == diskBest' \in {difficulty, diskBest, 0}

-----------------------------------------------------------------------------
(* The form *)

IsPool(c) == c.source.kind = "pool"

\* The devices joined with a comma and a blank.
Joined(devices) == IF devices = {} THEN {Just(NoText)} ELSE {Padded(d) : d \in devices}

\* view::build, settings page: the fields of the other kind of source get the
\* defaults.
Filled(c) ==
    [address |-> c.address, kind |-> c.source.kind,
     url |-> IF IsPool(c) THEN c.source.url ELSE Just(DefaultUrl),
     password |-> IF IsPool(c) THEN c.source.password ELSE Just("x"),
     rpc_url |-> IF IsPool(c) THEN Just(DefaultRpc) ELSE c.source.rpc_url,
     threads |-> [number |-> c.threads, padded |-> FALSE],
     network_devices |-> Joined(c.network_devices), autostart |-> c.autostart]

\* An empty password is an x.
ReadPassword(text) == IF text.word = NoText THEN Just("x") ELSE Trim(text)
\* parse().ok().filter(t > 0)
ReadThreads(text) == IF text.number = 0 THEN NoNumber ELSE text.number
\* Split at the commas, trimmed, without the empty ones.
ReadDevices(pieces) == {Trim(piece) : piece \in pieces} \ {Just(NoText)}

\* poll_secs has no field and comes from the configuration c.
ReadSource(f, c) ==
    IF f.kind = "pool"
    THEN [kind |-> "pool", url |-> Trim(f.url), password |-> ReadPassword(f.password)]
    ELSE [kind |-> "node", rpc_url |-> Trim(f.rpc_url),
          poll |-> IF IsPool(c) THEN DefaultPoll ELSE c.source.poll]

ReadForm(f, c) ==
    [address |-> Trim(f.address), source |-> ReadSource(f, c), threads |-> ReadThreads(f.threads),
     network_devices |-> ReadDevices(f.network_devices), theme |-> c.theme, autostart |-> f.autostart]

Draft == ReadForm(form, config)

\* plausible_address and the other checks of save.
Savable(c) ==
    /\ c.address.word \in Addresses
    /\ IF IsPool(c) THEN c.source.url.word # NoText ELSE c.source.rpc_url.word # NoText

Init ==
    /\ mode = "off" /\ diskConfig = Default /\ diskBest = 0
    /\ config = Default /\ form = Filled(Default) /\ running = Idle
    /\ best = 0 /\ sessionBest = 0 /\ ever = 0
    /\ edits = 0 /\ byHand = Torn /\ intact = TRUE /\ found = 0

-----------------------------------------------------------------------------
(* The application *)

Up == mode \in {"window", "demo"}

\* Mutant: the run is started with what the form's switches say now.
DraftStarted(c) == [c EXCEPT !.address = Trim(form.address)]

ConfigStarted(c) == c

\* start: without an address the settings page opens, and nothing starts; the
\* engine may refuse the configuration.  A new run has no session best yet.
StartsRun ==
    \/ /\ config'.address.word # NoText /\ running' = ConfigStarted(config') /\ sessionBest' = 0
    \/ UNCHANGED <<running, sessionBest>>

\* App::new.  The files are read once.
Launch ==
    /\ mode = "off" /\ mode' \in {"window", "demo"}
    /\ config' = LoadedConfig /\ form' = Filled(LoadedConfig)
    /\ best' = diskBest /\ ever' = diskBest
    /\ IF config'.autostart /\ mode' # "demo" THEN StartsRun
       ELSE UNCHANGED <<running, sessionBest>>
    /\ intact' = TRUE
    /\ UNCHANGED <<files, found, user>>

\* headless::run, which ends at once when there is no address to pay to.
LaunchHeadless ==
    /\ mode = "off" /\ LoadedConfig.address.word # NoText
    /\ mode' = "headless"
    /\ config' = LoadedConfig /\ running' = LoadedConfig
    /\ best' = diskBest /\ ever' = diskBest /\ sessionBest' = 0
    /\ intact' = TRUE
    /\ UNCHANGED <<files, form, found, user>>

\* Typing, and the switches and selects of the form.
Edit ==
    /\ Up /\ edits < MaxEdits /\ edits' = edits + 1
    /\ \E field \in DOMAIN Typed : \E text \in Typed[field] : form' = [form EXCEPT ![field] = text]
    /\ form' # form
    /\ UNCHANGED <<mode, files, config, miner, best, byHand, intact, found>>

\* What the message of headless mode asks for.
WriteByHand ==
    /\ mode = "off" /\ diskConfig' \in HandWritten /\ byHand' = diskConfig'
    /\ UNCHANGED <<mode, diskBest, settings, miner, best, edits, intact, found>>

\* Mutant: the draft is written, with what has not been checked.
DraftWritten(c) == [Draft EXCEPT !.theme = c.theme]

ConfigWritten(c) == c

\* Message::Theme: applied and saved without the rest of the form.
Theme ==
    /\ Up
    /\ \E theme \in {"system", "dark"} : config' = [config EXCEPT !.theme = theme]
    /\ WriteConfig(ConfigWritten(config'))
    /\ UNCHANGED <<mode, diskBest, form, miner, best, found, user>>

\* save: the form is checked, becomes the configuration, and is written.
Saves == Savable(Draft) /\ config' = Draft /\ WriteConfig(config')

Refused == ~Savable(Draft) /\ UNCHANGED <<config, diskConfig, intact>>

Save ==
    /\ Up /\ (Saves \/ Refused)
    /\ UNCHANGED <<mode, diskBest, form, miner, best, found, user>>

\* A form that is refused leaves the miner running.
SaveRestart ==
    /\ Up
    /\ \/ /\ Saves
          /\ \/ running' = ConfigStarted(config') /\ sessionBest' = 0
             \/ running' = Idle /\ UNCHANGED sessionBest
       \/ Refused /\ UNCHANGED <<running, sessionBest>>
    /\ UNCHANGED <<mode, diskBest, form, ever, best, found, user>>

\* Mutant: the tree is rebuilt from the configuration.
FromConfig == config

FromDraft == Draft

\* rebuild: the form is read into the draft, the tree thrown away and filled
\* from it.
Rebuild == form' = Filled(FromDraft)

Resize ==
    /\ Up /\ Rebuild
    /\ UNCHANGED <<mode, files, config, miner, best, intact, found, user>>

\* Message::Revert: the draft becomes the configuration; but then rebuild reads
\* the old widgets into it.
Revert ==
    /\ Up /\ Rebuild
    /\ UNCHANGED <<mode, files, config, miner, best, intact, found, user>>

\* F5 and the Start button; the demo never starts.
StartStop ==
    /\ mode = "window"
    /\ UNCHANGED config
    /\ IF running = Idle THEN StartsRun ELSE running' = Idle /\ UNCHANGED sessionBest
    /\ UNCHANGED <<mode, files, form, ever, best, intact, found, user>>

RunFails ==
    /\ running # Idle /\ running' = Idle
    /\ UNCHANGED <<mode, files, settings, sessionBest, ever, best, intact, found, user>>

\* handle_found: the engine keeps the best of the session and the best ever.
ShareFound ==
    /\ running # Idle
    /\ \E difficulty \in 1..MaxBest :
          /\ sessionBest' = IF difficulty > sessionBest THEN difficulty ELSE sessionBest
          /\ ever' = IF difficulty > ever THEN difficulty ELSE ever
          /\ found' = IF difficulty > found THEN difficulty ELSE found
    /\ UNCHANGED <<mode, files, settings, running, best, intact, user>>

\* refresh: the demo shows another snapshot, but saves as well.
Refresh ==
    LET shown == IF mode = "demo" THEN DemoBest ELSE IF sessionBest > ever THEN sessionBest ELSE ever
    IN  /\ Up /\ shown > best
        /\ best' = shown /\ WriteBest(shown)
        /\ UNCHANGED <<mode, diskConfig, settings, miner, intact, found, user>>

\* Mutant: the loop's best starts from nothing.
FirstOfSession(difficulty) == difficulty > 0 /\ difficulty # best

Beats(difficulty) == difficulty > best

\* The loop of headless::run, which looks at the session's best only.
HeadlessLoop ==
    /\ mode = "headless" /\ Beats(sessionBest)
    /\ best' = sessionBest /\ WriteBest(sessionBest)
    /\ UNCHANGED <<mode, diskConfig, settings, miner, intact, found, user>>

\* The process ends, orderly, or in the middle of a write.
Exit ==
    /\ mode # "off" /\ mode' = "off"
    /\ running' = Idle /\ sessionBest' = 0 /\ ever' = 0 /\ best' = 0
    /\ config' = Default /\ form' = Filled(Default)
    /\ \/ UNCHANGED <<files, intact>>
       \/ Up /\ diskConfig' = Torn /\ UNCHANGED <<diskBest, intact>>
       \/ diskBest' = 0 /\ UNCHANGED <<diskConfig, intact>>
    /\ UNCHANGED <<user, found>>

AppStep == Edit \/ Theme \/ Save \/ SaveRestart \/ Resize \/ Revert \/ StartStop \/ Refresh
Next == WriteByHand \/ Launch \/ LaunchHeadless \/ AppStep \/ RunFails \/ ShareFound \/ HeadlessLoop \/ Exit

Spec == Init /\ [][Next]_vars

-----------------------------------------------------------------------------
(* Properties *)

\* The same settings but for the theme, which is applied and saved by itself.
SameSettings(c, d) == c = [d EXCEPT !.theme = c.theme]

\* The defaults, and what the user wrote into the file, get no check.
Untouched(c) == SameSettings(c, Default) \/ (byHand # Torn /\ SameSettings(c, byHand))

(* What the application goes by is what it would load again, unless a write *)
(* failed and was not made good; and nothing unchecked gets into the file,  *)
(* by whichever message it is written, other than by the user's own hand.   *)
FileIsTheConfig ==
    /\ mode # "off" /\ intact => config = LoadedConfig
    /\ diskConfig # Torn => Savable(diskConfig) \/ Untouched(diskConfig)

(* A run that begins is one of the applied configuration, which was checked *)
(* or written by hand, with an address to pay to, and never of what is half *)
(* typed in the form.                                                       *)
RunsTheConfig ==
    [][running' # running /\ running' # Idle =>
          /\ running' = config' /\ running'.address.word # NoText
          /\ Savable(running') \/ Untouched(running')]_vars

(* What the form stands for changes by typing only.  Though it loses blanks, *)
(* bad thread counts and empty pieces of lists when it is read and filled    *)
(* again, a window that is resized or moved to another display in the middle *)
(* of typing, a new theme, a save, a start or a stop leave what the next     *)
(* save would apply; and a form that was never typed in saves what was saved *)
(* before, unless that was written by hand.                                  *)
OnlyTypingChangesTheDraft ==
    [][settings' # settings =>
       /\ Resize \/ Theme \/ Save \/ SaveRestart \/ StartStop => SameSettings(Draft', Draft)
       /\ Launch /\ (byHand = Torn \/ ~SameSettings(config', byHand)) => Draft' = config']_vars

(* Across starts, stops, headless runs and failed runs, the best difficulty *)
(* ever is never replaced by a lesser one; only a write that breaks can     *)
(* lose it.                                                                 *)
BestEverKept == [][diskBest' >= diskBest \/ diskBest' = 0]_vars

(* What store.rs says of the state file: it is what the miner remembers.    *)
BestWasFound == diskBest <= found
=============================================================================
