--------------------------- MODULE AppSettingsProofs ---------------------------
(***************************************************************************)
(* What TLAPS proves of AppSettings, for any texts that are typed, any     *)
(* files written by hand and shares of any difficulty: the file holds what *)
(* the application goes by and nothing unchecked, runs are of the applied  *)
(* configuration, only typing changes what a save would apply, and the     *)
(* best difficulty is not replaced by a lesser one.                        *)
(***************************************************************************)
EXTENDS AppSettings, TLAPS

-----------------------------------------------------------------------------
(* The inductive invariant.                                                 *)

TypeInv ==
    /\ config \in Config /\ diskConfig \in Config \cup {Torn}
    /\ form \in Form /\ running \in Config \cup {Idle} /\ byHand \in Config \cup {Torn}

NumbersInv ==
    /\ diskBest \in Nat /\ best \in Nat /\ sessionBest \in Nat /\ ever \in Nat

\* What reading the form leaves: nothing that reading it again would change.
TidySource(source) ==
    IF source.kind = "pool"
    THEN /\ ~source.url.padded
         /\ ~source.password.padded /\ source.password.word # NoText
    ELSE ~source.rpc_url.padded
TidyDevices(devices) == \A d \in devices : ~d.padded /\ d.word # NoText
Tidy(c) ==
    /\ ~c.address.padded /\ TidySource(c.source)
    /\ c.threads # 0 /\ TidyDevices(c.network_devices)

\* The program's own settings: the defaults with any theme, or a form's.
Own(c) == Tidy(c) /\ (Savable(c) \/ SameSettings(c, Default))

\* Or those that the user wrote by hand.
Checked(c, hand) == Own(c) \/ (hand # Torn /\ SameSettings(c, hand))

\* What is applied, or in the file, has been checked or written by hand.
OnlyChecked ==
    /\ Checked(config, byHand)
    /\ diskConfig # Torn => Checked(diskConfig, byHand)

\* The file says what the application goes by, unless the last write failed.
InStep == mode # "off" /\ intact => config = LoadedConfig

\* No settings outlive the process.
NothingApplied == mode = "off" => config = Default

\* The application knows of every best that the file has.
BestKnown == mode # "off" => best >= diskBest

IndInv == TypeInv /\ NumbersInv /\ OnlyChecked /\ InStep /\ NothingApplied /\ BestKnown

-----------------------------------------------------------------------------
(* Operators.                                                               *)

\* Half a file is no configuration.
LEMMA TornIsNone == Torn \notin Config
  BY DEF Torn, Config

\* Themes only.
LEMMA ThemeOfConfig ==
  ASSUME NEW c \in Config, NEW theme \in {"system", "dark"}
  PROVE  LET d == [c EXCEPT !.theme = theme]
         IN  /\ d \in Config /\ d.theme = theme /\ SameSettings(d, c)
             /\ d.address = c.address /\ d.source = c.source /\ d.threads = c.threads
             /\ d.network_devices = c.network_devices /\ d.autostart = c.autostart
  BY DEF Config, SameSettings

\* A configuration has its own settings.
LEMMA SameAsItself ==
  ASSUME NEW c \in Config
  PROVE  SameSettings(c, c)
  BY DEF Config, SameSettings

\* The defaults are a configuration, untouched.
LEMMA DefaultIsOne == Default \in Config /\ Own(Default)
  <1>1. Default \in Config
    BY SettingsAssumption DEF Default, Config, Just, Text, PoolSources
  <1>2. SameSettings(Default, Default)
    BY <1>1, SameAsItself
  <1>3. /\ ~Default.address.padded /\ TidySource(Default.source)
        /\ TidyDevices(Default.network_devices) /\ Default.threads # 0
    <2>1. Default.threads = NoNumber /\ Default.network_devices = {}
      BY DEF Default
    <2>2. Default.threads # 0
      BY <2>1, SettingsAssumption
    <2>3. ~Default.address.padded
      BY DEF Default, Just
    <2>4. TidySource(Default.source)
      BY DEF Default, Just, TidySource, NoText
    <2> QED
      BY <2>1, <2>2, <2>3, <2>4 DEF TidyDevices
  <1> QED
    BY <1>1, <1>2, <1>3 DEF Own, Tidy

\* What is loaded is a configuration that was checked.
LEMMA Loaded ==
  ASSUME TypeInv, OnlyChecked
  PROVE  LoadedConfig \in Config /\ Checked(LoadedConfig, byHand)
  BY DefaultIsOne DEF TypeInv, OnlyChecked, LoadedConfig, Checked

\* Settings that are the same as settings that are the same.
LEMMA SameTwice ==
  ASSUME NEW c \in Config, NEW d \in Config, SameSettings(c, d), NEW theme \in {"system", "dark"}
  PROVE  SameSettings([c EXCEPT !.theme = theme], d)
  BY DEF Config, SameSettings

\* A theme of its own leaves a checked configuration checked.
LEMMA Themed ==
  ASSUME NEW c \in Config, NEW hand \in Config \cup {Torn}, Checked(c, hand),
         NEW theme \in {"system", "dark"}
  PROVE  /\ [c EXCEPT !.theme = theme] \in Config
         /\ Checked([c EXCEPT !.theme = theme], hand)
  <1> DEFINE d == [c EXCEPT !.theme = theme]
  <1>1. /\ d \in Config /\ d.address = c.address /\ d.source = c.source
        /\ d.threads = c.threads /\ d.network_devices = c.network_devices
    BY ThemeOfConfig
  <1>2. SameSettings(c, Default) => SameSettings(d, Default)
    BY SameTwice, DefaultIsOne
  <1>3. hand # Torn /\ SameSettings(c, hand) => SameSettings(d, hand)
    BY SameTwice
  <1>4. (Tidy(c) => Tidy(d)) /\ (Savable(c) => Savable(d))
    BY <1>1 DEF Tidy, Savable, IsPool
  <1> HIDE DEF d
  <1>5. d \in Config /\ Checked(d, hand)
    BY <1>1, <1>2, <1>3, <1>4, Zenon DEF Checked, Own
  <1> QED
    BY <1>5 DEF d

\* The parts of a form.
LEMMA FormParts ==
  ASSUME NEW f \in Form
  PROVE  /\ f.address \in Text /\ f.kind \in {"pool", "node"} /\ f.url \in Text
         /\ f.password \in Text /\ f.rpc_url \in Text /\ f.threads \in ThreadTexts
         /\ f.network_devices \in SUBSET Text /\ f.autostart \in BOOLEAN
  BY DEF Form

\* The parts of a configuration.
LEMMA ConfigParts ==
  ASSUME NEW c \in Config
  PROVE  /\ c.address \in Text /\ c.threads \in Nat \cup {NoNumber}
         /\ c.network_devices \in SUBSET Text
         /\ c.theme \in {"system", "dark"} /\ c.autostart \in BOOLEAN
         /\ IF IsPool(c) THEN c.source \in PoolSources ELSE c.source \in NodeSources
  BY DEF Config, IsPool, PoolSources, NodeSources

\* The parts of a source.
LEMMA PoolParts ==
  ASSUME NEW s \in PoolSources
  PROVE  s.kind = "pool" /\ s.url \in Text /\ s.password \in Text
  BY DEF PoolSources

LEMMA NodeParts ==
  ASSUME NEW s \in NodeSources
  PROVE  s.kind = "node" /\ s.rpc_url \in Text /\ s.poll \in Nat
  BY DEF NodeSources

\* Texts, with and without their blanks.
LEMMA Trimmed ==
  ASSUME NEW text \in Text
  PROVE  /\ Trim(text) \in Text /\ ~Trim(text).padded /\ Trim(text).word = text.word
         /\ Padded(text) \in Text /\ Trim(Padded(text)) = Trim(text)
         /\ ~text.padded => Trim(text) = text
  BY DEF Text, Trim, Padded

\* A word as a text.
LEMMA JustText ==
  ASSUME NEW word \in Words
  PROVE  Just(word) \in Text /\ ~Just(word).padded /\ Just(word).word = word
  BY DEF Just, Text

\* A text without blanks and without a word is the blank one.
LEMMA BlankText ==
  ASSUME NEW text \in Text, ~text.padded, text.word = NoText
  PROVE  text = Just(NoText)
  BY DEF Just, Text

\* The devices of a list of pieces.
LEMMA DevicesAreTidy ==
  ASSUME NEW pieces \in SUBSET Text
  PROVE  ReadDevices(pieces) \in SUBSET Text /\ TidyDevices(ReadDevices(pieces))
  <1> SUFFICES ASSUME NEW d \in ReadDevices(pieces)
               PROVE  d \in Text /\ ~d.padded /\ d.word # NoText
    BY DEF TidyDevices
  <1>1. PICK piece \in pieces : d = Trim(piece)
    BY DEF ReadDevices
  <1>2. d \in Text /\ ~d.padded
    BY <1>1, Trimmed
  <1>3. d # Just(NoText)
    BY DEF ReadDevices
  <1> QED
    BY <1>2, <1>3, BlankText

\* A list that is shown is read as it was.
LEMMA DevicesComeBack ==
  ASSUME NEW devices \in SUBSET Text, TidyDevices(devices)
  PROVE  Joined(devices) \in SUBSET Text /\ ReadDevices(Joined(devices)) = devices
  <1>0. Just(NoText) \in Text /\ Trim(Just(NoText)) = Just(NoText)
    BY JustText, Trimmed, SettingsAssumption
  <1>1. CASE devices = {}
    <2>1. Joined(devices) = {Just(NoText)}
      BY <1>1 DEF Joined
    <2> QED
      BY <1>0, <1>1, <2>1 DEF ReadDevices
  <1>2. CASE devices # {}
    <2>1. Joined(devices) = {Padded(d) : d \in devices}
      BY <1>2 DEF Joined
    <2>2. ASSUME NEW d \in devices
          PROVE  Padded(d) \in Text /\ Trim(Padded(d)) = d /\ d # Just(NoText)
      BY Trimmed, JustText, SettingsAssumption DEF TidyDevices
    <2>3. {Trim(piece) : piece \in Joined(devices)} = devices
      BY <2>1, <2>2
    <2>4. Just(NoText) \notin devices
      BY <2>2
    <2>5. Joined(devices) \in SUBSET Text
      BY <2>1, <2>2
    <2> QED
      BY <2>3, <2>4, <2>5 DEF ReadDevices
  <1> QED
    BY <1>1, <1>2

\* The form of a configuration.
LEMMA FilledIsForm ==
  ASSUME NEW c \in Config
  PROVE  Filled(c) \in Form
  <1>1. /\ Just(DefaultUrl) \in Text /\ Just(DefaultRpc) \in Text /\ Just("x") \in Text
        /\ Just(NoText) \in Text
    BY JustText, SettingsAssumption
  <1>2. Joined(c.network_devices) \in SUBSET Text
    BY <1>1, ConfigParts, Trimmed DEF Joined
  <1>3. [number |-> c.threads, padded |-> FALSE] \in ThreadTexts
    BY ConfigParts DEF ThreadTexts
  <1>4. CASE IsPool(c)
    BY <1>1, <1>2, <1>3, <1>4, ConfigParts, PoolParts DEF Filled, Form
  <1>5. CASE ~IsPool(c)
    BY <1>1, <1>2, <1>3, <1>5, ConfigParts, NodeParts DEF Filled, Form
  <1> QED
    BY <1>4, <1>5

\* What is read from a form is a configuration that reads as itself.
LEMMA ReadIsTidy ==
  ASSUME NEW f \in Form, NEW c \in Config
  PROVE  ReadForm(f, c) \in Config /\ Tidy(ReadForm(f, c)) /\ ReadForm(f, c).theme = c.theme
  <1>1. Trim(f.address) \in Text /\ ~Trim(f.address).padded
    BY FormParts, Trimmed
  <1>2. ReadSource(f, c) \in PoolSources \cup NodeSources /\ TidySource(ReadSource(f, c))
    <2>1. CASE f.kind = "pool"
      <3> DEFINE pw == ReadPassword(f.password)
      <3>1. Trim(f.url) \in Text /\ ~Trim(f.url).padded
        BY FormParts, Trimmed
      <3>2. pw \in Text /\ ~pw.padded /\ pw.word # NoText
        BY FormParts, Trimmed, JustText, SettingsAssumption DEF ReadPassword, NoText
      <3>3. ReadSource(f, c) = [kind |-> "pool", url |-> Trim(f.url), password |-> pw]
        BY <2>1 DEF ReadSource
      <3> HIDE DEF pw
      <3> QED
        BY <3>1, <3>2, <3>3 DEF PoolSources, TidySource
    <2>2. CASE f.kind # "pool"
      <3> DEFINE poll == IF IsPool(c) THEN DefaultPoll ELSE c.source.poll
      <3>1. Trim(f.rpc_url) \in Text /\ ~Trim(f.rpc_url).padded
        BY FormParts, Trimmed
      <3>2. poll \in Nat
        BY ConfigParts, NodeParts, SettingsAssumption
      <3>3. ReadSource(f, c) = [kind |-> "node", rpc_url |-> Trim(f.rpc_url), poll |-> poll]
        BY <2>2 DEF ReadSource
      <3> HIDE DEF poll
      <3> QED
        BY <3>1, <3>2, <3>3 DEF NodeSources, TidySource
    <2> QED
      BY <2>1, <2>2
  <1>3. ReadThreads(f.threads) \in Nat \cup {NoNumber} /\ ReadThreads(f.threads) # 0
    BY FormParts, SettingsAssumption DEF ThreadTexts, ReadThreads
  <1>4. /\ ReadDevices(f.network_devices) \in SUBSET Text
        /\ TidyDevices(ReadDevices(f.network_devices))
    BY FormParts, DevicesAreTidy
  <1>5. c.theme \in {"system", "dark"} /\ f.autostart \in BOOLEAN
    BY FormParts, ConfigParts
  <1> QED
    BY <1>1, <1>2, <1>3, <1>4, <1>5 DEF ReadForm, Config, Tidy

\* A tidy configuration that fills the form is read back from it, if what the
\* form does not show is there.
LEMMA ComesBack ==
  ASSUME NEW d \in Config, Tidy(d), NEW c \in Config, c.theme = d.theme,
         ~IsPool(d) => d.source.poll = IF IsPool(c) THEN DefaultPoll ELSE c.source.poll
  PROVE  ReadForm(Filled(d), c) = d
  <1> DEFINE f == Filled(d)
  <1>1. /\ f.address = d.address /\ f.kind = d.source.kind /\ f.autostart = d.autostart
        /\ f.threads = [number |-> d.threads, padded |-> FALSE]
        /\ f.network_devices = Joined(d.network_devices)
        /\ IsPool(d) => f.url = d.source.url /\ f.password = d.source.password
        /\ ~IsPool(d) => f.rpc_url = d.source.rpc_url
    BY DEF Filled
  <1> HIDE DEF f
  <1>2. Trim(f.address) = d.address
    BY <1>1, ConfigParts, Trimmed DEF Tidy
  <1>3. ReadSource(f, c) = d.source
    <2>1. CASE IsPool(d)
      <3>1. /\ d.source \in PoolSources /\ ~d.source.url.padded /\ ~d.source.password.padded
            /\ d.source.password.word # NoText /\ f.kind = "pool"
        BY <1>1, <2>1, ConfigParts DEF Tidy, TidySource, IsPool
      <3>2. Trim(f.url) = d.source.url /\ ReadPassword(f.password) = d.source.password
        BY <1>1, <2>1, <3>1, PoolParts, Trimmed DEF ReadPassword
      <3>3. d.source = [kind |-> "pool", url |-> d.source.url, password |-> d.source.password]
        BY <3>1 DEF PoolSources
      <3> QED
        BY <3>1, <3>2, <3>3 DEF ReadSource
    <2>2. CASE ~IsPool(d)
      <3>1. d.source \in NodeSources /\ ~d.source.rpc_url.padded /\ f.kind # "pool"
        BY <1>1, <2>2, ConfigParts DEF Tidy, TidySource, IsPool
      <3>2. Trim(f.rpc_url) = d.source.rpc_url
        BY <1>1, <2>2, <3>1, NodeParts, Trimmed
      <3>3. d.source = [kind |-> "node", rpc_url |-> d.source.rpc_url, poll |-> d.source.poll]
        BY <3>1 DEF NodeSources
      <3> QED
        BY <2>2, <3>1, <3>2, <3>3 DEF ReadSource
    <2> QED
      BY <2>1, <2>2
  <1>4. ReadThreads(f.threads) = d.threads
    BY <1>1 DEF ReadThreads, Tidy
  <1>5. ReadDevices(f.network_devices) = d.network_devices
    BY <1>1, ConfigParts, DevicesComeBack DEF Tidy
  <1>6. d = [address |-> d.address, source |-> d.source, threads |-> d.threads,
             network_devices |-> d.network_devices, theme |-> d.theme, autostart |-> d.autostart]
    BY DEF Config
  <1>7. ReadForm(f, c) = d
    BY <1>1, <1>2, <1>3, <1>4, <1>5, <1>6 DEF ReadForm
  <1> QED
    BY <1>7 DEF f

\* What the form does not show is that of the configuration in use.
LEMMA HiddenPart ==
  ASSUME NEW f \in Form, NEW c \in Config, ~IsPool(ReadForm(f, c))
  PROVE  ReadForm(f, c).source.poll = IF IsPool(c) THEN DefaultPoll ELSE c.source.poll
  <1>1. ReadForm(f, c).source = ReadSource(f, c)
    BY DEF ReadForm
  <1>2. f.kind # "pool"
    BY <1>1 DEF ReadSource, IsPool
  <1> QED
    BY <1>1, <1>2 DEF ReadSource

\* What is read from a form, put into it and read again is the same.
LEMMA ReadTwice ==
  ASSUME NEW f \in Form, NEW c \in Config
  PROVE  ReadForm(Filled(ReadForm(f, c)), c) = ReadForm(f, c)
  BY ReadIsTidy, ComesBack, HiddenPart

\* A form is read in the same way when what was read of it is applied.
LEMMA ReadWhenApplied ==
  ASSUME NEW f \in Form, NEW c \in Config
  PROVE  ReadForm(f, ReadForm(f, c)) = ReadForm(f, c)
  <1> DEFINE d == ReadForm(f, c)
  <1>1. d.theme = c.theme /\ d.source = ReadSource(f, c)
    BY DEF ReadForm
  <1>2. ReadSource(f, d) = ReadSource(f, c)
    <2>1. CASE f.kind = "pool"
      BY <2>1 DEF ReadSource
    <2>2. CASE f.kind # "pool"
      <3>1. d.source.kind = "node"
            /\ d.source.poll = IF IsPool(c) THEN DefaultPoll ELSE c.source.poll
        BY <1>1, <2>2 DEF ReadSource
      <3> HIDE DEF d
      <3> QED
        BY <2>2, <3>1 DEF ReadSource, IsPool
    <2> QED
      BY <2>1, <2>2
  <1> HIDE DEF d
  <1>3. ReadForm(f, d) = ReadForm(f, c)
    BY <1>1, <1>2 DEF ReadForm
  <1> QED
    BY <1>3 DEF d

\* And when only the theme changes.
LEMMA ReadWhenThemed ==
  ASSUME NEW f \in Form, NEW c \in Config, NEW theme \in {"system", "dark"}
  PROVE  ReadForm(f, [c EXCEPT !.theme = theme]) = [ReadForm(f, c) EXCEPT !.theme = theme]
  <1> DEFINE d == [c EXCEPT !.theme = theme]
  <1>1. d.source = c.source /\ d.theme = theme
    BY ThemeOfConfig
  <1> HIDE DEF d
  <1>2. ReadSource(f, d) = ReadSource(f, c)
    BY <1>1 DEF ReadSource, IsPool
  <1>3. ReadForm(f, d) = [ReadForm(f, c) EXCEPT !.theme = theme]
    BY <1>1, <1>2 DEF ReadForm
  <1> QED
    BY <1>3 DEF d

\* The draft is a configuration.
LEMMA DraftIsConfig ==
  ASSUME TypeInv
  PROVE  Draft \in Config /\ Tidy(Draft)
  BY ReadIsTidy DEF TypeInv, Draft

-----------------------------------------------------------------------------
(* What the steps do to the settings.                                       *)

\* Nothing; loading; writing what has been checked; leaving; or the user's hand.
Untouching == UNCHANGED <<mode, config, diskConfig, intact, byHand>>
Loads == mode = "off" /\ mode' # "off" /\ config' = LoadedConfig /\ UNCHANGED <<diskConfig, byHand>>
Writes ==
    /\ mode # "off" /\ UNCHANGED <<mode, byHand>> /\ WriteConfig(config')
    /\ config' \in Config /\ Checked(config', byHand)
Leaves ==
    /\ mode' = "off" /\ config' = Default /\ diskConfig' \in {diskConfig, Torn}
    /\ UNCHANGED byHand
HandWrites ==
    /\ mode = "off" /\ UNCHANGED <<mode, config>>
    /\ diskConfig' \in Config /\ byHand' = diskConfig'

\* Saving the form.
LEMMA SavesWrites ==
  ASSUME TypeInv, Saves, Up, UNCHANGED <<mode, byHand>>
  PROVE  Writes
  BY DraftIsConfig DEF Saves, Writes, Checked, Own, Up

\* Every step is one of these.
LEMMA SettingsStep ==
  ASSUME IndInv, [Next]_vars
  PROVE  Untouching \/ Loads \/ Writes \/ Leaves \/ HandWrites
  <1>0. TypeInv
    BY DEF IndInv
  <1>1. CASE Launch \/ LaunchHeadless
    BY <1>1 DEF Launch, LaunchHeadless, Loads, files, user
  <1>2. CASE Edit \/ Resize \/ Revert \/ StartStop \/ Refresh
    BY <1>2, Zenon DEF Edit, Resize, Revert, StartStop, Refresh, Untouching, files, settings, user
  <1>3. CASE Theme
    <2>1. PICK theme \in {"system", "dark"} : config' = [config EXCEPT !.theme = theme]
      BY <1>3 DEF Theme
    <2>2. WriteConfig(config') /\ UNCHANGED <<mode, byHand>> /\ mode # "off"
      BY <1>3 DEF Theme, ConfigWritten, user, Up
    <2>3. config' \in Config /\ Checked(config', byHand)
      BY <2>1, Themed DEF IndInv, TypeInv, OnlyChecked
    <2> QED
      BY <2>2, <2>3 DEF Writes
  <1>4. CASE Save \/ SaveRestart
    <2>1. (Saves \/ Refused) /\ Up
      BY <1>4, Zenon DEF Save, SaveRestart
    <2>2. UNCHANGED <<mode, byHand>>
      BY <1>4, Zenon DEF Save, SaveRestart, user
    <2>3. CASE Saves
      BY <1>0, <2>1, <2>2, <2>3, SavesWrites
    <2>4. CASE Refused
      BY <2>2, <2>4, Zenon DEF Refused, Untouching
    <2> QED
      BY <2>1, <2>3, <2>4
  <1>5. CASE RunFails \/ ShareFound \/ HeadlessLoop
    BY <1>5, Zenon DEF RunFails, ShareFound, HeadlessLoop, Untouching, files, settings, user
  <1>6. CASE Exit
    <2>1. mode' = "off" /\ config' = Default /\ UNCHANGED byHand
      BY <1>6 DEF Exit, user
    <2>2. diskConfig' \in {diskConfig, Torn}
      BY <1>6, Zenon DEF Exit, files
    <2> QED
      BY <2>1, <2>2 DEF Leaves
  <1>7. CASE WriteByHand
    BY <1>7, SettingsAssumption DEF WriteByHand, HandWrites, settings
  <1>8. CASE UNCHANGED vars
    BY <1>8, Zenon DEF vars, files, settings, user, Untouching
  <1> QED
    BY <1>1, <1>2, <1>3, <1>4, <1>5, <1>6, <1>7, <1>8 DEF Next, AppStep

\* A write leaves what it wrote, what was there, or a torn file.
LEMMA Written ==
  ASSUME NEW c, WriteConfig(c)
  PROVE  /\ diskConfig' \in {c, diskConfig, Torn}
         /\ intact' => diskConfig' = c
  BY Zenon DEF WriteConfig

\* The configuration and its file.
LEMMA SettingsKept ==
  ASSUME IndInv, [Next]_vars
  PROVE  /\ config' \in Config /\ diskConfig' \in Config \cup {Torn}
         /\ byHand' \in Config \cup {Torn}
         /\ OnlyChecked' /\ InStep' /\ NothingApplied'
  <1> USE DEF OnlyChecked, InStep, NothingApplied, LoadedConfig
  <1>0. /\ config \in Config /\ diskConfig \in Config \cup {Torn} /\ byHand \in Config \cup {Torn}
        /\ OnlyChecked /\ InStep /\ NothingApplied
    BY DEF IndInv, TypeInv
  <1>1. CASE Untouching
    BY <1>0, <1>1, Zenon DEF Untouching
  <1>2. CASE Loads
    <2>1. LoadedConfig \in Config /\ Checked(LoadedConfig, byHand)
      BY Loaded DEF IndInv
    <2>2. config' = LoadedConfig /\ UNCHANGED <<diskConfig, byHand>> /\ mode' # "off"
      BY <1>2 DEF Loads
    <2>3. config' \in Config /\ Checked(config', byHand')
      BY <2>1, <2>2, Zenon
    <2>4. OnlyChecked' /\ InStep' /\ NothingApplied'
      BY <1>0, <2>2, <2>3, Zenon
    <2> QED
      BY <1>0, <2>2, <2>3, <2>4, Zenon
  <1>3. CASE Writes
    <2>1. config' \in Config /\ Checked(config', byHand') /\ UNCHANGED <<mode, byHand>> /\ mode # "off"
      BY <1>3, Zenon DEF Writes
    <2>2. /\ diskConfig' \in {config', diskConfig, Torn}
          /\ intact' => diskConfig' = config'
      BY <1>3, Written, Zenon DEF Writes
    <2>3. diskConfig' # Torn => Checked(diskConfig', byHand')
      BY <1>0, <2>1, <2>2, Zenon
    <2>4. intact' => config' = IF diskConfig' = Torn THEN Default ELSE diskConfig'
      BY <2>1, <2>2, TornIsNone
    <2>5. diskConfig' \in Config \cup {Torn}
      BY <1>0, <2>1, <2>2
    <2> QED
      BY <1>0, <2>1, <2>3, <2>4, <2>5, Zenon
  <1>4. CASE Leaves
    <2>1. mode' = "off" /\ config' = Default /\ diskConfig' \in {diskConfig, Torn} /\ UNCHANGED byHand
      BY <1>4 DEF Leaves
    <2>2. diskConfig' # Torn => Checked(diskConfig', byHand')
      BY <1>0, <2>1, Zenon
    <2>3. config' \in Config /\ Checked(config', byHand')
      BY <2>1, DefaultIsOne, Zenon DEF Checked
    <2>4. diskConfig' \in Config \cup {Torn}
      BY <1>0, <2>1
    <2> QED
      BY <1>0, <2>1, <2>2, <2>3, <2>4, Zenon
  <1>5. CASE HandWrites
    <2>1. /\ mode' = "off" /\ config' = Default /\ diskConfig' \in Config
          /\ byHand' = diskConfig'
      BY <1>0, <1>5 DEF HandWrites
    <2>2. byHand' # Torn /\ SameSettings(diskConfig', byHand')
      BY <2>1, TornIsNone, SameAsItself
    <2>3. Checked(diskConfig', byHand') /\ Checked(config', byHand')
      BY <2>1, <2>2, DefaultIsOne, Zenon DEF Checked
    <2>4. OnlyChecked' /\ InStep' /\ NothingApplied'
      BY <2>1, <2>3, Zenon
    <2>5. config' \in Config /\ diskConfig' \in Config \cup {Torn} /\ byHand' \in Config \cup {Torn}
      BY <2>1, DefaultIsOne
    <2> QED
      BY <2>4, <2>5
  <1> QED
    BY <1>1, <1>2, <1>3, <1>4, <1>5, SettingsStep

\* What is typed into a form leaves one.
LEMMA TypingFits ==
  ASSUME NEW f \in Form, NEW field \in DOMAIN Typed, NEW text \in Typed[field]
  PROVE  [f EXCEPT ![field] = text] \in Form
  <1>1. CASE field = "address"
    BY <1>1, TypedAssumption DEF Form
  <1>2. CASE field = "kind"
    BY <1>2, TypedAssumption DEF Form
  <1>3. CASE field = "url"
    BY <1>3, TypedAssumption DEF Form
  <1>4. CASE field = "password"
    BY <1>4, TypedAssumption DEF Form
  <1>5. CASE field = "rpc_url"
    BY <1>5, TypedAssumption DEF Form
  <1>6. CASE field = "threads"
    BY <1>6, TypedAssumption DEF Form
  <1>7. CASE field = "network_devices"
    BY <1>7, TypedAssumption DEF Form
  <1>8. CASE field = "autostart"
    BY <1>8, TypedAssumption DEF Form
  <1> QED
    BY <1>1, <1>2, <1>3, <1>4, <1>5, <1>6, <1>7, <1>8, TypedAssumption

\* A form of the application.
LEMMA FormKept ==
  ASSUME IndInv, [Next]_vars
  PROVE  form' \in Form
  <1>0. TypeInv /\ form \in Form /\ config \in Config
    BY DEF IndInv, TypeInv
  <1>1. CASE Launch
    <2>1. form' = Filled(LoadedConfig) /\ LoadedConfig \in Config
      BY <1>1, Loaded DEF Launch, IndInv
    <2> QED
      BY <2>1, FilledIsForm
  <1>2. CASE Edit
    BY <1>0, <1>2, TypingFits DEF Edit
  <1>3. CASE Resize \/ Revert
    <2>1. form' = Filled(Draft)
      BY <1>3 DEF Resize, Revert, Rebuild, FromDraft
    <2> QED
      BY <1>0, <2>1, DraftIsConfig, FilledIsForm
  <1>4. CASE Exit
    <2>1. form' = Filled(Default)
      BY <1>4 DEF Exit
    <2> QED
      BY <2>1, DefaultIsOne, FilledIsForm
  <1>5. CASE ~Launch /\ ~Edit /\ ~Resize /\ ~Revert /\ ~Exit
    <2>1. UNCHANGED form
      BY <1>5, Zenon
      DEF Next, AppStep, LaunchHeadless, WriteByHand, Theme, Save, SaveRestart, StartStop, Refresh,
          RunFails, ShareFound, HeadlessLoop, vars, settings
    <2> QED
      BY <1>0, <2>1
  <1> QED
    BY <1>1, <1>2, <1>3, <1>4, <1>5

\* A run that begins is of the configuration that is applied.
LEMMA RunBegins ==
  ASSUME [Next]_vars
  PROVE  \/ UNCHANGED running \/ running' = Idle
         \/ running' = config' /\ config'.address.word # NoText
         \/ running' = config' /\ Saves
         \/ running' = config' /\ config' = LoadedConfig /\ LoadedConfig.address.word # NoText
  <1>1. CASE Launch \/ StartStop
    BY <1>1, Zenon DEF Launch, StartStop, StartsRun, ConfigStarted
  <1>2. CASE LaunchHeadless
    BY <1>2, Zenon DEF LaunchHeadless
  <1>3. CASE SaveRestart
    BY <1>3, Zenon DEF SaveRestart, ConfigStarted
  <1>4. CASE RunFails \/ Exit
    BY <1>4, Zenon DEF RunFails, Exit
  <1>5. CASE Edit \/ Theme \/ Save \/ Resize \/ Revert \/ Refresh
    BY <1>5, Zenon DEF Edit, Theme, Save, Resize, Revert, Refresh, miner
  <1>6. CASE ShareFound \/ HeadlessLoop \/ WriteByHand \/ UNCHANGED vars
    BY <1>6, Zenon DEF ShareFound, HeadlessLoop, WriteByHand, vars, miner
  <1> QED
    BY <1>1, <1>2, <1>3, <1>4, <1>5, <1>6 DEF Next, AppStep

\* The numbers, and what the application knows of them.
LEMMA NumbersKept ==
  ASSUME IndInv, [Next]_vars
  PROVE  NumbersInv' /\ BestKnown' /\ (diskBest' >= diskBest \/ diskBest' = 0)
  <1> USE DEF NumbersInv, BestKnown
  <1>0. NumbersInv /\ BestKnown /\ DemoBest \in Nat
    BY SettingsAssumption DEF IndInv
  <1>1. CASE Launch \/ LaunchHeadless
    <2>1. best' = diskBest /\ ever' = diskBest /\ UNCHANGED diskBest
      BY <1>1 DEF Launch, LaunchHeadless, files
    <2>2. sessionBest' = 0 \/ UNCHANGED sessionBest
      BY <1>1, Zenon DEF Launch, LaunchHeadless, StartsRun
    <2> QED
      BY <1>0, <2>1, <2>2
  <1>2. CASE Refresh
    <2> DEFINE shownBest == IF mode = "demo" THEN DemoBest
                            ELSE IF sessionBest > ever THEN sessionBest ELSE ever
    <2>1. /\ Up /\ shownBest > best /\ best' = shownBest
          /\ diskBest' \in {shownBest, diskBest, 0}
          /\ UNCHANGED <<mode, sessionBest, ever>>
      BY <1>2 DEF Refresh, WriteBest, miner
    <2>2. shownBest \in Nat
      BY <1>0
    <2>3. mode # "off"
      BY <2>1 DEF Up
    <2> HIDE DEF shownBest
    <2> QED
      BY <1>0, <2>1, <2>2, <2>3
  <1>3. CASE HeadlessLoop
    <2>1. /\ mode = "headless" /\ sessionBest > best /\ best' = sessionBest
          /\ diskBest' \in {sessionBest, diskBest, 0}
          /\ UNCHANGED <<mode, sessionBest, ever>>
      BY <1>3 DEF HeadlessLoop, Beats, WriteBest, miner
    <2> QED
      BY <1>0, <2>1
  <1>4. CASE Exit
    <2>1. mode' = "off" /\ sessionBest' = 0 /\ ever' = 0 /\ best' = 0
      BY <1>4 DEF Exit
    <2>2. diskBest' \in {diskBest, 0}
      BY <1>4, Zenon DEF Exit, files
    <2> QED
      BY <1>0, <2>1, <2>2
  <1>5. CASE ShareFound
    <2>1. UNCHANGED <<mode, diskBest, best>>
      BY <1>5 DEF ShareFound, files
    <2>2. sessionBest' \in Nat /\ ever' \in Nat
      BY <1>0, <1>5 DEF ShareFound
    <2> QED
      BY <1>0, <2>1, <2>2
  <1>6. CASE Edit \/ Theme \/ Save \/ SaveRestart \/ Resize \/ Revert \/ StartStop \/ RunFails
             \/ WriteByHand \/ UNCHANGED vars
    <2>1. UNCHANGED <<mode, diskBest, best, ever>>
      BY <1>6, Zenon DEF Edit, Theme, Save, SaveRestart, Resize, Revert, StartStop, RunFails,
                         WriteByHand, vars, files, miner
    <2>2. sessionBest' = 0 \/ UNCHANGED sessionBest
      BY <1>6, Zenon DEF Edit, Theme, Save, SaveRestart, Resize, Revert, StartStop, StartsRun,
                         RunFails, WriteByHand, vars, miner
    <2> QED
      BY <1>0, <2>1, <2>2
  <1> QED
    BY <1>1, <1>2, <1>3, <1>4, <1>5, <1>6 DEF Next, AppStep

\* What begins to run was checked, or written by hand.
LEMMA RunIsChecked ==
  ASSUME IndInv, [Next]_vars, running' # running, running' # Idle
  PROVE  /\ running' = config' /\ running'.address.word # NoText
         /\ Savable(running') \/ Untouched(running')
  <1>1. Checked(config', byHand')
    BY SettingsKept DEF OnlyChecked
  <1>2. /\ running' = config'
        /\ config'.address.word # NoText \/ Saves
    BY RunBegins, Zenon
  <1>3. Savable(config') \/ Untouched(config')
    <2>1. UNCHANGED byHand
      <3>1. UNCHANGED running \/ UNCHANGED byHand
        BY Zenon
        DEF Next, AppStep, Launch, LaunchHeadless, WriteByHand, Edit, Theme, Save, SaveRestart, Resize,
            Revert, StartStop, Refresh, RunFails, ShareFound, HeadlessLoop, Exit, vars, miner, user
      <3> QED
        BY <3>1
    <2> QED
      BY <1>1, <2>1 DEF Checked, Own, Untouched
  <1>4. Saves => config'.address.word # NoText
    BY SettingsAssumption DEF Saves, Savable
  <1> QED
    BY <1>2, <1>3, <1>4

\* A rebuild keeps the draft.
LEMMA RebuiltDraft ==
  ASSUME TypeInv, Resize
  PROVE  Draft' = Draft
  <1>1. form' = Filled(Draft) /\ config' = config
    BY DEF Resize, Rebuild, FromDraft
  <1>2. ReadForm(Filled(ReadForm(form, config)), config) = ReadForm(form, config)
    BY ReadTwice DEF TypeInv
  <1> QED
    BY <1>1, <1>2 DEF Draft

\* A save does, whether it is refused or not.
LEMMA SavedDraft ==
  ASSUME TypeInv, Save \/ SaveRestart
  PROVE  Draft' = Draft
  <1>1. form' = form /\ (config' = Draft \/ config' = config)
    BY Zenon DEF Save, SaveRestart, Saves, Refused
  <1>2. ReadForm(form, ReadForm(form, config)) = ReadForm(form, config)
    BY ReadWhenApplied DEF TypeInv
  <1> QED
    BY <1>1, <1>2 DEF Draft

\* A theme changes nothing else of it.
LEMMA ThemedDraft ==
  ASSUME TypeInv, Theme
  PROVE  SameSettings(Draft', Draft)
  <1>1. PICK theme \in {"system", "dark"} : config' = [config EXCEPT !.theme = theme]
    BY DEF Theme
  <1>2. form' = form
    BY DEF Theme
  <1>3. Draft' = [Draft EXCEPT !.theme = theme]
    BY <1>1, <1>2, ReadWhenThemed DEF Draft, TypeInv
  <1> QED
    BY <1>3, DraftIsConfig, ThemeOfConfig

\* A form that opens on settings of the program's own stands for them.
LEMMA LaunchedDraft ==
  ASSUME IndInv, Launch, byHand = Torn \/ ~SameSettings(config', byHand)
  PROVE  Draft' = config'
  <1>1. config' = LoadedConfig /\ form' = Filled(LoadedConfig)
    BY DEF Launch
  <1>2. LoadedConfig \in Config /\ Checked(LoadedConfig, byHand)
    BY Loaded DEF IndInv
  <1>3. Tidy(LoadedConfig)
    BY <1>1, <1>2 DEF Checked, Own
  <1>4. ReadForm(Filled(LoadedConfig), LoadedConfig) = LoadedConfig
    BY <1>2, <1>3, ComesBack
  <1> QED
    BY <1>1, <1>4 DEF Draft

-----------------------------------------------------------------------------
(* The theorems.                                                            *)

\* The invariant holds at first.
LEMMA IndInit == Init => IndInv
  <1> SUFFICES ASSUME Init
               PROVE  IndInv
    OBVIOUS
  <1>1. /\ config = Default /\ diskConfig = Default /\ running = Idle /\ mode = "off"
        /\ form = Filled(Default) /\ byHand = Torn
    BY DEF Init
  <1>2. form \in Form
    BY <1>1, DefaultIsOne, FilledIsForm
  <1>3. TypeInv /\ OnlyChecked
    BY <1>1, <1>2, DefaultIsOne DEF TypeInv, OnlyChecked, Checked
  <1>4. NumbersInv
    BY DEF Init, NumbersInv
  <1> QED
    BY <1>1, <1>3, <1>4 DEF IndInv, InStep, NothingApplied, BestKnown

\* Every step keeps it.
LEMMA IndKept == IndInv /\ [Next]_vars => IndInv'
  <1> SUFFICES ASSUME IndInv, [Next]_vars
               PROVE  IndInv'
    OBVIOUS
  <1>1. /\ config' \in Config /\ diskConfig' \in Config \cup {Torn}
        /\ byHand' \in Config \cup {Torn}
        /\ OnlyChecked' /\ InStep' /\ NothingApplied'
    BY SettingsKept
  <1>2. form' \in Form
    BY FormKept
  <1>3. running' \in Config \cup {Idle}
    <2>1. running \in Config \cup {Idle}
      BY DEF IndInv, TypeInv
    <2>2. running' \in {running, Idle, config'}
      BY RunBegins, Zenon
    <2> QED
      BY <1>1, <2>1, <2>2
  <1>4. NumbersInv' /\ BestKnown'
    BY NumbersKept
  <1> QED
    BY <1>1, <1>2, <1>3, <1>4 DEF IndInv, TypeInv

\* The inductive invariant is one.
THEOREM Inductive == Spec => []IndInv
  BY IndInit, IndKept, PTL DEF Spec

\* What the application goes by is what it would load again, and nothing that
\* was not checked is in the file.
THEOREM FileHoldsConfig == Spec => []FileIsTheConfig
  <1>1. ASSUME IndInv
        PROVE  FileIsTheConfig
    BY <1>1 DEF IndInv, OnlyChecked, InStep, Checked, Own, Untouched, FileIsTheConfig
  <1> QED
    BY <1>1, Inductive, PTL

\* A run that begins is of the checked and applied configuration.
THEOREM RunsWhatIsApplied == Spec => RunsTheConfig
  <1>1. ASSUME IndInv, [Next]_vars
        PROVE  [running' # running /\ running' # Idle =>
                  /\ running' = config' /\ running'.address.word # NoText
                  /\ Savable(running') \/ Untouched(running')]_vars
    BY <1>1, RunIsChecked
  <1> QED
    BY <1>1, Inductive, PTL DEF Spec, RunsTheConfig

\* Only typing changes what the form stands for, whatever it is read and filled
\* in between; and a form that was not typed in stands for what was saved.
THEOREM OnlyTypingCounts == Spec => OnlyTypingChangesTheDraft
  <1>1. ASSUME IndInv, Resize \/ Theme \/ Save \/ SaveRestart \/ StartStop
        PROVE  SameSettings(Draft', Draft)
    <2>1. TypeInv /\ SameSettings(Draft, Draft)
      BY <1>1, DraftIsConfig, SameAsItself DEF IndInv
    <2>2. CASE Resize
      BY <2>1, <2>2, RebuiltDraft
    <2>3. CASE Theme
      BY <2>1, <2>3, ThemedDraft
    <2>4. CASE Save \/ SaveRestart
      BY <2>1, <2>4, SavedDraft
    <2>5. CASE StartStop
      <3>1. form' = form /\ config' = config
        BY <2>5 DEF StartStop
      <3> QED
        BY <2>1, <3>1 DEF Draft
    <2> QED
      BY <1>1, <2>2, <2>3, <2>4, <2>5
  <1>2. ASSUME IndInv, Launch, byHand = Torn \/ ~SameSettings(config', byHand)
        PROVE  Draft' = config'
    BY <1>2, LaunchedDraft
  <1>3. ASSUME IndInv, [Next]_vars
        PROVE  [settings' # settings =>
                /\ Resize \/ Theme \/ Save \/ SaveRestart \/ StartStop => SameSettings(Draft', Draft)
                /\ Launch /\ (byHand = Torn \/ ~SameSettings(config', byHand)) => Draft' = config']_vars
    BY <1>1, <1>2, <1>3, Zenon
  <1> QED
    BY <1>3, Inductive, PTL DEF Spec, OnlyTypingChangesTheDraft

\* The best ever is not replaced by a lesser one.
THEOREM BestIsKept == Spec => BestEverKept
  <1>1. ASSUME IndInv, [Next]_vars
        PROVE  [diskBest' >= diskBest \/ diskBest' = 0]_vars
    BY <1>1, NumbersKept
  <1> QED
    BY <1>1, Inductive, PTL DEF Spec, BestEverKept
=============================================================================
