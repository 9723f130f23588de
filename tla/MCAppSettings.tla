---------------------------- MODULE MCAppSettings ----------------------------
(***************************************************************************)
(* Small instances of AppSettings: at least one text for every way in      *)
(* which a field is read, and two files as users of headless mode write    *)
(* them, with what the form cannot say or would not let pass.              *)
(***************************************************************************)
EXTENDS AppSettings

Spaced(word) == [word |-> word, padded |-> TRUE]
Number(n) == [number |-> n, padded |-> TRUE]

MCTyped ==
    [address |-> {Spaced("bc1q"), Just("implausible")},
     kind |-> {"pool", "node"},
     url |-> {Just(NoText)},
     password |-> {Spaced("secret")},
     rpc_url |-> {Spaced("node")},
     threads |-> {Number(0), Number(4)},
     network_devices |-> {{Just("axe"), Spaced("nerd"), Just(NoText)}},
     autostart |-> BOOLEAN]

MCHandWritten ==
    {[Default EXCEPT !.address = Spaced("bc1q"), !.threads = 0, !.autostart = TRUE,
                     !.source = [kind |-> "node", rpc_url |-> Just(NoText), poll |-> 10]],
     [Default EXCEPT !.address = Spaced(NoText), !.network_devices = {Spaced("axe"), Just(NoText)},
                     !.source = [kind |-> "pool", url |-> Just("pool"), password |-> Just(NoText)]]}
=============================================================================
