---------------------------- MODULE MinerHandle -----------------------------
(***************************************************************************)
(* What the Miner handle of hansolo-engine (lib.rs) promises an embedder,  *)
(* whatever its threads do: the snapshot shows one run at a time, runs are *)
(* shown in the order they were started, the status moves only along the   *)
(* stages of a run, and once the miner shows Stopped or Error it shows that *)
(* until the next start.                                                   *)
(***************************************************************************)
EXTENDS Naturals

VARIABLES
    shown,  \* the run the snapshot is about: 0 before the first start
    status  \* snapshot.status

Stages == {"Detecting", "Benchmarking", "Connecting", "Mining", "Reconnecting"}
Ends == {"Stopped", "Error"}

\* The stages that may follow each stage within a run.
After(s) ==
    CASE s = "Detecting"    -> {"Benchmarking", "Connecting"}
      [] s = "Benchmarking" -> {"Connecting"}
      [] s = "Connecting"   -> {"Mining", "Reconnecting"}
      [] s = "Mining"       -> {"Reconnecting"}
      [] s = "Reconnecting" -> {"Mining"}

Init == shown = 0 /\ status = "Stopped"

Start == shown' = shown + 1 /\ status' = "Detecting"

Advance == status \in Stages /\ status' \in After(status) /\ UNCHANGED shown

End == status \in Stages /\ status' \in Ends /\ UNCHANGED shown

Next == Start \/ Advance \/ End

Spec == Init /\ [][Next]_<<shown, status>>
=============================================================================
