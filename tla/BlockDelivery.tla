---------------------------- MODULE BlockDelivery ---------------------------
(***************************************************************************)
(* What becomes of a block the devices find when mining at a node: it is   *)
(* dropped at once, or waits, is offered to the node (one at a time, maybe *)
(* more than once) and gets one verdict, which stands.  Only a block that  *)
(* the node took is counted as accepted.  A verdict of "failed" says       *)
(* nothing about the node: the answers may have been lost.                 *)
(***************************************************************************)
CONSTANT Blocks

VARIABLES
    fate,   \* block -> what the miner makes of it
    taken   \* blocks that the node has accepted

Told == {"accepted", "unclear", "failed"}
Fates == {"unfound", "dropped", "waiting", "offered", "lost"} \cup Told

Init == fate = [b \in Blocks |-> "unfound"] /\ taken = {}

Becomes(b, from, to) == fate[b] = from /\ fate' = [fate EXCEPT ![b] = to]

Found(b) == \E to \in {"dropped", "waiting"} : Becomes(b, "unfound", to) /\ UNCHANGED taken

Offer(b) ==
    /\ \A c \in Blocks : fate[c] # "offered"
    /\ Becomes(b, "waiting", "offered") /\ UNCHANGED taken

Take(b) == fate[b] = "offered" /\ taken' = taken \cup {b} /\ UNCHANGED fate

Tell(b) ==
    \E verdict \in Told :
        /\ verdict = "accepted" => b \in taken
        /\ Becomes(b, "offered", verdict) /\ UNCHANGED taken

\* The end of the run: what has no verdict will have none.
Stop ==
    /\ fate' = [b \in Blocks |-> IF fate[b] \in {"waiting", "offered"} THEN "lost" ELSE fate[b]]
    /\ UNCHANGED taken

Next == Stop \/ \E b \in Blocks : Found(b) \/ Offer(b) \/ Take(b) \/ Tell(b)

Spec == Init /\ [][Next]_<<fate, taken>>
=============================================================================
