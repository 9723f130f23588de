------------------------- MODULE MCStratumConnection ------------------------
EXTENDS StratumConnection

MCHosts == {"pool", "sister", "foreign"}
MCSite == [host \in MCHosts |-> IF host = "sister" THEN "pool" ELSE host]
MCHome == [host |-> "pool", port |-> 1]
=============================================================================
