------------------------------- MODULE TxFormat -------------------------------
(***************************************************************************)
(* Bytes of transactions: little-endian numbers, variable-length numbers   *)
(* as template.rs writes and protocol.rs reads them, and the transaction   *)
(* decoder of the bitcoin library both sides of the network use.  Numbers  *)
(* stay below 2^31.                                                        *)
(***************************************************************************)
EXTENDS Integers, Sequences, SequencesExt

ZeroBytes(n) == [i \in 1..n |-> 0]
LittleEndian(n, size) == [i \in 1..size |-> IF i > 4 THEN 0 ELSE (n \div 256 ^ (i - 1)) % 256]
Largest == 2147483647
(* The number in up to eight bytes, Largest standing for all above it. *)
FromLittleEndian(b) ==
    LET Low[i \in 0..4] == IF i = 0 THEN 0
                           ELSE Low[i - 1] + (IF i > Len(b) THEN 0 ELSE b[i]) * 256 ^ (i - 1)
    IN  IF \E i \in 4..Len(b) : b[i] > (IF i = 4 THEN 127 ELSE 0) THEN Largest ELSE Low[4]
Skip(b, n) == SubSeq(b, n + 1, Len(b))

(* 0xfd, 0xfe and 0xff announce two, four and eight bytes. *)
WriteVarint(n) ==
    CASE n <= 252 -> << n >>
      [] n > 252 /\ n <= 65535 -> << 253 >> \o LittleEndian(n, 2)
      [] OTHER -> << 254 >> \o LittleEndian(n, 4)
NoNumber == [value |-> 0, size |-> 0]
ReadVarint(b) ==
    LET Announced(k) == IF Len(b) < 1 + k THEN NoNumber
                        ELSE [value |-> FromLittleEndian(SubSeq(b, 2, 1 + k)), size |-> 1 + k]
    IN  CASE b = << >> -> NoNumber
          [] b # << >> /\ b[1] = 253 -> Announced(2)
          [] b # << >> /\ b[1] = 254 -> Announced(4)
          [] b # << >> /\ b[1] = 255 -> Announced(8)
          [] OTHER -> [value |-> b[1], size |-> 1]

-----------------------------------------------------------------------------
(* bitcoin::consensus::deserialize of a transaction with one input: its    *)
(* fields, or NoTx when bytes are missing, left over or not a transaction. *)

NoTx == [ok |-> FALSE]
NoChunk == [ok |-> FALSE, bytes |-> << >>, rest |-> << >>]
Counted(b) ==
    LET v == ReadVarint(b)
    IN  IF v.size = 0 \/ v.value > Len(b) - v.size THEN NoChunk
        ELSE [ok |-> TRUE, bytes |-> SubSeq(b, v.size + 1, v.size + v.value), rest |-> Skip(b, v.size + v.value)]
Outputs(b) ==
    LET n == ReadVarint(b)
        Go[k \in Nat, rest \in Seq(Nat), outs \in Seq([value : Nat, script : Seq(Nat)])] ==
            IF k = 0 THEN [ok |-> TRUE, outs |-> outs, rest |-> rest]
            ELSE IF Len(rest) < 9 \/ ~Counted(Skip(rest, 8)).ok THEN [ok |-> FALSE, outs |-> outs, rest |-> rest]
            ELSE LET script == Counted(Skip(rest, 8))
                 IN  Go[k - 1, script.rest,
                        Append(outs, [value |-> FromLittleEndian(SubSeq(rest, 1, 8)), script |-> script.bytes])]
    IN  IF n.size = 0 THEN [ok |-> FALSE, outs |-> << >>, rest |-> b] ELSE Go[n.value, Skip(b, n.size), << >>]
(* Body after the version: one input, outputs, then the witness when the   *)
(* marker promised one, and the lock time as the last four bytes.          *)
ParseTx(b) ==
    LET segwit == Len(b) > 6 /\ b[5] = 0 /\ b[6] = 1
        input == Skip(b, IF segwit THEN 6 ELSE 4)
        script == Counted(Skip(input, 37))
        outputs == Outputs(Skip(script.rest, 4))
        items == IF segwit THEN Counted(Skip(outputs.rest, 1)) ELSE NoChunk
        lock == IF segwit THEN items.rest ELSE outputs.rest
    IN  IF Len(b) < 47 \/ Head(input) # 1 \/ ~script.ok \/ Len(script.rest) < 5 \/ ~outputs.ok
        THEN NoTx
        ELSE IF segwit /\ (outputs.rest = << >> \/ Head(outputs.rest) # 1 \/ ~items.ok) THEN NoTx
        ELSE IF Len(lock) # 4 THEN NoTx
        ELSE [ok |-> TRUE, segwit |-> segwit, prevout |-> SubSeq(input, 2, 37), script |-> script.bytes,
              sequence |-> SubSeq(script.rest, 1, 4), outs |-> outputs.outs,
              witness |-> IF segwit THEN << items.bytes >> ELSE << >>, lock |-> lock]

=============================================================================
