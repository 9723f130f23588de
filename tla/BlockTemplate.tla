----------------------------- MODULE BlockTemplate -----------------------------
(***************************************************************************)
(* Node mode: a template becomes a coinbase split around the extranonce, a *)
(* merkle branch and a piece of work; a solution becomes the block for     *)
(* submitblock.  Hashes are terms: a pair of hashes is itself a hash.      *)
(***************************************************************************)
EXTENDS TxFormat

ExtranonceLen == 8
CoinbaseTag == << 47, 72, 97, 110, 83, 111, 108, 111, 47 >>    \* "/HanSolo/"
MaxU32 == << 255, 255, 255, 255 >>
NoCommitment == << >>

(* A number of one to sixteen has an opcode; others are pushed in as few   *)
(* bytes as possible, with a zero where the top bit would read as a sign.  *)
Bip34HeightPush(height) ==
    LET Bytes[h \in Nat] == IF h = 0 THEN << >> ELSE << h % 256 >> \o Bytes[h \div 256]
        num == Bytes[height]
        padded == IF num # << >> /\ Last(num) >= 128 THEN Append(num, 0) ELSE num
    IN  CASE height = 0 -> << 0 >>
          [] height \in 1..16 -> << 80 + height >>
          [] OTHER -> << Len(padded) >> \o padded

BuildCoinbase(height, value, payout, commitment) ==
    LET push == Bip34HeightPush(height)
        outs == IF commitment = NoCommitment THEN 1 ELSE 2
    IN  [prefix |-> LittleEndian(2, 4) \o << 1 >> \o ZeroBytes(32) \o MaxU32
                    \o WriteVarint(Len(push) + 1 + ExtranonceLen + 1 + Len(CoinbaseTag))
                    \o push \o << ExtranonceLen >>,
         suffix |-> << Len(CoinbaseTag) >> \o CoinbaseTag \o MaxU32
                    \o WriteVarint(outs)
                    \o LittleEndian(value, 8) \o WriteVarint(Len(payout)) \o payout
                    \o (IF outs = 1 THEN << >>
                        ELSE LittleEndian(0, 8) \o WriteVarint(Len(commitment)) \o commitment)
                    \o LittleEndian(0, 4)]

(* Marker and flag behind the version, one item of 32 zeros before the     *)
(* lock time.                                                              *)
CoinbaseWithWitness(tx) ==
    LET body == SubSeq(tx, 1, Len(tx) - 4)
    IN  SubSeq(body, 1, 4) \o << 0, 1 >> \o Skip(body, 4) \o << 1, 32 >> \o ZeroBytes(32)
        \o Skip(tx, Len(tx) - 4)

-----------------------------------------------------------------------------
Pair(a, b) == << "pair", a, b >>
TxId(tx) == << "tx", tx >>

PairUp(level) == [i \in 1..Len(level) \div 2 |-> Pair(level[2 * i - 1], level[2 * i])] \o << >>
(* Mutant: the odd one out is not paired with itself. *)
NotEvened(level) == level
Evened(level) == IF Len(level) % 2 = 1 THEN Append(level, Last(level)) ELSE level

(* The branch of index 0: the first of every level, the rest pairing up. *)
RECURSIVE MerkleBranch(_)
MerkleBranch(level) ==
    IF level = << >> THEN << >>
    ELSE << Head(level) >> \o MerkleBranch(PairUp(Evened(Tail(level))))

(* Work::coinbase, Work::merkle_root, Work::header. *)
CoinbaseOf(work, extranonce) == work.prefix \o extranonce \o work.suffix
MerkleRoot(work, extranonce) == FoldLeft(Pair, TxId(CoinbaseOf(work, extranonce)), work.branch)
HeaderOf(work, extranonce) ==
    [version |-> work.version, prev |-> work.prev, root |-> MerkleRoot(work, extranonce),
     time |-> work.time, bits |-> work.bits]

(* A template's transactions are [data, txid] records; data has no bytes. *)
TemplateWork(id, t, payout) ==
    LET c == BuildCoinbase(t.height, t.value, payout, t.commitment)
    IN  [id |-> id, version |-> t.version, prev |-> t.prev, bits |-> t.bits, time |-> t.time,
         prefix |-> c.prefix, suffix |-> c.suffix,
         branch |-> MerkleBranch([i \in 1..Len(t.txs) |-> t.txs[i].txid]), height |-> t.height]

(* The block as sent: header, count, coinbase with its witness, the rest.  *)
AssembleBlock(header, coinbase, t) ==
    << header >> \o WriteVarint(Len(t.txs) + 1)
    \o (IF t.commitment = NoCommitment THEN coinbase ELSE CoinbaseWithWitness(coinbase))
    \o [i \in 1..Len(t.txs) |-> t.txs[i].data]

-----------------------------------------------------------------------------
(* The node's side, external: what it reads out of a block and checks.     *)

(* The root over all transactions, level by level. *)
RECURSIVE NodeRoot(_)
NodeRoot(level) ==
    LET n == Len(level)
    IN  IF n = 1 THEN level[1]
        ELSE NodeRoot([i \in 1..(n + 1) \div 2 |->
                          Pair(level[2 * i - 1], level[IF 2 * i > n THEN n ELSE 2 * i])])
(* The prevout, height push, value and commitment a coinbase needs. *)
NodeTakesCoinbase(tx, t, payout) ==
    /\ tx.ok
    /\ tx.prevout = ZeroBytes(32) \o MaxU32
    /\ Len(tx.script) \in 2..100
    /\ SubSeq(tx.script, 1, Len(Bip34HeightPush(t.height))) = Bip34HeightPush(t.height)
    /\ tx.outs[1] = [value |-> t.value, script |-> payout]
    /\ IF t.commitment = NoCommitment THEN ~tx.segwit /\ Len(tx.outs) = 1
       ELSE /\ tx.segwit /\ tx.witness = << ZeroBytes(32) >>
            /\ Len(tx.outs) = 2 /\ tx.outs[2] = [value |-> 0, script |-> t.commitment]

=============================================================================
