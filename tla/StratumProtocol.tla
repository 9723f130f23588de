---------------------------- MODULE StratumProtocol ----------------------------
(***************************************************************************)
(* Stratum messages without a socket: what a notify must hold, the byte    *)
(* order of the previous hash, the size of extranonce2, the work built     *)
(* from a notify, and what an answer to a submit says.                     *)
(***************************************************************************)
EXTENDS BlockTemplate

None == -1

(* Values of JSON as far as the parsers look: strings of hex digits carry  *)
(* the bytes they decode to, or Bad.                                       *)
Bad == << -1 >>
Str(bytes) == [type |-> "string", bytes |-> bytes]
Num(n) == [type |-> "number", n |-> n]
Arr(items) == [type |-> "array", items |-> items]
Bool(b) == [type |-> "bool", b |-> b]
Null == [type |-> "null"]

-----------------------------------------------------------------------------
(* mining.notify *)

HexBytes(v) == IF v.type = "string" THEN v.bytes ELSE Bad
HexU32(v) == CASE v.type = "string" /\ v.bytes # Bad /\ Len(v.bytes) \in 1..4 -> FromLittleEndian(Reverse(v.bytes))
               [] v.type = "number" /\ v.n >= 0 -> v.n
               [] OTHER -> None

(* Each of the eight words of four bytes turned round. *)
StratumPrevHashToInternal(bytes) ==
    IF Len(bytes) # 32 THEN Bad
    ELSE [i \in 1..32 |-> LET word == (i - 1) \div 4 IN bytes[4 * word + 5 - (i - 4 * word)]] \o << >>

BadNotify == [ok |-> FALSE]
ParseNotify(params) ==
    IF params.type # "array" \/ Len(params.items) < 8 THEN BadNotify
    ELSE LET p == params.items
             prev == StratumPrevHashToInternal(HexBytes(p[2]))
             branch == IF p[5].type = "array" THEN [i \in 1..Len(p[5].items) |-> HexBytes(p[5].items[i])] \o << >>
                       ELSE << Bad >>
         IN  IF \/ p[1].type \notin {"string", "number"} \/ prev = Bad
                \/ \E i \in 1..Len(branch) : Len(branch[i]) # 32
                \/ Bad \in {HexBytes(p[3]), HexBytes(p[4])}
                \/ None \in {HexU32(p[6]), HexU32(p[7]), HexU32(p[8])}
             THEN BadNotify
             ELSE [ok |-> TRUE, prev |-> prev, coinb1 |-> HexBytes(p[3]), coinb2 |-> HexBytes(p[4]),
                   branch |-> branch, version |-> HexU32(p[6]), bits |-> HexU32(p[7]), time |-> HexU32(p[8]),
                   clean |-> Len(p) > 8 /\ p[9].type = "bool" /\ p[9].b]

-----------------------------------------------------------------------------
(* The first size that makes a transaction of the parts: the pool's hint,  *)
(* then eight, then any up to 32.                                          *)
Parses(coinb1, extranonce1, coinb2, n) == ParseTx(coinb1 \o extranonce1 \o ZeroBytes(n) \o coinb2).ok
Extranonce2Size(coinb1, extranonce1, coinb2, hint) ==
    LET tried == (IF hint = None THEN << >> ELSE << hint >>) \o << ExtranonceLen >> \o [i \in 1..33 |-> i - 1]
        fits == SelectSeq(tried, LAMBDA n : n <= 32 /\ Parses(coinb1, extranonce1, coinb2, n))
    IN  IF fits = << >> THEN None ELSE fits[1]

(* Where the script of the first input starts, and its declared length. *)
ScriptSigSpan(tx) ==
    LET inputs == IF Len(tx) > 5 /\ tx[5] = 0 /\ tx[6] = 1 THEN 6 ELSE 4
        count == ReadVarint(Skip(tx, inputs))
        at == inputs + count.size + 36
        length == IF Len(tx) < at THEN NoNumber ELSE ReadVarint(Skip(tx, at))
    IN  IF Len(tx) < inputs \/ count.size = 0 \/ length.size = 0 THEN NoNumber
        ELSE [value |-> length.value, size |-> at + length.size]

ParseBip34Height(script) ==
    IF script = << >> THEN None
    ELSE LET op == script[1]
         IN  CASE op = 0 -> 0
               [] op \in 81..96 -> op - 80
               [] op \in 1..8 -> IF Len(script) < 1 + op \/ script[1 + op] >= 128 THEN None
                                 ELSE FromLittleEndian(SubSeq(script, 2, 1 + op))
               [] OTHER -> None
CoinbaseHeight(start) ==
    LET span == ScriptSigSpan(start)
        end == IF Len(start) - span.size < span.value THEN Len(start) ELSE span.size + span.value
    IN  IF span = NoNumber THEN None ELSE ParseBip34Height(SubSeq(start, span.size + 1, end))

(* Work from a notify, with zeros in front of the device's eight bytes     *)
(* when the pool expects more; the size it expects cannot be less.         *)
NoStratumWork == [ok |-> FALSE]
StratumWork(id, notify, extranonce1, size) ==
    IF size < ExtranonceLen THEN NoStratumWork
    ELSE LET pad == size - ExtranonceLen
             prefix == notify.coinb1 \o extranonce1 \o ZeroBytes(pad)
         IN  [ok |-> TRUE, pad |-> pad,
              work |-> [id |-> id, version |-> notify.version, prev |-> notify.prev, bits |-> notify.bits,
                        time |-> notify.time, prefix |-> prefix, suffix |-> notify.coinb2,
                        branch |-> notify.branch, height |-> CoinbaseHeight(prefix)]]
(* The extranonce2 of mining.submit. *)
Submitted2(pad, extranonce) == ZeroBytes(pad) \o extranonce

-----------------------------------------------------------------------------
(* An answer to mining.submit.  Errors come as arrays, objects or text;    *)
(* the text matters only for the word stale.                               *)
Stale == "stale"
SubmitVerdict(result, error) ==
    LET Field(i, name) == CASE error.type = "array" -> IF Len(error.items) >= i THEN error.items[i] ELSE Null
                            [] error.type = "object" -> error[name]
                            [] OTHER -> IF name = "message" THEN error ELSE Null
        code == Field(1, "code")
        message == Field(2, "message")
    IN  IF error = Null THEN IF result = Bool(TRUE) THEN "Accepted" ELSE "Rejected"
        ELSE IF code = Num(21) \/ (message.type = "string" /\ message.bytes = Stale) THEN "Stale"
        ELSE "Rejected"

=============================================================================
