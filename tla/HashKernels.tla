------------------------------ MODULE HashKernels ------------------------------
(***************************************************************************)
(* SHA-256d as the six CPU backends and the compute shader compute it, and *)
(* the candidates each reports for a range of nonces.  Words have Width    *)
(* bits instead of 32: rotations are taken modulo Width, a byte is a       *)
(* quarter of a word, the constants keep their low bits.  Round by round,  *)
(* word by word and vector by vector the calculation is the code's.        *)
(***************************************************************************)
EXTENDS Integers, Sequences, FiniteSets, SequencesExt

CONSTANTS Width          \* bits of a word, 32 in the code

ASSUME WidthAssumption == Width \in {8, 12, 16}

Space == 2 ^ Width
Byte == 2 ^ (Width \div 4)
Half == 2 ^ (Width \div 2)

IV == <<
    58983, 44677, 62322, 62778, 21119, 26764, 55723, 52505 >>
K == <<
    12184, 17553, 64463, 56229, 49755, 4593, 33444, 24277, 43672, 23297, 34238, 32195,
    23924, 45566, 1703, 61812, 27073, 18310, 40390, 41420, 11375, 33962, 43484, 35034,
    20818, 50797, 10184, 32711, 3059, 37191, 25425, 10599, 2693, 8504, 28156, 3347,
    29524, 2747, 51502, 11397, 59553, 26187, 35696, 20899, 59417, 1572, 13701, 41072,
    49430, 27656, 30540, 48309, 3251, 43594, 51791, 28659, 33518, 25455, 30740, 520,
    65530, 27883, 41975, 30962 >>

-----------------------------------------------------------------------------
(* Words. *)

Bit(x, i) == (x \div 2 ^ i) % 2
OfBits(B(_)) == LET From[i \in 0..Width] == IF i = Width THEN 0 ELSE From[i + 1] + 2 ^ i * B(i)
                IN  From[0]
AndHalf == [x \in 0..Half - 1 |-> [y \in 0..Half - 1 |-> OfBits(LAMBDA i : Bit(x, i) * Bit(y, i))]]
And(x, y) == AndHalf[x \div Half][y \div Half] * Half + AndHalf[x % Half][y % Half]
Or(x, y) == x + y - And(x, y)
Xor(x, y) == x + y - 2 * And(x, y)
Not(x) == Space - 1 - x
Add(x, y) == (x + y) % Space
Shr(x, r) == x \div 2 ^ r
Rotr(x, r) == LET by == 2 ^ (r % Width)
              IN  x \div by + (x % by) * (Space \div by)

(* The words of a message byte by byte, most significant byte first. *)
BytesOf(x) == << x \div Byte ^ 3, (x \div Byte ^ 2) % Byte, (x \div Byte) % Byte, x % Byte >>
WordOf(b) == ((b[1] * Byte + b[2]) * Byte + b[3]) * Byte + b[4]
SwapBytes(x) == WordOf(Reverse(BytesOf(x)))

(* One value per word, so that the rounds look it up. *)
Sig0At == [x \in 0..Space - 1 |-> Xor(Xor(Rotr(x, 7), Rotr(x, 18)), Shr(x, 3))]
Sig1At == [x \in 0..Space - 1 |-> Xor(Xor(Rotr(x, 17), Rotr(x, 19)), Shr(x, 10))]
BigSig0At == [x \in 0..Space - 1 |-> Xor(Xor(Rotr(x, 2), Rotr(x, 13)), Rotr(x, 22))]
BigSig1At == [x \in 0..Space - 1 |-> Xor(Xor(Rotr(x, 6), Rotr(x, 11)), Rotr(x, 25))]
Sig0(x) == Sig0At[x]
Sig1(x) == Sig1At[x]
BigSig0(x) == BigSig0At[x]
BigSig1(x) == BigSig1At[x]

(* Choice and majority: the textbook form of the reference, the short form *)
(* of the portable, AVX2 and shader code, NEON's bit select and AVX-512's  *)
(* truth tables, read bit by bit.                                          *)
TextbookCh(e, f, g) == Xor(And(e, f), And(Not(e), g))
TextbookMaj(a, b, c) == Xor(Xor(And(a, b), And(a, c)), And(b, c))
ShortCh(e, f, g) == Xor(g, And(e, Xor(f, g)))
ShortMaj(a, b, c) == Or(And(a, b), And(c, Or(a, b)))
BitSelect(mask, x, y) == Or(And(mask, x), And(Not(mask), y))
SelectCh(e, f, g) == BitSelect(e, f, g)
SelectMaj(a, b, c) == BitSelect(Xor(a, b), c, a)
Truth(table, x, y, z) == OfBits(LAMBDA i : Bit(table, 4 * Bit(x, i) + 2 * Bit(y, i) + Bit(z, i)))
TableCh(e, f, g) == Truth(202, e, f, g)
TableMaj(a, b, c) == Truth(232, a, b, c)

Ch(form, e, f, g) ==
    CASE form = "textbook" -> TextbookCh(e, f, g)
      [] form = "short" -> ShortCh(e, f, g)
      [] form = "select" -> SelectCh(e, f, g)
      [] form = "table" -> TableCh(e, f, g)
Maj(form, a, b, c) ==
    CASE form = "textbook" -> TextbookMaj(a, b, c)
      [] form = "short" -> ShortMaj(a, b, c)
      [] form = "select" -> SelectMaj(a, b, c)
      [] form = "table" -> TableMaj(a, b, c)

-----------------------------------------------------------------------------
(* The reference (sha.rs): message schedule, rounds, compression.          *)

Pad == Space \div 2          \* the one bit behind the message
Zeros(n) == [i \in 1..n |-> 0]
Sum4(a, b, c, d) == (a + b + c + d) % Space

Expanded(w, upTo) ==
    LET Go[v \in Seq(Nat)] ==
            LET i == Len(v)
            IN  IF i = upTo THEN v
                ELSE Go[Append(v, Sum4(v[i - 15], Sig0(v[i - 14]), v[i - 6], Sig1(v[i - 1])))]
    IN  Go[w]

Round(form, s, k, w) ==
    LET t1 == (s[8] + BigSig1(s[5]) + Ch(form, s[5], s[6], s[7]) + k + w) % Space
        t2 == BigSig0(s[1]) + Maj(form, s[1], s[2], s[3])
    IN  << (t1 + t2) % Space, s[1], s[2], s[3], Add(s[4], t1), s[5], s[6], s[7] >>

(* Rounds from..upTo - 1, numbered from 0 as in the code. *)
Rounds(form, s, w, from, upTo) ==
    LET Go[i \in from..upTo, t \in Seq(Nat)] ==
            IF i = upTo THEN t ELSE Go[i + 1, Round(form, t, K[i + 1] % Space, w[i + 1])]
    IN  Go[from, s]

AddWords(s, t) == [i \in 1..Len(s) |-> Add(s[i], t[i])] \o << >>
Start == [i \in 1..8 |-> IV[i] % Space]
CompressWords(s, w) == AddWords(s, Rounds("textbook", s, Expanded(w, 64), 0, 64))
WordsOf(bytes) == [i \in 1..Len(bytes) \div 4 |-> WordOf(SubSeq(bytes, 4 * i - 3, 4 * i))]
Digest(s) == FlattenSeq([i \in 1..8 |-> BytesOf(s[i])])

CompressAll(s, words) ==
    LET Go[t \in Seq(Nat), rest \in Seq(Nat)] ==
            IF rest = << >> THEN t
            ELSE Go[CompressWords(t, SubSeq(rest, 1, 16)), SubSeq(rest, 17, Len(rest))]
    IN  Go[s, words]

(* Padding: a one bit, zeros up to the last two words of a block, the      *)
(* length in bits (its upper half is zero for the messages that occur).    *)
Sha256(data) ==
    LET rest == Len(data) % 64
        blocks == IF rest < 56 THEN 1 ELSE 2
        tail == << Byte \div 2 >> \o Zeros(64 * blocks - 4 - rest - 1) \o BytesOf((8 * Len(data)) % Space)
    IN  Digest(CompressAll(Start, WordsOf(data \o tail)))
Sha256d(data) == Sha256(Sha256(data))

Midstate(header) == CompressWords(Start, WordsOf(SubSeq(header, 1, 64)))
InnerWords(w4) == w4 \o << Pad >> \o Zeros(10) \o << 640 % Space >>
OuterWords(inner) == inner \o << Pad >> \o Zeros(6) \o << 256 % Space >>
HeaderHashFromMidstate(mid, header) ==
    Digest(CompressWords(Start,
        OuterWords(CompressWords(mid, InnerWords(WordsOf(SubSeq(header, 65, 80)))))))
HashTopWord(hash) == WordOf(Reverse(SubSeq(hash, 29, 32)))
WithNonce(header, nonce) == SubSeq(header, 1, 76) \o Reverse(BytesOf(nonce))

-----------------------------------------------------------------------------
(* Job::from_parts and the round function the portable, AVX2, AVX-512 and  *)
(* NEON searches share.  A job's state after round 3 lacks the nonce in a  *)
(* and e; the last three rounds of the outer hash are not computed.        *)

JobOf(header, top) ==
    LET mid == Midstate(header)
        t == WordsOf(SubSeq(header, 65, 76))
        s == Rounds("textbook", mid, t, 0, 3)
        s4 == Round("textbook", s, K[4] % Space, 0)
        w16 == Add(t[1], Sig0(t[2]))
        w17 == Sum4(t[2], Sig0(t[3]), Sig1(640 % Space), 0)
    IN  [mid |-> mid, tail |-> t, top |-> top, state4 |-> s4, w16 |-> w16, w17 |-> w17,
         w18 |-> Add(t[3], Sig1(w16)), w19 |-> Add(Sig0(Pad), Sig1(w17))]

(* Words 0 to 3 of the schedule are not filled in: 16 to 19 stand for them. *)
InnerSchedule(job, n) ==
    Expanded(Zeros(4) \o << Pad >> \o Zeros(10) \o << 640 % Space >>
             \o << job.w16, job.w17, Add(job.w18, Sig0(n)), Add(n, job.w19) >>, 64)
AddNonce(s4, n) == << Add(s4[1], n), s4[2], s4[3], s4[4], Add(s4[5], n), s4[6], s4[7], s4[8] >>
(* Round 60's new e, which is h after round 63. *)
LastE(form, s, w) == Add(Round(form, s, K[61] % Space, w)[5], IV[8] % Space)
ShaTop(form, job, n) ==
    LET inner == AddWords(Rounds(form, AddNonce(job.state4, n), InnerSchedule(job, n), 4, 64), job.mid)
        w == Expanded(OuterWords(inner), 61)
    IN  LastE(form, Rounds(form, Start, w, 0, 60), w[61])

-----------------------------------------------------------------------------
(* SHA-NI: the state is two vectors of four lanes, the first lane lowest,  *)
(* abef = <f, e, b, a> and cdgh = <h, g, d, c>.  An instruction does two   *)
(* rounds and returns the new abef; the old one becomes cdgh.              *)

Vector(l0, l1, l2, l3) == << l0, l1, l2, l3 >>
Pack(s) == [cdgh |-> Vector(s[8], s[7], s[4], s[3]), abef |-> Vector(s[6], s[5], s[2], s[1])]
Unpack(p) == << p.abef[4], p.abef[3], p.cdgh[4], p.cdgh[3], p.abef[2], p.abef[1], p.cdgh[2], p.cdgh[1] >>
Rnds2(p, wk) ==
    [cdgh |-> p.abef,
     abef |-> Pack(Round("textbook", Round("textbook", Unpack(p), wk[1], 0), wk[2], 0)).abef]
Msg1(a, b) == LET w == Append(a, b[1]) IN [i \in 1..4 |-> Add(w[i], Sig0(w[i + 1]))] \o << >>
Msg2(a, b) == LET w16 == Add(a[1], Sig1(b[3]))
                  w17 == Add(a[2], Sig1(b[4]))
              IN  << w16, w17, Add(a[3], Sig1(w16)), Add(a[4], Sig1(w17)) >>
Shuffle(x, l0, l1, l2, l3) == << x[l0 + 1], x[l1 + 1], x[l2 + 1], x[l3 + 1] >>
Shuf0E(x) == Shuffle(x, 2, 3, 0, 0)
Shuf1B(x) == Shuffle(x, 3, 2, 1, 0)
ShufB1(x) == Shuffle(x, 1, 0, 3, 2)
Alignr(a, b, lanes) == SubSeq(b \o a, lanes + 1, lanes + 4)
BlendF0(a, b) == << a[1], a[2], b[3], b[4] >>

KVector(j) == [i \in 1..4 |-> K[4 * j + i] % Space]
FourRounds(p, wk) == Rnds2(Rnds2(p, wk), Shuf0E(wk))
(* m[j] from the four message vectors before it. *)
NextVector(m) == LET j == Len(m)
                 IN  Msg2(AddWords(Msg1(m[j - 3], m[j - 2]), Alignr(m[j], m[j - 1], 1)), m[j])
Vectors(m, upTo) ==
    LET Go[v \in Seq(Seq(Nat))] == IF Len(v) = upTo THEN v ELSE Go[Append(v, NextVector(v))] IN Go[m]
(* Steps from..upTo - 1 of four rounds each. *)
Steps(p, m, from, upTo) ==
    LET Go[j \in from..upTo, q \in [cdgh : Seq(Nat), abef : Seq(Nat)]] ==
            IF j = upTo THEN q ELSE Go[j + 1, FourRounds(q, AddWords(m[j + 1], KVector(j)))]
    IN  Go[from, p]

InnerVectors(tail, n) ==
    << Append(tail, n), << Pad, 0, 0, 0 >>, Zeros(4), << 0, 0, 0, 640 % Space >> >>
ShaNiTop(job, n) ==
    LET k0 == KVector(0)
        m == Vectors(InnerVectors(job.tail, n), 16)
        prepared == Rnds2(Pack(job.mid), << Add(job.tail[1], k0[1]), Add(job.tail[2], k0[2]), 0, 0 >>)
        inner == Steps(Rnds2(prepared, Shuf0E(AddWords(m[1], k0))), m, 1, 16)
        feba == Shuf1B(AddWords(inner.abef, Pack(job.mid).abef))
        dchg == ShufB1(AddWords(inner.cdgh, Pack(job.mid).cdgh))
        o == Vectors(<< BlendF0(feba, dchg), Alignr(dchg, feba, 2),
                        << Pad, 0, 0, 0 >>, << 0, 0, 0, 256 % Space >> >>, 16)
    IN  LastE("short", Unpack(Steps(Pack(Start), o, 0, 15)), o[16][1])

-----------------------------------------------------------------------------
(* ARMv8: <a, b, c, d> and <e, f, g, h>, four rounds per pair of           *)
(* instructions, of which each returns one half of the new state.          *)

HashRounds(abcd, efgh, wk) ==
    LET Go[i \in 1..5, s \in Seq(Nat)] == IF i = 5 THEN s ELSE Go[i + 1, Round("textbook", s, wk[i], 0)]
    IN  Go[1, abcd \o efgh]
Sha256h(abcd, efgh, wk) == SubSeq(HashRounds(abcd, efgh, wk), 1, 4)
Sha256h2(efgh, abcd, wk) == SubSeq(HashRounds(abcd, efgh, wk), 5, 8)
Su0(a, b) == Msg1(a, b)
Su1(t, c, d) == Msg2(AddWords(t, << c[2], c[3], c[4], d[1] >>), d)
ArmVectors(m) ==
    LET Go[v \in Seq(Seq(Nat))] ==
            LET j == Len(v)
            IN  IF j = 16 THEN v ELSE Go[Append(v, Su1(Su0(v[j - 3], v[j - 2]), v[j - 1], v[j]))]
    IN  Go[m]
ArmSteps(abcd0, efgh0, m, upTo) ==
    LET Go[j \in 0..upTo, abcd \in Seq(Nat), efgh \in Seq(Nat)] ==
            IF j = upTo THEN abcd \o efgh
            ELSE LET wk == AddWords(m[j + 1], KVector(j))
                 IN  Go[j + 1, Sha256h(abcd, efgh, wk), Sha256h2(efgh, abcd, wk)]
    IN  Go[0, abcd0, efgh0]
Armv8Top(job, n) ==
    LET inner == AddWords(ArmSteps(SubSeq(job.mid, 1, 4), SubSeq(job.mid, 5, 8),
                                   ArmVectors(InnerVectors(job.tail, n)), 16), job.mid)
        m == ArmVectors(<< SubSeq(inner, 1, 4), SubSeq(inner, 5, 8),
                           << Pad, 0, 0, 0 >>, << 0, 0, 0, 256 % Space >> >>)
    IN  LastE("short", ArmSteps(SubSeq(Start, 1, 4), SubSeq(Start, 5, 8), m, 15), m[16][1])

-----------------------------------------------------------------------------
(* Backend::search.  A backend appends the candidates of a range in order; *)
(* the vector backends leave a remainder, and every backend the CPU lacks  *)
(* leaves the whole range, to the portable code.                           *)

(* Lanes are the nonces of one pass of a backend's loop; for the ARMv8     *)
(* extension that is armv8.rs's LANES, of which Backend::lanes says 1.     *)
Backends == {"Scalar", "ShaNi", "Armv8Sha2", "Neon", "Avx2", "Avx512"}
Lanes == [Scalar |-> 1, ShaNi |-> 1, Armv8Sha2 |-> 2, Neon |-> 4, Avx2 |-> 8, Avx512 |-> 16]
Nonces(start, count) == [i \in 1..count |-> Add(start, i - 1)]
Passes(job, h7) == SwapBytes(h7) <= job.top
(* The nonces of the blocks before the remainder, a lane each. *)
InLanes(lanes, start, count) ==
    FlattenSeq([b \in 1..count \div lanes |->
                    [lane \in 1..lanes |-> Add(Add(start, (b - 1) * lanes), lane - 1)]])
Full(lanes, count) == count - (count % lanes)

ScalarSearch(job, start, count) ==
    SelectSeq(Nonces(start, count), LAMBDA nonce : Passes(job, ShaTop("short", job, SwapBytes(nonce))))

ShaNiSearch(job, start, count) ==
    SelectSeq(Nonces(start, count), LAMBDA nonce : Passes(job, ShaNiTop(job, SwapBytes(nonce))))

Armv8Search(job, start, count) ==
    LET full == Full(Lanes.Armv8Sha2, count)
        Hit(nonce) == Passes(job, Armv8Top(job, SwapBytes(nonce)))
    IN  SelectSeq(InLanes(Lanes.Armv8Sha2, start, full), Hit)
        \o SelectSeq(Nonces(Add(start, full), count - full), Hit)

NeonSearch(job, start, count) ==
    LET full == Full(Lanes.Neon, count)
        Hit(nonce) == Passes(job, ShaTop("select", job, SwapBytes(nonce)))
    IN  SelectSeq(InLanes(Lanes.Neon, start, full), Hit)
        \o ScalarSearch(job, Add(start, full), count - full)

(* Mutant: the remainder is searched from the start of the range. *)
RestFromStart(job, start, count) ==
    LET full == Full(Lanes.Avx2, count)
        Hit(nonce) == LET h7 == ShaTop("short", job, SwapBytes(nonce))
                      IN  IF job.top = 0 THEN h7 = 0 ELSE Passes(job, h7)
    IN  SelectSeq(InLanes(Lanes.Avx2, start, full), Hit)
        \o ScalarSearch(job, start, count - full)

(* The x86 vectors compare a zero target without the byte swap. *)
Avx2Search(job, start, count) ==
    LET full == Full(Lanes.Avx2, count)
        Hit(nonce) == LET h7 == ShaTop("short", job, SwapBytes(nonce))
                      IN  IF job.top = 0 THEN h7 = 0 ELSE Passes(job, h7)
    IN  SelectSeq(InLanes(Lanes.Avx2, start, full), Hit)
        \o ScalarSearch(job, Add(start, full), count - full)

Avx512Search(job, start, count) ==
    LET full == Full(Lanes.Avx512, count)
        Hit(nonce) == LET h7 == ShaTop("table", job, SwapBytes(nonce))
                      IN  IF job.top = 0 THEN h7 = 0 ELSE Passes(job, h7)
    IN  SelectSeq(InLanes(Lanes.Avx512, start, full), Hit)
        \o ScalarSearch(job, Add(start, full), count - full)

Search(backend, supported, job, start, count) ==
    CASE backend = "ShaNi" /\ backend \in supported -> ShaNiSearch(job, start, count)
      [] backend = "Avx2" /\ backend \in supported -> Avx2Search(job, start, count)
      [] backend = "Avx512" /\ backend \in supported -> Avx512Search(job, start, count)
      [] backend = "Armv8Sha2" /\ backend \in supported -> Armv8Search(job, start, count)
      [] backend = "Neon" /\ backend \in supported -> NeonSearch(job, start, count)
      [] OTHER -> ScalarSearch(job, start, count)

(* What a search has to find: the nonces whose header hashes to a number   *)
(* that begins at or below the target's first word.                        *)
ReferenceCandidates(header, start, count, top) ==
    SelectSeq(Nonces(start, count),
        LAMBDA nonce : HashTopWord(HeaderHashFromMidstate(Midstate(header), WithNonce(header, nonce))) <= top)

-----------------------------------------------------------------------------
(* The shader, and the dispatch that fills its parameters.  Message words  *)
(* known when the shader is written are literals, zeros left out of sums.  *)

GpuParams(job, start, count, row, capacity) ==
    job.mid \o job.state4 \o << job.w16, job.w17, job.w18, job.w19, start, count, row, job.top, capacity >>
Param(p, index) == p[index + 1]

ShaderExpanded(w, zeros, upTo) ==
    LET Go[v \in Seq(Nat)] ==
            LET i == Len(v)
                Term(j, x) == IF j \in zeros THEN 0 ELSE x
            IN  IF i = upTo THEN v
                ELSE Go[Append(v, Sum4(Term(i - 16, v[i - 15]), Term(i - 15, Sig0(v[i - 14])),
                                       Term(i - 7, v[i - 6]), Term(i - 2, Sig1(v[i - 1]))))]
    IN  Go[w]
ShaderTop(p, nonce) ==
    LET word == SwapBytes(nonce)
        w == ShaderExpanded(Zeros(4) \o << Pad >> \o Zeros(10)
                 \o << 640 % Space, Param(p, 16), Param(p, 17), Add(Param(p, 18), Sig0(word)),
                       Add(word, Param(p, 19)) >>, 5..14, 64)
        inner == AddWords(Rounds("short", AddNonce(SubSeq(p, 9, 16), word), w, 4, 64), SubSeq(p, 1, 8))
        v == ShaderExpanded(OuterWords(inner), 9..14, 61)
    IN  SwapBytes(LastE("short", Rounds("short", Start, v, 0, 60), v[61]))

CeilDiv(a, b) == (a + b - 1) \div b
(* The grid of invocations: rows of workgroups, as many in a row as the    *)
(* adapter takes.  An invocation finds its nonce from its two coordinates. *)
Grid(count, workgroup, maxGroups) ==
    LET groups == CeilDiv(count, workgroup)
        inRow == IF groups < maxGroups THEN groups ELSE maxGroups
    IN  [row |-> inRow * workgroup, rows |-> CeilDiv(groups, inRow)]
Invocations(grid) == (0..grid.row - 1) \X (0..grid.rows - 1)
IndexOf(gid, row) == gid[2] * row + gid[1]

(* No dispatch when the batch is too large for the adapter.  Invocations   *)
(* in range that pass take a slot while one is left.                       *)
Dispatch(job, start, count, workgroup, maxGroups, capacity) ==
    LET grid == Grid(count, workgroup, maxGroups)
        p == GpuParams(job, start, count, grid.row, capacity)
        Index(gid) == IndexOf(gid, Param(p, 22))
        NonceOf(gid) == Add(Param(p, 20), Index(gid))
        hits == {gid \in Invocations(grid) :
                    /\ Index(gid) < Param(p, 21)
                    /\ ShaderTop(p, NonceOf(gid)) <= Param(p, 23)}
    IN  IF count = 0 THEN [ok |-> TRUE, slots |-> << >>, complete |-> TRUE]
        ELSE IF grid.rows > maxGroups THEN [ok |-> FALSE, slots |-> << >>, complete |-> FALSE]
        ELSE LET order == FoldSet(LAMBDA n, taken : Append(taken, n), << >>, {NonceOf(gid) : gid \in hits})
             IN  [ok |-> TRUE, complete |-> Cardinality(hits) <= Param(p, 24),
                  slots |-> SubSeq(order, 1, IF Len(order) < Param(p, 24) THEN Len(order) ELSE Param(p, 24))]

(* GpuDevice::run: an incomplete batch is searched again on the CPU. *)
GpuCandidates(d, fallback, job, start, count) ==
    IF d.complete THEN d.slots ELSE Search(fallback, Backends, job, start, count)

=============================================================================
