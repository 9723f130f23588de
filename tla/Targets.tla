-------------------------------- MODULE Targets --------------------------------
(***************************************************************************)
(* target.rs with small numbers: TargetBytes bytes of BitsPerByte bits     *)
(* instead of 32 of eight, TopBytes instead of four in the word the        *)
(* backends compare, floats with a mantissa of Precision bits instead of   *)
(* 53.  Targets are big-endian, hashes little-endian.                      *)
(***************************************************************************)
EXTENDS Integers, Sequences

CONSTANTS TargetBytes, BitsPerByte, TopBytes, Precision,
          Diff1Exponent           \* 208: difficulty one is 65535 * 2^208

ASSUME TargetAssumption ==
    /\ {TargetBytes, BitsPerByte, TopBytes, Precision, Diff1Exponent} \subseteq Nat
    /\ TopBytes \in 1..TargetBytes

Radix == 2 ^ BitsPerByte
TargetBits == TargetBytes * BitsPerByte
MaxTarget == [i \in 1..TargetBytes |-> Radix - 1]
NoTarget == [i \in 1..TargetBytes |-> 0]

(* Mantissa digits m[1..3], the first the highest; its top bit is a sign.  *)
(* Digits that fall off either end are lost.                               *)
FromCompact(exponent, m) ==
    IF m[1] >= Radix \div 2 THEN NoTarget
    ELSE [i \in 1..TargetBytes |->
             LET power == TargetBytes - i
                 place == exponent - power      \* which digit has this power
             IN  IF place \in 1..3 THEN m[place] ELSE 0]

(* 65535 / difficulty as a float: mantissa * 2^exponent, the first bit of  *)
(* the mantissa set.  Bits below the point are lost, and so are bits above *)
(* the last byte while the last bit of the mantissa is below it.           *)
FromDifficulty(mantissa, exponent) ==
    LET shift == exponent + Diff1Exponent
        BitAt(n, position) == (n \div 2 ^ position) % 2
        Placed(position) == IF position - shift \in 0..Precision - 1
                            THEN BitAt(mantissa, position - shift) ELSE 0
        DigitOf(power) == LET Sum[b \in 0..BitsPerByte] ==
                                  IF b = 0 THEN 0
                                  ELSE Sum[b - 1] + Placed(power * BitsPerByte + b - 1) * 2 ^ (b - 1)
                          IN  Sum[BitsPerByte]
    IN  IF shift >= TargetBits THEN MaxTarget
        ELSE [i \in 1..TargetBytes |-> DigitOf(TargetBytes - i)]

IsMetBy(target, hash) ==
    LET differs == {i \in 1..TargetBytes : hash[TargetBytes + 1 - i] # target[i]}
        first == CHOOSE i \in differs : \A j \in differs : i <= j
    IN  differs = {} \/ hash[TargetBytes + 1 - first] < target[first]

(* A big-endian number, a hash as one, and the words the backends compare. *)
Number(digits) == LET From[i \in 0..Len(digits)] == IF i = 0 THEN 0 ELSE From[i - 1] * Radix + digits[i]
                  IN  From[Len(digits)]
TopWord(target) == Number(SubSeq(target \o << >>, 1, TopBytes))
BigEndian(hash) == [i \in 1..TargetBytes |-> hash[TargetBytes + 1 - i]]

LeadingZeroBits(hash) ==
    LET used == {i \in 1..TargetBytes : hash[i] # 0}
        last == CHOOSE i \in used : \A j \in used : i >= j
        zeros == CHOOSE z \in 0..BitsPerByte - 1 : hash[last] \in 2 ^ (BitsPerByte - 1 - z)..2 ^ (BitsPerByte - z) - 1
    IN  IF used = {} THEN TargetBits ELSE (TargetBytes - last) * BitsPerByte + zeros

-----------------------------------------------------------------------------
(* The byte-wise comparison is the one of numbers (Target::is_met_by). *)
ComparesAsNumber(target, hash) == IsMetBy(target, hash) <=> Number(BigEndian(hash)) <= Number(target)

(* A hash that meets the target is never filtered out by its first word,   *)
(* the only one that the backends look at (Target::top_word).              *)
PassesTheFilter(target, hash) == IsMetBy(target, hash) => TopWord(BigEndian(hash)) <= TopWord(target)

=============================================================================
