--------------------------- MODULE AlgorithmsProofs ---------------------------
(***************************************************************************)
(* Theorems about algorithms, for numbers of any size: a hash is compared  *)
(* with a target of any number of bytes, and every nonce of a range is     *)
(* hashed once, be it by vectors and a remainder, by the grid of a GPU, or *)
(* by one dispatch after the other.                                        *)
(*                                                                         *)
(* They need induction over digits, vectors and dispatches.  It is done by *)
(* a least counterexample: a set of natural numbers with an element has a  *)
(* least one (LeastNumber), because finite sets are well-founded under     *)
(* inclusion.                                                              *)
(***************************************************************************)
EXTENDS HashKernels, HardwarePlan, Targets, SequenceTheorems, FiniteSetTheorems, TLAPS

-----------------------------------------------------------------------------
(* Induction. *)

\* A set of natural numbers that is not empty has a least element.
LEMMA LeastNumber ==
  ASSUME NEW T \in SUBSET Nat, NEW n \in T
  PROVE  \E m \in T : \A k \in T : m <= k
  <1> DEFINE Below == {0..m : m \in T}
             R == StrictSubsetOrdering(Nat)
             S == FiniteSubsetsOf(Nat)
  <1>1. IsWellFoundedOn(R, S)
    BY FS_StrictSubsetOrderingWellFounded
  <1>2. Below \subseteq S
    <2> SUFFICES ASSUME NEW m \in T
                 PROVE  0..m \in S
      OBVIOUS
    <2>1. IsFiniteSet(0..m)
      BY FS_Interval
    <2>2. 0..m \in SUBSET Nat
      OBVIOUS
    <2> QED
      BY <2>1, <2>2 DEF FiniteSubsetsOf
  <1>3. Below # {}
    OBVIOUS
  <1>4. \E X \in Below : \A Y \in Below : << Y, X >> \notin R
    <2> HIDE DEF Below, R, S
    <2> QED
      BY <1>1, <1>2, <1>3, WFMin
  <1>5. PICK m \in T : \A k \in T : << 0..k, 0..m >> \notin R
    BY <1>4
  <1>6. ASSUME NEW k \in T, k < m
        PROVE  FALSE
    <2>1. 0..k \in SUBSET Nat /\ 0..m \in SUBSET Nat
      OBVIOUS
    <2>2. 0..k \subseteq 0..m
      BY <1>6
    <2>3. m \in 0..m /\ m \notin 0..k
      BY <1>6
    <2>4. << 0..k, 0..m >> \in R
      <3> DEFINE A == 0..k
                 B == 0..m
      <3>1. A \in SUBSET Nat /\ B \in SUBSET Nat /\ A \subseteq B /\ A # B
        BY <2>1, <2>2, <2>3
      <3> HIDE DEF A, B
      <3>2. << A, B >> \in StrictSubsetOrdering(Nat)
        BY <3>1 DEF StrictSubsetOrdering
      <3> QED
        BY <3>2 DEF A, B
    <2> QED
      BY <1>5, <2>4
  <1> QED
    <2>1. \A k \in T : m <= k
      BY <1>6
    <2> QED
      BY <2>1

\* What holds at 0 and is handed on up to n holds up to n.
LEMMA UpTo ==
  ASSUME NEW n \in Nat, NEW P \in SUBSET Nat, 0 \in P,
         \A i \in 1..n : i - 1 \in P => i \in P
  PROVE  0..n \subseteq P
  <1> SUFFICES ASSUME NEW j \in 0..n, j \notin P
               PROVE  FALSE
    OBVIOUS
  <1> DEFINE T == {i \in 0..n : i \notin P}
  <1>1. T \in SUBSET Nat /\ j \in T
    OBVIOUS
  <1>2. PICK m \in T : \A k \in T : m <= k
    <2> HIDE DEF T
    <2> QED
      BY <1>1, LeastNumber
  <1>3. m \in 1..n /\ m - 1 \in 0..n
    OBVIOUS
  <1>4. m - 1 \notin T
    <2> HIDE DEF T
    <2> QED
      BY <1>2, <1>3
  <1> QED
    BY <1>3, <1>4

\* A product grows with its factor.
LEMMA ProductGrows ==
  ASSUME NEW m \in Nat, NEW x \in Nat, NEW y \in Nat, x <= y
  PROVE  x * m \in Nat /\ y * m \in Nat /\ x * m <= y * m
  <1>1. PICK z \in Nat : y = x + z
    <2>1. y - x \in Nat /\ y = x + (y - x)
      OBVIOUS
    <2> QED
      BY <2>1
  <1>2. y * m = x * m + z * m /\ x * m \in Nat /\ z * m \in Nat
    BY <1>1
  <1> QED
    BY <1>2

-----------------------------------------------------------------------------
(* Numbers and their digits. *)

(* F[i] is the number of the first i digits. *)
Leading(F, digits, n) ==
    /\ F \in [0..n -> Nat]
    /\ F[0] = 0
    /\ \A i \in 1..n : F[i] = F[i - 1] * Radix + digits[i]

\* Two to any number is positive: it is the number of subsets of a set.
LEMMA PowerIsPositive ==
  ASSUME NEW n \in Nat
  PROVE  2 ^ n \in Nat \ {0}
  <1> DEFINE S == 1..n
  <1>1. IsFiniteSet(S) /\ Cardinality(S) = n
    BY FS_Interval
  <1> HIDE DEF S
  <1>2. IsFiniteSet(SUBSET S) /\ Cardinality(SUBSET S) = 2 ^ n
    BY <1>1, FS_SUBSET
  <1>3. SUBSET S # {}
    OBVIOUS
  <1> QED
    BY <1>2, <1>3, FS_CardinalityType, FS_EmptySet

\* There is at least one digit.
LEMMA RadixIsPositive == Radix \in Nat \ {0}
  <1>1. BitsPerByte \in Nat
    BY TargetAssumption
  <1> QED
    BY <1>1, PowerIsPositive DEF Radix

\* One more digit makes a number of a number.
LEMMA OneMoreDigit ==
  ASSUME NEW x \in Nat, NEW digit \in Nat
  PROVE  x * Radix + digit \in Nat
  <1>1. PICK r \in Nat : r = Radix
    BY RadixIsPositive
  <1>2. x * r + digit \in Nat
    OBVIOUS
  <1> QED
    BY <1>1, <1>2

\* Digits can be evaluated one after the other.
LEMMA PrefixesExist ==
  ASSUME NEW n \in Nat, NEW d \in [1..n -> Nat]
  PROVE  \E F : Leading(F, d, n)
  <1> DEFINE P == {k \in 0..n : \E F : Leading(F, d, k)}
  <1>1. 0 \in P
    <2> DEFINE F == [i \in 0..0 |-> 0]
    <2>1. Leading(F, d, 0)
      BY DEF Leading
    <2> QED
      BY <2>1
  <1>2. ASSUME NEW i \in 1..n, i - 1 \in P
        PROVE  i \in P
    <2>1. PICK F : Leading(F, d, i - 1)
      BY <1>2
    <2> DEFINE G == [j \in 0..i |-> IF j = i THEN F[i - 1] * Radix + d[i] ELSE F[j]]
    <2>2. F[i - 1] \in Nat /\ d[i] \in Nat
      BY <2>1 DEF Leading
    <2>3. F[i - 1] * Radix + d[i] \in Nat
      BY <2>2, OneMoreDigit
    <2>4. G \in [0..i -> Nat]
      BY <2>1, <2>3 DEF Leading
    <2>5. G[0] = 0
      BY <2>1 DEF Leading
    <2>6. ASSUME NEW j \in 1..i
          PROVE  G[j] = G[j - 1] * Radix + d[j]
      <3>1. CASE j = i
        <4>1. G[j] = F[i - 1] * Radix + d[i] /\ G[j - 1] = F[i - 1]
          BY <3>1
        <4> HIDE DEF G
        <4> QED
          BY <3>1, <4>1
      <3>2. CASE j # i
        <4>1. G[j] = F[j] /\ G[j - 1] = F[j - 1] /\ j \in 1..(i - 1)
          BY <3>2
        <4> HIDE DEF G
        <4> QED
          BY <2>1, <4>1 DEF Leading
      <3> QED
        BY <3>1, <3>2
    <2>7. Leading(G, d, i)
      <3> HIDE DEF G
      <3> QED
        BY <2>4, <2>5, <2>6 DEF Leading
    <2> QED
      BY <2>7
  <1>3. 0..n \subseteq P
    <2>1. P \in SUBSET Nat
      OBVIOUS
    <2> HIDE DEF P
    <2> QED
      BY <1>1, <1>2, <2>1, UpTo
  <1> QED
    BY <1>3

\* Number evaluates them so: its recursive definition has a solution, and every
\* solution starts and goes on like this.
LEMMA NumberIsPrefix ==
  ASSUME NEW d \in Seq(Nat)
  PROVE  \E F : Leading(F, d, Len(d)) /\ Number(d) = F[Len(d)]
  <1> DEFINE n == Len(d)
             Step(F, i) == IF i = 0 THEN 0 ELSE F[i - 1] * Radix + d[i]
             Solves(F) == F = [i \in 0..n |-> Step(F, i)]
             From == CHOOSE F : Solves(F)
  <1>1. n \in Nat /\ d \in [1..n -> Nat]
    OBVIOUS
  <1> HIDE DEF n
  <1>2. \E F : Solves(F)
    <2>1. PICK F : Leading(F, d, n)
      BY <1>1, PrefixesExist
    <2>2. \A i \in 0..n : F[i] = Step(F, i)
      BY <1>1, <2>1 DEF Leading
    <2>3. F = [i \in 0..n |-> Step(F, i)]
      <3> HIDE DEF Step
      <3> QED
        BY <2>1, <2>2 DEF Leading
    <2> QED
      BY <2>3
  <1>3. Solves(From)
    <2> HIDE DEF Solves
    <2> QED
      BY <1>2
  <1>4. Number(d) = From[n]
    BY DEF Number, n
  <1> HIDE DEF From
  <1>5. From[0] = 0 /\ \A i \in 1..n : From[i] = From[i - 1] * Radix + d[i]
    <2>1. \A i \in 0..n : From[i] = Step(From, i)
      <3> HIDE DEF Step
      <3> QED
        BY <1>3
    <2> QED
      BY <1>1, <2>1
  <1>6. \A i \in 0..n : From[i] \in Nat
    <2> DEFINE P == {i \in 0..n : From[i] \in Nat}
    <2>1. P \in SUBSET Nat /\ 0 \in P
      BY <1>1, <1>5
    <2>2. ASSUME NEW i \in 1..n, i - 1 \in P
          PROVE  i \in P
      <3>1. From[i - 1] \in Nat /\ d[i] \in Nat
        BY <1>1, <2>2
      <3>2. From[i - 1] * Radix + d[i] \in Nat
        BY <3>1, OneMoreDigit
      <3> QED
        BY <1>5, <3>2
    <2> HIDE DEF P
    <2>3. 0..n \subseteq P
      BY <1>1, <2>1, <2>2, UpTo
    <2> QED
      BY <2>3 DEF P
  <1>7. Leading(From, d, n)
    <2>1. From \in [0..n -> Nat]
      <3> HIDE DEF Step
      <3> QED
        BY <1>3, <1>6
    <2> QED
      BY <1>5, <2>1 DEF Leading
  <1> QED
    BY <1>4, <1>7 DEF n

-----------------------------------------------------------------------------
(* Comparing digit by digit. *)

Digit == 0..Radix - 1

\* Equal digits make equal numbers.
LEMMA EqualDigits ==
  ASSUME NEW n \in Nat, NEW F, NEW a, Leading(F, a, n),
         NEW l \in Nat, NEW G, NEW b, Leading(G, b, l),
         NEW m \in 0..n, m <= l, \A j \in 1..m : a[j] = b[j]
  PROVE  \A i \in 0..m : F[i] = G[i]
  <1> DEFINE P == {i \in 0..m : F[i] = G[i]}
  <1>1. P \in SUBSET Nat /\ 0 \in P
    BY DEF Leading
  <1>2. ASSUME NEW i \in 1..m, i - 1 \in P
        PROVE  i \in P
    <2>1. F[i] = F[i - 1] * Radix + a[i] /\ G[i] = G[i - 1] * Radix + b[i]
      BY DEF Leading
    <2> QED
      BY <1>2, <2>1
  <1> HIDE DEF P
  <1>3. 0..m \subseteq P
    BY <1>1, <1>2, UpTo
  <1> QED
    BY <1>3 DEF P

\* A greater number stays greater whatever digit follows.
LEMMA NextDigit ==
  ASSUME NEW x \in Nat, NEW y \in Nat, x < y, NEW c \in Digit, NEW d \in Digit
  PROVE  x * Radix + c < y * Radix + d
  <1>1. PICK r \in Nat : r = Radix
    BY RadixIsPositive
  <1>2. (x + 1) * r = x * r + r /\ x * r \in Nat /\ y * r \in Nat
    OBVIOUS
  <1>3. (x + 1) * r <= y * r
    <2>1. x + 1 \in Nat /\ x + 1 <= y
      OBVIOUS
    <2> QED
      BY <2>1, ProductGrows
  <1>4. c \in Nat /\ d \in Nat /\ c < r
    BY <1>1 DEF Digit
  <1>5. x * r + c < y * r + d
    BY <1>2, <1>3, <1>4
  <1> QED
    BY <1>1, <1>5

\* The first digit that differs decides, for every prefix that has it.
LEMMA FirstDifference ==
  ASSUME NEW n \in Nat, NEW F, NEW a \in [1..n -> Digit], NEW G, NEW b \in [1..n -> Digit],
         Leading(F, a, n), Leading(G, b, n),
         NEW k \in 1..n, \A j \in 1..k - 1 : a[j] = b[j], a[k] < b[k]
  PROVE  \A i \in k..n : F[i] < G[i]
  <1> DEFINE P == {i \in 0..n : i >= k => F[i] < G[i]}
  <1>1. P \in SUBSET Nat /\ 0 \in P
    OBVIOUS
  <1>2. ASSUME NEW i \in 1..n, i - 1 \in P
        PROVE  i \in P
    <2>1. F[i] = F[i - 1] * Radix + a[i] /\ G[i] = G[i - 1] * Radix + b[i]
      BY DEF Leading
    <2>2. F[i - 1] \in Nat /\ G[i - 1] \in Nat /\ a[i] \in Digit /\ b[i] \in Digit
      BY DEF Leading
    <2>3. CASE i < k
      BY <2>3
    <2>4. CASE i = k
      <3>1. k - 1 \in 0..n /\ k - 1 \in 0..k - 1
        OBVIOUS
      <3>2. F[k - 1] = G[k - 1]
        BY <3>1, EqualDigits
      <3>3. PICK x \in Nat : x = F[k - 1] * Radix
        <4>1. PICK r \in Nat : r = Radix
          BY RadixIsPositive
        <4>2. F[k - 1] * r \in Nat
          BY <2>2, <2>4
        <4> QED
          BY <4>1, <4>2
      <3>4. F[k] = x + a[k] /\ G[k] = x + b[k]
        BY <2>1, <2>4, <3>2, <3>3
      <3>5. a[k] \in Nat /\ b[k] \in Nat
        BY <2>2, <2>4 DEF Digit
      <3>6. F[k] < G[k]
        BY <3>4, <3>5
      <3> QED
        BY <2>4, <3>6
    <2>5. CASE i > k
      <3>1. F[i - 1] < G[i - 1]
        BY <1>2, <2>5
      <3>2. F[i] < G[i]
        BY <2>1, <2>2, <3>1, NextDigit
      <3> QED
        BY <3>2
    <2> QED
      BY <2>3, <2>4, <2>5
  <1> HIDE DEF P
  <1>3. 0..n \subseteq P
    BY <1>1, <1>2, UpTo
  <1> QED
    BY <1>3 DEF P

-----------------------------------------------------------------------------
(* Targets and hashes. *)

Bytes == [1..TargetBytes -> Digit]

\* The bytes of a target or a hash are a sequence, and so are those of the word
\* it begins with.
LEMMA BytesAreASequence ==
  ASSUME NEW a \in Bytes
  PROVE  /\ a \in Seq(Nat) /\ Len(a) = TargetBytes /\ a \in [1..TargetBytes -> Nat]
         /\ SubSeq(a \o << >>, 1, TopBytes) \in Seq(Nat)
         /\ Len(SubSeq(a \o << >>, 1, TopBytes)) = TopBytes
         /\ \A i \in 1..TopBytes : SubSeq(a \o << >>, 1, TopBytes)[i] = a[i]
  <1>1. TargetBytes \in Nat /\ TopBytes \in 1..TargetBytes
    BY TargetAssumption
  <1>2. a \in [1..TargetBytes -> Nat]
    BY RadixIsPositive DEF Bytes, Digit
  <1>3. a \in Seq(Nat) /\ Len(a) = TargetBytes
    BY <1>1, <1>2
  <1>4. a \o << >> = a
    BY <1>3
  <1> QED
    BY <1>1, <1>2, <1>3, <1>4

\* The number of a target and its first word are the numbers of its bytes and of
\* the first of them.
LEMMA NumberOfBytes ==
  ASSUME NEW a \in Bytes
  PROVE  \E F : Leading(F, a, TargetBytes) /\ Number(a) = F[TargetBytes] /\ TopWord(a) = F[TopBytes]
  <1> DEFINE top == SubSeq(a \o << >>, 1, TopBytes)
  <1>1. TargetBytes \in Nat /\ TopBytes \in 1..TargetBytes
    BY TargetAssumption
  <1>2. /\ a \in Seq(Nat) /\ Len(a) = TargetBytes /\ top \in Seq(Nat) /\ Len(top) = TopBytes
        /\ \A i \in 1..TopBytes : top[i] = a[i]
    BY BytesAreASequence
  <1>3. TopWord(a) = Number(top)
    BY DEF TopWord
  <1> HIDE DEF top
  <1>4. PICK F : Leading(F, a, TargetBytes) /\ Number(a) = F[TargetBytes]
    BY <1>2, NumberIsPrefix
  <1>5. PICK G : Leading(G, top, TopBytes) /\ Number(top) = G[TopBytes]
    BY <1>2, NumberIsPrefix
  <1>6. G[TopBytes] = F[TopBytes]
    <2>1. TopBytes \in 0..TopBytes /\ TopBytes <= TargetBytes /\ TopBytes \in Nat
      BY <1>1
    <2>2. Leading(G, top, TopBytes) /\ Leading(F, a, TargetBytes) /\ \A j \in 1..TopBytes : top[j] = a[j]
      BY <1>2, <1>4, <1>5
    <2>3. \A i \in 0..TopBytes : G[i] = F[i]
      BY <1>1, <2>1, <2>2, EqualDigits
    <2> QED
      BY <2>1, <2>3
  <1> QED
    BY <1>3, <1>4, <1>5, <1>6

\* A hash meets a target if it is the target, or if it is less at the first byte
\* that differs.
LEMMA FirstByteDecides ==
  ASSUME NEW target \in Bytes, NEW hash \in Bytes
  PROVE  \/ IsMetBy(target, hash) /\ \A i \in 1..TargetBytes : BigEndian(hash)[i] = target[i]
         \/ \E k \in 1..TargetBytes :
               /\ \A j \in 1..k - 1 : BigEndian(hash)[j] = target[j]
               /\ \/ IsMetBy(target, hash) /\ BigEndian(hash)[k] < target[k]
                  \/ ~IsMetBy(target, hash) /\ target[k] < BigEndian(hash)[k]
  <1> DEFINE b == BigEndian(hash)
             differs == {i \in 1..TargetBytes : hash[TargetBytes + 1 - i] # target[i]}
             first == CHOOSE i \in differs : \A j \in differs : i <= j
  <1>1. TargetBytes \in Nat
    BY TargetAssumption
  <1>2. \A i \in 1..TargetBytes : b[i] = hash[TargetBytes + 1 - i]
    BY DEF BigEndian
  <1>3. IsMetBy(target, hash) <=> (differs = {} \/ hash[TargetBytes + 1 - first] < target[first])
    BY DEF IsMetBy
  <1>4. CASE differs = {}
    <2>1. \A i \in 1..TargetBytes : b[i] = target[i]
      BY <1>2, <1>4
    <2> QED
      BY <1>3, <1>4, <2>1
  <1>5. CASE differs # {}
    <2>1. first \in differs /\ \A j \in differs : first <= j
      <3>1. differs \in SUBSET Nat
        BY <1>1
      <3> HIDE DEF differs
      <3>2. \E i \in differs : \A j \in differs : i <= j
        BY <1>5, <3>1, LeastNumber
      <3> QED
        BY <3>2
    <2> HIDE DEF first
    <2>2. first \in 1..TargetBytes /\ b[first] # target[first] /\ b[first] = hash[TargetBytes + 1 - first]
      BY <1>2, <2>1
    <2>3. \A j \in 1..first - 1 : b[j] = target[j]
      <3> SUFFICES ASSUME NEW j \in 1..first - 1, b[j] # target[j]
                   PROVE  FALSE
        OBVIOUS
      <3>1. j \in 1..TargetBytes
        BY <1>1, <2>2
      <3>2. j \in differs
        BY <1>2, <3>1
      <3> QED
        BY <2>1, <2>2, <3>2
    <2>4. target[first] \in Int /\ b[first] \in Int
      <3>1. TargetBytes + 1 - first \in 1..TargetBytes
        BY <1>1, <2>2
      <3> QED
        BY <2>2, <3>1, RadixIsPositive DEF Bytes, Digit
    <2>5. b[first] < target[first] \/ target[first] < b[first]
      BY <2>2, <2>4
    <2>6. IsMetBy(target, hash) <=> b[first] < target[first]
      BY <1>3, <1>5, <2>2
    <2>7. ~(b[first] < target[first] /\ target[first] < b[first])
      BY <2>4
    <2> HIDE DEF b, differs
    <2>8. \/ IsMetBy(target, hash) /\ b[first] < target[first]
          \/ ~IsMetBy(target, hash) /\ target[first] < b[first]
      BY <2>5, <2>6, <2>7
    <2> QED
      BY <2>2, <2>3, <2>8 DEF b
  <1> QED
    BY <1>4, <1>5

\* Read from its last byte, a hash has as many bytes as a target.
LEMMA BigEndianIsBytes ==
  ASSUME NEW hash \in Bytes
  PROVE  BigEndian(hash) \in Bytes
  <1>1. TargetBytes \in Nat
    BY TargetAssumption
  <1>2. \A i \in 1..TargetBytes : TargetBytes + 1 - i \in 1..TargetBytes
    BY <1>1
  <1> QED
    BY <1>2 DEF BigEndian, Bytes

\* Both comparisons at once, from the number of each prefix.
LEMMA Compared ==
  ASSUME NEW target \in Bytes, NEW hash \in Bytes
  PROVE  ComparesAsNumber(target, hash) /\ PassesTheFilter(target, hash)
  <1> DEFINE b == BigEndian(hash)
  <1>1. TargetBytes \in Nat /\ TopBytes \in 1..TargetBytes
    BY TargetAssumption
  <1>2. b \in Bytes
    BY BigEndianIsBytes
  <1>3. PICK F : Leading(F, b, TargetBytes) /\ Number(b) = F[TargetBytes] /\ TopWord(b) = F[TopBytes]
    BY <1>2, NumberOfBytes
  <1>4. PICK G : /\ Leading(G, target, TargetBytes)
                 /\ Number(target) = G[TargetBytes] /\ TopWord(target) = G[TopBytes]
    BY NumberOfBytes
  <1>5. /\ TargetBytes \in 0..TargetBytes /\ TopBytes \in 0..TargetBytes
        /\ F \in [0..TargetBytes -> Nat] /\ G \in [0..TargetBytes -> Nat]
    BY <1>1, <1>3, <1>4 DEF Leading
  <1>6. SUFFICES /\ IsMetBy(target, hash) <=> F[TargetBytes] <= G[TargetBytes]
                 /\ IsMetBy(target, hash) => F[TopBytes] <= G[TopBytes]
    BY <1>3, <1>4 DEF ComparesAsNumber, PassesTheFilter
  <1> HIDE DEF b
  <1>7. CASE IsMetBy(target, hash) /\ \A i \in 1..TargetBytes : b[i] = target[i]
    <2>1. /\ Leading(F, b, TargetBytes) /\ Leading(G, target, TargetBytes)
          /\ \A j \in 1..TargetBytes : b[j] = target[j]
      BY <1>3, <1>4, <1>7
    <2>2. TargetBytes \in Nat /\ TargetBytes \in 0..TargetBytes /\ TargetBytes <= TargetBytes
      BY <1>1
    <2>3. \A i \in 0..TargetBytes : F[i] = G[i]
      BY <2>1, <2>2, EqualDigits
    <2> QED
      BY <1>5, <1>7, <2>3
  <1>8. ASSUME NEW k \in 1..TargetBytes, \A j \in 1..k - 1 : b[j] = target[j],
               IsMetBy(target, hash), b[k] < target[k]
        PROVE  F[TargetBytes] <= G[TargetBytes] /\ F[TopBytes] <= G[TopBytes]
    <2>1. \A i \in k..TargetBytes : F[i] < G[i]
      BY <1>1, <1>2, <1>3, <1>4, <1>8, FirstDifference DEF Bytes
    <2>2. F[TargetBytes] <= G[TargetBytes]
      BY <1>1, <1>5, <2>1
    <2>3. CASE k <= TopBytes
      BY <1>1, <1>5, <2>1, <2>2, <2>3
    <2>4. CASE TopBytes < k
      <3>1. \A j \in 1..TopBytes : b[j] = target[j]
        BY <1>1, <1>8, <2>4
      <3>2. F[TopBytes] = G[TopBytes]
        <4>1. /\ TargetBytes \in Nat /\ TopBytes \in 0..TargetBytes
              /\ TopBytes \in 0..TopBytes /\ TopBytes <= TargetBytes
          BY <1>1
        <4>2. Leading(F, b, TargetBytes) /\ Leading(G, target, TargetBytes)
          BY <1>3, <1>4
        <4>3. \A i \in 0..TopBytes : F[i] = G[i]
          BY <3>1, <4>1, <4>2, EqualDigits
        <4> QED
          BY <4>1, <4>3
      <3> QED
        BY <1>5, <2>2, <3>2
    <2> QED
      BY <1>1, <2>3, <2>4
  <1>9. ASSUME NEW k \in 1..TargetBytes, \A j \in 1..k - 1 : b[j] = target[j],
               ~IsMetBy(target, hash), target[k] < b[k]
        PROVE  ~(F[TargetBytes] <= G[TargetBytes])
    <2>1. \A j \in 1..k - 1 : target[j] = b[j]
      BY <1>9
    <2>2. \A i \in k..TargetBytes : G[i] < F[i]
      BY <1>1, <1>2, <1>3, <1>4, <1>9, <2>1, FirstDifference DEF Bytes
    <2> QED
      BY <1>1, <1>5, <2>2
  <1>10. \/ IsMetBy(target, hash) /\ \A i \in 1..TargetBytes : b[i] = target[i]
         \/ \E k \in 1..TargetBytes :
               /\ \A j \in 1..k - 1 : b[j] = target[j]
               /\ \/ IsMetBy(target, hash) /\ b[k] < target[k]
                  \/ ~IsMetBy(target, hash) /\ target[k] < b[k]
    BY FirstByteDecides DEF b
  <1> QED
    BY <1>7, <1>8, <1>9, <1>10

\* Target::is_met_by compares bytes and means numbers.
THEOREM ComparisonIsOfNumbers ==
  \A target, hash \in Bytes : ComparesAsNumber(target, hash)
  BY Compared

\* No hash that meets a target is lost where a backend compares first words only.
THEOREM NothingIsFilteredOut ==
  \A target, hash \in Bytes : PassesTheFilter(target, hash)
  BY Compared

-----------------------------------------------------------------------------
(* The nonces of a range, in vectors and a remainder. *)

\* A number and a multiple of the modulus have the remainder of the number.
LEMMA RemainderIsUnique ==
  ASSUME NEW m \in Nat \ {0}, NEW q \in Int, NEW r \in 0..m - 1
  PROVE  (q * m + r) % m = r
  OBVIOUS

\* Only one multiple and remainder make a number.
LEMMA QuotientIsUnique ==
  ASSUME NEW m \in Nat \ {0}, NEW q \in Nat, NEW r \in 0..m - 1, NEW u \in Nat, NEW v \in 0..m - 1,
         q * m + r = u * m + v
  PROVE  q = u /\ r = v
  <1>1. ASSUME NEW a \in Nat, NEW b \in Nat, a < b
        PROVE  a * m \in Nat /\ b * m \in Nat /\ a * m + m <= b * m
    <2>1. (a + 1) * m \in Nat /\ b * m \in Nat /\ (a + 1) * m <= b * m
      <3>1. a + 1 \in Nat /\ a + 1 <= b
        BY <1>1
      <3> QED
        BY <3>1, ProductGrows
    <2>2. (a + 1) * m = a * m + m /\ a * m \in Nat
      OBVIOUS
    <2> QED
      BY <2>1, <2>2
  <1>2. ~(q < u)
    BY <1>1
  <1>3. ~(u < q)
    BY <1>1
  <1>4. q = u
    BY <1>2, <1>3
  <1>5. PICK x \in Nat : x = q * m
    OBVIOUS
  <1> QED
    BY <1>4, <1>5

\* Every number is a multiple and a remainder.
LEMMA Divided ==
  ASSUME NEW a \in Nat, NEW m \in Nat \ {0}
  PROVE  \E q \in Nat, r \in 0..m - 1 : q = a \div m /\ r = a % m /\ a = q * m + r
  <1>1. a \div m \in Int /\ a % m \in 0..m - 1 /\ a \div m >= 0
    OBVIOUS
  <1>2. a % m = a - m * (a \div m)
    OBVIOUS
  <1>3. PICK q \in Nat : q = a \div m
    BY <1>1
  <1>4. PICK r \in 0..m - 1 : r = a % m
    BY <1>1
  <1>5. r = a - m * q
    BY <1>2, <1>3, <1>4
  <1>6. m * q \in Nat /\ m * q = q * m
    OBVIOUS
  <1>7. a = q * m + r
    BY <1>5, <1>6
  <1> QED
    BY <1>3, <1>4, <1>7

\* There is at least one nonce.
LEMMA SpaceIsPositive == Space \in Nat \ {0}
  BY PowerIsPositive, WidthAssumption DEF Space

\* Adding in two steps is adding at once.
LEMMA AddTwice ==
  ASSUME NEW a \in Nat, NEW b \in Nat, NEW c \in Nat
  PROVE  Add(Add(a, b), c) = Add(a, b + c)
  <1>1. PICK m \in Nat \ {0} : m = Space
    BY SpaceIsPositive
  <1>2. PICK q \in Nat, r \in 0..m - 1 : r = (a + b) % m /\ a + b = q * m + r
    <2>1. a + b \in Nat
      OBVIOUS
    <2> QED
      BY <2>1, Divided
  <1>3. PICK u \in Nat, v \in 0..m - 1 : v = (r + c) % m /\ r + c = u * m + v
    <2>1. r + c \in Nat
      OBVIOUS
    <2> QED
      BY <2>1, Divided
  <1>4. a + (b + c) = (q + u) * m + v
    <2>1. (q + u) * m = q * m + u * m
      BY <1>2, <1>3
    <2>2. q * m \in Nat /\ u * m \in Nat
      BY <1>2, <1>3
    <2> QED
      BY <1>2, <1>3, <2>1, <2>2
  <1>5. (a + (b + c)) % m = v
    <2>1. q + u \in Int
      BY <1>2, <1>3
    <2>2. ((q + u) * m + v) % m = v
      BY <1>3, <2>1, RemainderIsUnique
    <2> QED
      BY <1>4, <2>2
  <1> QED
    BY <1>1, <1>2, <1>3, <1>5 DEF Add

\* What FlattenSeq joins is joined from the first on: its recursive definition
\* has a solution, and every solution starts and goes on like this.
LEMMA FlattenedInOrder ==
  ASSUME NEW n \in Nat \ {0}, NEW seqs \in [1..n -> Seq(Nat)]
  PROVE  \E F \in [1..n -> Seq(Nat)] :
            /\ FlattenSeq(seqs) = F[n]
            /\ F[1] = seqs[1]
            /\ \A i \in 2..n : F[i] = F[i - 1] \o seqs[i]
  <1> DEFINE Step(F, i) == IF i = 1 THEN seqs[i] ELSE F[i - 1] \o seqs[i]
             Joins(F, k) == F \in [1..k -> Seq(Nat)] /\ \A i \in 1..k : F[i] = Step(F, i)
             Solves(F) == F = [i \in 1..n |-> Step(F, i)]
             Joined == CHOOSE F : Solves(F)
  <1>1. seqs \in Seq(Seq(Nat)) /\ Len(seqs) = n
    OBVIOUS
  <1>2. \E F : Joins(F, n)
    <2> DEFINE P == {k \in 0..n : \E F : Joins(F, k)}
    <2>1. 0 \in P
      <3>1. Joins([i \in 1..0 |-> << >>], 0)
        OBVIOUS
      <3> HIDE DEF Joins
      <3> QED
        BY <3>1
    <2>2. ASSUME NEW k \in 1..n, k - 1 \in P
          PROVE  k \in P
      <3>1. PICK F : Joins(F, k - 1)
        BY <2>2
      <3> DEFINE G == [i \in 1..k |-> IF i = k THEN Step(F, k) ELSE F[i]]
      <3>2. Step(F, k) \in Seq(Nat)
        <4>1. seqs[k] \in Seq(Nat)
          OBVIOUS
        <4>2. k # 1 => F[k - 1] \in Seq(Nat)
          <5>1. k # 1 => k - 1 \in 1..k - 1
            OBVIOUS
          <5> QED
            BY <3>1, <5>1
        <4> QED
          BY <4>1, <4>2
      <3>3. G \in [1..k -> Seq(Nat)]
        <4>1. \A i \in 1..k : i # k => i \in 1..k - 1
          OBVIOUS
        <4> HIDE DEF Step
        <4> QED
          BY <3>1, <3>2, <4>1
      <3>4. ASSUME NEW i \in 1..k
            PROVE  G[i] = Step(G, i)
        <4>1. i # 1 => i - 1 \in 1..k /\ i - 1 # k /\ G[i - 1] = F[i - 1]
          OBVIOUS
        <4>2. Step(G, i) = Step(F, i)
          <5> HIDE DEF G
          <5> QED
            BY <4>1
        <4>3. G[i] = Step(F, i)
          <5>1. CASE i = k
            <6> HIDE DEF Step
            <6> QED
              BY <5>1
          <5>2. CASE i # k
            <6>1. i \in 1..k - 1 /\ G[i] = F[i]
              BY <5>2
            <6> HIDE DEF Step, G
            <6> QED
              BY <3>1, <6>1
          <5> QED
            BY <5>1, <5>2
        <4> QED
          BY <4>2, <4>3
      <3> HIDE DEF G, Step
      <3>5. Joins(G, k)
        BY <3>3, <3>4
      <3> HIDE DEF Joins
      <3> QED
        BY <3>5
    <2> HIDE DEF Joins
    <2>3. 0..n \subseteq P
      <3>1. P \in SUBSET Nat
        OBVIOUS
      <3> HIDE DEF P
      <3> QED
        BY <2>1, <2>2, <3>1, UpTo
    <2> QED
      BY <2>3
  <1> HIDE DEF Step
  <1>3. \E F : Solves(F)
    <2>1. PICK F : Joins(F, n)
      BY <1>2
    <2>2. F = [i \in 1..n |-> Step(F, i)]
      BY <2>1
    <2> QED
      BY <2>2
  <1>4. Solves(Joined)
    <2> HIDE DEF Solves
    <2> QED
      BY <1>3
  <1>5. FlattenSeq(seqs) = Joined[n]
    BY <1>1 DEF FlattenSeq, Step
  <1> HIDE DEF Joined
  <1>6. \A i \in 1..n : Joined[i] = Step(Joined, i)
    BY <1>4
  <1>7. \A i \in 1..n : Joined[i] \in Seq(Nat)
    <2> DEFINE P == {k \in 0..n : k # 0 => Joined[k] \in Seq(Nat)}
    <2>1. P \in SUBSET Nat /\ 0 \in P
      OBVIOUS
    <2>2. ASSUME NEW k \in 1..n, k - 1 \in P
          PROVE  k \in P
      <3>1. seqs[k] \in Seq(Nat)
        OBVIOUS
      <3>2. Joined[k] = IF k = 1 THEN seqs[k] ELSE Joined[k - 1] \o seqs[k]
        BY <1>6 DEF Step
      <3>3. k # 1 => Joined[k - 1] \in Seq(Nat)
        BY <2>2
      <3>4. Joined[k] \in Seq(Nat)
        BY <3>1, <3>2, <3>3
      <3> QED
        BY <3>4
    <2> HIDE DEF P
    <2>3. 0..n \subseteq P
      BY <2>1, <2>2, UpTo
    <2> QED
      BY <2>3 DEF P
  <1>8. Joined \in [1..n -> Seq(Nat)]
    BY <1>4, <1>7
  <1>9. Joined[1] = seqs[1] /\ \A i \in 2..n : Joined[i] = Joined[i - 1] \o seqs[i]
    <2>1. 1 \in 1..n /\ \A i \in 2..n : i \in 1..n /\ i # 1
      OBVIOUS
    <2>2. Joined[1] = Step(Joined, 1) /\ \A i \in 2..n : Joined[i] = Step(Joined, i)
      BY <1>6, <2>1
    <2> QED
      BY <2>1, <2>2 DEF Step
  <1> QED
    BY <1>5, <1>8, <1>9

\* The nonces of a range are a sequence of nonces.
LEMMA NoncesAre ==
  ASSUME NEW start \in Nat, NEW count \in Nat
  PROVE  /\ Nonces(start, count) \in Seq(Nat) /\ Len(Nonces(start, count)) = count
         /\ \A i \in 1..count : Nonces(start, count)[i] = Add(start, i - 1)
  <1>1. \A i \in 1..count : Add(start, i - 1) \in Nat
    <2> SUFFICES ASSUME NEW i \in 1..count
                 PROVE  Add(start, i - 1) \in Nat
      OBVIOUS
    <2>1. PICK m \in Nat \ {0} : m = Space
      BY SpaceIsPositive
    <2>2. (start + (i - 1)) % m \in Nat
      OBVIOUS
    <2> QED
      BY <2>1, <2>2 DEF Add
  <1>2. Nonces(start, count) \in [1..count -> Nat]
    BY <1>1 DEF Nonces
  <1>3. \A i \in 1..count : Nonces(start, count)[i] = Add(start, i - 1)
    BY DEF Nonces
  <1> HIDE DEF Nonces
  <1> QED
    BY <1>2, <1>3

\* A range goes on where another ends, across the end of the nonce space too.
LEMMA RangesJoin ==
  ASSUME NEW start \in Nat, NEW m \in Nat, NEW k \in Nat
  PROVE  Nonces(start, m) \o Nonces(Add(start, m), k) = Nonces(start, m + k)
  <1> DEFINE s == Nonces(start, m)
             t == Nonces(Add(start, m), k)
             u == Nonces(start, m + k)
  <1>0. Add(start, m) \in Nat /\ m + k \in Nat
    <2>1. PICK n \in Nat \ {0} : n = Space
      BY SpaceIsPositive
    <2>2. (start + m) % n \in Nat
      OBVIOUS
    <2> QED
      BY <2>1, <2>2 DEF Add
  <1>1. s \in Seq(Nat) /\ Len(s) = m /\ \A i \in 1..m : s[i] = Add(start, i - 1)
    BY NoncesAre
  <1>2. t \in Seq(Nat) /\ Len(t) = k /\ \A i \in 1..k : t[i] = Add(Add(start, m), i - 1)
    BY <1>0, NoncesAre
  <1>3. u \in Seq(Nat) /\ Len(u) = m + k /\ \A i \in 1..m + k : u[i] = Add(start, i - 1)
    BY <1>0, NoncesAre
  <1> HIDE DEF s, t, u
  <1>4. s \o t \in Seq(Nat) /\ Len(s \o t) = m + k
    BY <1>1, <1>2
  <1>5. ASSUME NEW i \in 1..m + k
        PROVE  (s \o t)[i] = u[i]
    <2>1. CASE i <= m
      BY <1>1, <1>2, <1>3, <2>1
    <2>2. CASE i > m
      <3>1. i - m \in 1..k /\ (i - m) - 1 \in Nat /\ m + ((i - m) - 1) = i - 1
        BY <2>2
      <3>2. (s \o t)[i] = t[i - m]
        BY <1>1, <1>2, <2>2
      <3>3. t[i - m] = Add(Add(start, m), (i - m) - 1)
        BY <1>2, <3>1
      <3>4. Add(Add(start, m), (i - m) - 1) = Add(start, m + ((i - m) - 1))
        BY <3>1, AddTwice
      <3> QED
        BY <1>3, <3>1, <3>2, <3>3, <3>4
    <2>3. i <= m \/ i > m
      OBVIOUS
    <2> QED
      BY <2>1, <2>2, <2>3, Zenon
  <1>6. s \o t = u
    <2>1. Len(s \o t) = Len(u) /\ \A i \in 1..Len(s \o t) : (s \o t)[i] = u[i]
      BY <1>3, <1>4, <1>5
    <2> QED
      BY <1>3, <1>4, <2>1, SeqEqual
  <1> QED
    BY <1>6 DEF s, t, u

\* Vectors joined in order are the range they fill.
LEMMA JoinedVectors ==
  ASSUME NEW lanes \in Nat \ {0}, NEW start \in Nat, NEW n \in Nat \ {0},
         NEW seqs \in [1..n -> Seq(Nat)],
         \A b \in 1..n : seqs[b] = Nonces(Add(start, (b - 1) * lanes), lanes)
  PROVE  FlattenSeq(seqs) = Nonces(start, n * lanes)
  <1>1. PICK F \in [1..n -> Seq(Nat)] :
           /\ FlattenSeq(seqs) = F[n]
           /\ F[1] = seqs[1]
           /\ \A b \in 2..n : F[b] = F[b - 1] \o seqs[b]
    BY FlattenedInOrder
  <1> DEFINE P == {b \in 0..n : b # 0 => F[b] = Nonces(start, b * lanes)}
  <1>2. P \in SUBSET Nat /\ 0 \in P
    OBVIOUS
  <1>3. ASSUME NEW b \in 1..n, b - 1 \in P
        PROVE  b \in P
    <2>1. PICK x \in Nat : x = (b - 1) * lanes
      OBVIOUS
    <2>2. x + lanes = b * lanes
      BY <2>1
    <2>3. seqs[b] = Nonces(Add(start, x), lanes)
      BY <2>1
    <2>4. Nonces(start, x) \o Nonces(Add(start, x), lanes) = Nonces(start, x + lanes)
      BY RangesJoin
    <2>5. CASE b = 1
      <3>1. x = 0
        BY <2>1, <2>5
      <3>2. Nonces(start, 0) = << >>
        BY DEF Nonces
      <3>3. seqs[b] \in Seq(Nat) /\ << >> \o seqs[b] = seqs[b]
        OBVIOUS
      <3>4. F[b] = Nonces(start, b * lanes)
        BY <1>1, <2>2, <2>3, <2>4, <2>5, <3>1, <3>2, <3>3
      <3> QED
        BY <3>4
    <2>6. CASE b # 1
      <3>1. b \in 2..n /\ b - 1 # 0
        BY <2>6
      <3>2. F[b - 1] = Nonces(start, x)
        BY <1>3, <2>1, <3>1
      <3>3. F[b] = Nonces(start, b * lanes)
        BY <1>1, <2>2, <2>3, <2>4, <3>1, <3>2
      <3> QED
        BY <3>3
    <2> QED
      BY <2>5, <2>6
  <1> HIDE DEF P
  <1>4. 0..n \subseteq P
    BY <1>2, <1>3, UpTo
  <1>5. n \in P
    BY <1>4
  <1> QED
    BY <1>1, <1>5 DEF P

\* The blocks before the remainder hold the nonces that they stand for.
LEMMA VectorsAreTheRange ==
  ASSUME NEW lanes \in Nat \ {0}, NEW start \in Nat, NEW n \in Nat, NEW count \in Nat,
         count = n * lanes, count \div lanes = n
  PROVE  InLanes(lanes, start, count) = Nonces(start, count)
  <1> DEFINE seqs == [b \in 1..n |-> [lane \in 1..lanes |-> Add(Add(start, (b - 1) * lanes), lane - 1)]]
  <1>1. InLanes(lanes, start, count) = FlattenSeq(seqs)
    BY DEF InLanes
  <1>2. ASSUME NEW b \in 1..n
        PROVE  seqs[b] = Nonces(Add(start, (b - 1) * lanes), lanes) /\ seqs[b] \in Seq(Nat)
    <2>1. PICK x \in Nat : x = (b - 1) * lanes
      <3>1. b - 1 \in Nat
        OBVIOUS
      <3> QED
        BY <3>1
    <2>2. Add(start, x) \in Nat
      <3>1. PICK m \in Nat \ {0} : m = Space
        BY SpaceIsPositive
      <3>2. (start + x) % m \in Nat
        OBVIOUS
      <3> QED
        BY <3>1, <3>2 DEF Add
    <2>3. seqs[b] = Nonces(Add(start, x), lanes)
      BY <2>1 DEF Nonces
    <2> HIDE DEF seqs
    <2> QED
      BY <2>1, <2>2, <2>3, NoncesAre
  <1>3. CASE n = 0
    <2>1. count = 0 /\ Len(seqs) = 0 /\ seqs = << >>
      BY <1>3
    <2>2. Nonces(start, 0) = << >>
      BY DEF Nonces
    <2>3. FlattenSeq(seqs) = << >>
      <3> HIDE DEF seqs
      <3> QED
        BY <2>1 DEF FlattenSeq
    <2> QED
      BY <1>1, <2>1, <2>2, <2>3
  <1>4. CASE n # 0
    <2>1. seqs \in [1..n -> Seq(Nat)]
      BY <1>2
    <2> HIDE DEF seqs
    <2>2. FlattenSeq(seqs) = Nonces(start, n * lanes)
      BY <1>2, <1>4, <2>1, JoinedVectors
    <2> QED
      BY <1>1, <2>2
  <1> QED
    BY <1>3, <1>4

\* A backend that hashes vectors of any number of lanes and leaves the remainder
\* to the portable code hashes the nonces of the range, each once and in order,
\* wherever the range starts and wraps (search_impl of cpu/).
THEOREM VectorsAndRemainder ==
  \A lanes \in Nat \ {0}, start, count \in Nat :
      InLanes(lanes, start, Full(lanes, count))
      \o Nonces(Add(start, Full(lanes, count)), count - Full(lanes, count)) = Nonces(start, count)
  <1> SUFFICES ASSUME NEW lanes \in Nat \ {0}, NEW start \in Nat, NEW count \in Nat
               PROVE  InLanes(lanes, start, Full(lanes, count))
                      \o Nonces(Add(start, Full(lanes, count)), count - Full(lanes, count))
                      = Nonces(start, count)
    OBVIOUS
  <1>1. PICK q \in Nat, r \in 0..lanes - 1 : r = count % lanes /\ count = q * lanes + r
    BY Divided, ZenonT(60)
  <1>2. PICK full \in Nat : full = q * lanes
    OBVIOUS
  <1>3. Full(lanes, count) = full /\ count - full = r /\ full + r = count /\ r \in Nat
    BY <1>1, <1>2 DEF Full
  <1>4. full \div lanes = q
    <2>1. PICK u \in Nat, v \in 0..lanes - 1 : u = full \div lanes /\ full = u * lanes + v
      BY Divided
    <2>2. 0 \in 0..lanes - 1 /\ q * lanes + 0 = u * lanes + v
      BY <1>2, <2>1
    <2>3. q = u
      BY <2>2, QuotientIsUnique
    <2> QED
      BY <2>1, <2>3
  <1>5. InLanes(lanes, start, full) = Nonces(start, full)
    BY <1>2, <1>4, VectorsAreTheRange, ZenonT(60)
  <1>6. Nonces(start, full) \o Nonces(Add(start, full), r) = Nonces(start, full + r)
    <2>1. PICK k \in Nat : k = r
      BY <1>3
    <2>2. Nonces(start, full) \o Nonces(Add(start, full), k) = Nonces(start, full + k)
      BY RangesJoin, ZenonT(60)
    <2> QED
      BY <2>1, <2>2
  <1> QED
    BY <1>3, <1>5, <1>6

-----------------------------------------------------------------------------
(* The grid of a GPU. *)

\* A quotient rounded up is what it takes to reach a number.
LEMMA RoundedUp ==
  ASSUME NEW a \in Nat, NEW b \in Nat \ {0}, NEW c \in Nat
  PROVE  CeilDiv(a, b) \in Nat /\ (CeilDiv(a, b) <= c <=> a <= c * b)
  <1>1. PICK q \in Nat, r \in 0..b - 1 : q = CeilDiv(a, b) /\ a + b - 1 = q * b + r
    <2>1. a + b - 1 \in Nat
      OBVIOUS
    <2> QED
      BY <2>1, Divided DEF CeilDiv
  <1>2. PICK x \in Nat : x = q * b
    OBVIOUS
  <1>3. PICK y \in Nat : y = c * b
    OBVIOUS
  <1>4. ASSUME q <= c
        PROVE  a <= y
    <2>1. x <= y
      BY <1>2, <1>3, <1>4, ProductGrows
    <2> QED
      BY <1>1, <1>2, <2>1
  <1>5. ASSUME ~(q <= c)
        PROVE  ~(a <= y)
    <2>1. c + 1 \in Nat /\ c + 1 <= q
      BY <1>5
    <2>2. (c + 1) * b <= q * b
      BY <2>1, ProductGrows
    <2>3. (c + 1) * b = c * b + b
      OBVIOUS
    <2>4. y + b <= x
      BY <1>2, <1>3, <2>2, <2>3
    <2> QED
      BY <1>1, <1>2, <2>4
  <1> QED
    BY <1>1, <1>3, <1>4, <1>5

\* A grid has an invocation for every nonce of the batch, and no two for one; a
\* batch is refused if it needs more rows than the adapter takes, and only then
\* (GpuMiner::dispatch, gpu/shader.rs).
THEOREM GridCoversTheBatch ==
  \A count, workgroup, maxGroups \in Nat \ {0} :
      LET grid == Grid(count, workgroup, maxGroups)
      IN  /\ \A index \in 0..count - 1 : \E gid \in Invocations(grid) :
                /\ IndexOf(gid, grid.row) = index
                /\ \A other \in Invocations(grid) : IndexOf(other, grid.row) = index => other = gid
          /\ grid.rows <= maxGroups <=> count <= (maxGroups * maxGroups) * workgroup
  <1> SUFFICES ASSUME NEW count \in Nat \ {0}, NEW workgroup \in Nat \ {0}, NEW maxGroups \in Nat \ {0}
               PROVE  LET grid == Grid(count, workgroup, maxGroups)
                      IN  /\ \A index \in 0..count - 1 : \E gid \in Invocations(grid) :
                                /\ IndexOf(gid, grid.row) = index
                                /\ \A other \in Invocations(grid) :
                                      IndexOf(other, grid.row) = index => other = gid
                          /\ grid.rows <= maxGroups <=> count <= (maxGroups * maxGroups) * workgroup
    OBVIOUS
  <1> DEFINE groups == CeilDiv(count, workgroup)
             inRow == IF groups < maxGroups THEN groups ELSE maxGroups
             rows == CeilDiv(groups, inRow)
             row == inRow * workgroup
             grid == Grid(count, workgroup, maxGroups)
  <1>1. grid.row = row /\ grid.rows = rows
    BY DEF Grid
  <1>2. groups \in Nat /\ groups # 0
    <2>1. groups \in Nat /\ (groups <= 0 <=> count <= 0 * workgroup)
      BY RoundedUp
    <2>2. 0 * workgroup = 0
      OBVIOUS
    <2> HIDE DEF groups
    <2> QED
      BY <2>1, <2>2
  <1>3. \A c \in Nat : groups <= c <=> count <= c * workgroup
    BY RoundedUp
  <1> HIDE DEF groups, grid
  <1>4. inRow \in Nat \ {0} /\ inRow <= groups /\ inRow <= maxGroups
    BY <1>2
  <1>5. inRow = groups \/ inRow = maxGroups
    OBVIOUS
  <1> HIDE DEF inRow
  <1>6. rows \in Nat /\ \A c \in Nat : rows <= c <=> groups <= c * inRow
    BY <1>2, <1>4, RoundedUp
  <1> HIDE DEF rows
  <1>7. row \in Nat \ {0}
    <2>1. 1 * workgroup <= inRow * workgroup /\ inRow * workgroup \in Nat
      BY <1>4, ProductGrows
    <2> QED
      BY <2>1
  <1>8. count <= rows * row
    <2>1. PICK n \in Nat : n = rows * inRow
      BY <1>4, <1>6
    <2>2. groups <= n
      BY <1>6, <2>1
    <2>3. count <= n * workgroup
      BY <1>3, <2>2
    <2>4. (rows * inRow) * workgroup = rows * (inRow * workgroup)
      BY <1>4, <1>6
    <2> QED
      BY <2>1, <2>3, <2>4
  <1> HIDE DEF row
  <1>9. ASSUME NEW index \in 0..count - 1
        PROVE  \E gid \in (0..row - 1) \X (0..rows - 1) :
                  /\ gid[2] * row + gid[1] = index
                  /\ \A other \in (0..row - 1) \X (0..rows - 1) :
                        other[2] * row + other[1] = index => other = gid
    <2>1. PICK q \in Nat, r \in 0..row - 1 : index = q * row + r
      <3>1. index \in Nat
        OBVIOUS
      <3>2. \E q \in Nat, r \in 0..row - 1 :
               q = index \div row /\ r = index % row /\ index = q * row + r
        BY <1>7, <3>1, Divided
      <3> QED
        BY <3>2
    <2>2. q < rows
      <3> SUFFICES ASSUME rows <= q
                   PROVE  FALSE
        BY <1>6
      <3>1. rows * row <= q * row /\ rows * row \in Nat /\ q * row \in Nat
        BY <1>6, <1>7, ProductGrows
      <3> QED
        BY <1>8, <2>1, <3>1
    <2>3. << r, q >> \in (0..row - 1) \X (0..rows - 1)
      BY <1>6, <1>7, <2>2
    <2>4. ASSUME NEW a \in 0..row - 1, NEW b \in 0..rows - 1, b * row + a = index
          PROVE  a = r /\ b = q
      <3>1. b \in Nat /\ b * row + a = q * row + r
        BY <1>6, <2>1, <2>4
      <3> QED
        BY <1>7, <3>1, QuotientIsUnique
    <2> QED
      BY <2>1, <2>3, <2>4
  <1>10. rows <= maxGroups <=> count <= (maxGroups * maxGroups) * workgroup
    <2>1. PICK n \in Nat : n = maxGroups * maxGroups
      OBVIOUS
    <2>2. count <= n * workgroup <=> groups <= n
      BY <1>3
    <2>3. CASE inRow = maxGroups
      BY <1>6, <2>1, <2>2, <2>3
    <2>4. CASE inRow = groups
      <3>1. 1 * groups = groups /\ rows <= 1
        BY <1>2, <1>6, <2>4
      <3>2. 1 * maxGroups <= maxGroups * maxGroups
        BY ProductGrows
      <3>3. groups <= n
        BY <1>2, <1>4, <2>1, <2>4, <3>2
      <3> QED
        BY <1>6, <2>1, <2>2, <3>1, <3>3
    <2> QED
      BY <1>5, <2>3, <2>4
  <1> QED
    BY <1>1, <1>9, <1>10 DEF Invocations, IndexOf, grid

-----------------------------------------------------------------------------
(* The batches of a GPU. *)

\* The less of two numbers is one of them, and no more than either.
LEMMA LessOfTwo ==
  ASSUME NEW a \in Int, NEW b \in Int
  PROVE  Min({a, b}) \in {a, b} /\ Min({a, b}) <= a /\ Min({a, b}) <= b
  <1>1. \E x \in {a, b} : \A y \in {a, b} : x <= y
    OBVIOUS
  <1> QED
    BY <1>1 DEF Min

\* So is the least of three.
LEMMA LeastOfThree ==
  ASSUME NEW a \in Int, NEW b \in Int, NEW c \in Int
  PROVE  Min({a, b, c}) \in {a, b, c} /\ Min({a, b, c}) <= a /\ Min({a, b, c}) <= b /\ Min({a, b, c}) <= c
  <1>1. \E x \in {a, b, c} : \A y \in {a, b, c} : x <= y
    <2>1. CASE a <= b /\ a <= c
      BY <2>1
    <2>2. CASE b <= a /\ b <= c
      BY <2>2
    <2>3. CASE c <= a /\ c <= b
      BY <2>3
    <2> QED
      BY <2>1, <2>2, <2>3
  <1> QED
    BY <1>1 DEF Min

\* The more of two numbers is one of them, and no less than either.
LEMMA MoreOfTwo ==
  ASSUME NEW a \in Int, NEW b \in Int
  PROVE  Max({a, b}) \in {a, b} /\ Max({a, b}) >= a /\ Max({a, b}) >= b
  <1>1. \E x \in {a, b} : \A y \in {a, b} : x >= y
    OBVIOUS
  <1> QED
    BY <1>1 DEF Max

\* A batch is never less than the least nor more than the most, nor than the cap
\* if that is more than the least (next_batch).
LEMMA BatchStaysWithin ==
  ASSUME NEW batch \in Nat, NEW took \in Nat, NEW aim \in Nat, NEW cap \in Nat,
         NEW most \in Nat \ {0}, NEW least \in 1..most
  PROVE  LET next == NextBatch(batch, took, aim, cap, least, most)
         IN  next \in least..most /\ (least <= cap => next <= cap)
  <1> DEFINE quotient == (batch * aim) \div Max({took, 1})
             next == Min({quotient, 2 * batch})
             mostly == Min({most, cap})
             upper == Max({mostly, least})
             raised == Max({next, least})
  <1>1. quotient \in Int
    <2>1. Max({took, 1}) \in Nat \ {0}
      <3>1. took \in Int /\ 1 \in Int
        OBVIOUS
      <3>2. Max({took, 1}) \in {took, 1} /\ Max({took, 1}) >= 1
        BY <3>1, MoreOfTwo
      <3> QED
        BY <3>2
    <2>2. batch * aim \in Nat
      OBVIOUS
    <2>3. PICK a \in Nat : a = batch * aim
      BY <2>2
    <2>4. PICK m \in Nat \ {0} : m = Max({took, 1})
      BY <2>1
    <2>5. a \div m \in Int
      OBVIOUS
    <2> QED
      BY <2>3, <2>4, <2>5
  <1> HIDE DEF quotient
  <1>2. next \in Int
    BY <1>1, LessOfTwo
  <1> HIDE DEF next
  <1>3. mostly \in {most, cap} /\ mostly <= most /\ mostly <= cap
    BY LessOfTwo
  <1> HIDE DEF mostly
  <1>4. upper \in {mostly, least} /\ upper >= mostly /\ upper >= least
    BY <1>3, MoreOfTwo, SMTT(30)
  <1> HIDE DEF upper
  <1>5. raised \in Int /\ raised >= least
    BY <1>2, MoreOfTwo
  <1> HIDE DEF raised
  <1>6. Min({raised, upper}) \in {raised, upper} /\ Min({raised, upper}) <= upper
    BY <1>3, <1>4, <1>5, LessOfTwo
  <1>7. NextBatch(batch, took, aim, cap, least, most) = Min({raised, upper})
    BY DEF NextBatch, raised, upper, mostly, next, quotient
  <1> QED
    BY <1>3, <1>4, <1>5, <1>6, <1>7

\* A batch within the cap is expected to fill no more than a quarter of the
\* buffer; a buffer for four takes a batch of one for any target
\* (candidate_cap).
LEMMA CapIsAQuarter ==
  ASSUME NEW space \in Nat \ {0}, NEW top \in 0..space - 1, NEW most \in Nat \ {0},
         NEW capacity \in Nat, 4 <= capacity
  PROVE  LET cap == CandidateCap(top, space, capacity, most)
         IN  cap \in 1..most /\ \A count \in 0..cap : count * (4 * (top + 1)) <= capacity * space
  <1> DEFINE cap == CandidateCap(top, space, capacity, most)
  <1>1. PICK m \in Nat \ {0} : m = 4 * (top + 1)
    OBVIOUS
  <1>2. PICK a \in Nat : a = capacity * space
    OBVIOUS
  <1>3. m <= a
    <2>1. 4 * space <= capacity * space
      BY ProductGrows
    <2> QED
      BY <1>1, <1>2, <2>1
  <1>4. PICK q \in Nat, r \in 0..m - 1 : q = a \div m /\ a = q * m + r
    BY Divided
  <1>5. q # 0
    BY <1>3, <1>4
  <1>6. cap = Min({q, most})
    BY <1>1, <1>2, <1>4 DEF CandidateCap
  <1> HIDE DEF cap
  <1>7. cap \in 1..most /\ cap <= q
    BY <1>5, <1>6, LessOfTwo
  <1>8. ASSUME NEW count \in 0..cap
        PROVE  count * m <= a
    <2>1. count \in Nat /\ count <= q
      BY <1>7
    <2>2. PICK x \in Nat : x = q * m
      BY <1>4
    <2>3. count * m <= x
      BY <2>1, <2>2, ProductGrows
    <2> QED
      BY <1>4, <2>2, <2>3
  <1> QED
    BY <1>1, <1>2, <1>7, <1>8 DEF cap

(* A loop over states S: it ends with out[s] where nothing is left to do,  *)
(* and goes on from step[s] elsewhere.  A step leaves less to do.          *)
Shrinks(n, S, left, step) ==
    /\ n \in Nat
    /\ left \in [S -> 0..n]
    /\ step \in [S -> S]
    /\ \A s \in S : left[s] # 0 => left[step[s]] < left[s]
IsKept(I, S, left, step) == I \subseteq S /\ \A s \in I : left[s] # 0 => step[s] \in I
ComesOutOf(I, result, left, out) == \E end \in I : left[end] = 0 /\ result = out[end]
Loops(G, S, left, step, out) == G = [s \in S |-> IF left[s] = 0 THEN out[s] ELSE G[step[s]]]

\* A loop whose every step leaves less to do has a result.
LEMMA LoopHasAResult ==
  ASSUME NEW n, NEW S, NEW left, NEW step, NEW out, Shrinks(n, S, left, step)
  PROVE  \E G : Loops(G, S, left, step, out)
  <1> USE DEF Shrinks
  <1> DEFINE Body(G, s) == IF left[s] = 0 THEN out[s] ELSE G[step[s]]
             Good(G, k) == G = [s \in S |-> G[s]] /\ \A s \in S : left[s] <= k => G[s] = Body(G, s)
             P == {k \in 0..n : \E G : Good(G, k)}
  <1>1. 0 \in P
    <2>1. Good([s \in S |-> out[s]], 0)
      <3>1. \A s \in S : left[s] \in 0..n
        OBVIOUS
      <3>2. \A s \in S : left[s] <= 0 => left[s] = 0
        BY <3>1
      <3> QED
        BY <3>2
    <2> HIDE DEF Good
    <2> QED
      BY <2>1
  <1>2. ASSUME NEW k \in 1..n, k - 1 \in P
        PROVE  k \in P
    <2>1. PICK F : Good(F, k - 1)
      BY <1>2
    <2> DEFINE G == [s \in S |-> IF left[s] = k THEN Body(F, s) ELSE F[s]]
    <2>2. ASSUME NEW s \in S, left[s] <= k
          PROVE  G[s] = Body(G, s)
      <3>1. left[s] \in 0..n
        OBVIOUS
      <3>2. G[s] = Body(F, s)
        <4>1. CASE left[s] = k
          <5> HIDE DEF Body
          <5> QED
            BY <4>1
        <4>2. CASE left[s] # k
          <5>1. left[s] <= k - 1 /\ G[s] = F[s]
            BY <2>2, <3>1, <4>2
          <5> HIDE DEF Body, G
          <5> QED
            BY <2>1, <5>1
        <4> QED
          BY <4>1, <4>2
      <3>3. left[s] # 0 => G[step[s]] = F[step[s]]
        <4>1. step[s] \in S /\ left[step[s]] \in 0..n
          OBVIOUS
        <4>2. left[s] # 0 => left[step[s]] # k
          BY <2>2, <3>1, <4>1
        <4> HIDE DEF Body
        <4> QED
          BY <4>1, <4>2
      <3> HIDE DEF G
      <3> QED
        BY <3>2, <3>3
    <2>3. G = [s \in S |-> G[s]]
      <3>1. \A s \in S : G[s] = IF left[s] = k THEN Body(F, s) ELSE F[s]
        <4> HIDE DEF Body
        <4> QED
          OBVIOUS
      <3> HIDE DEF Body
      <3> QED
        BY <3>1
    <2>4. Good(G, k)
      <3> HIDE DEF G, Body
      <3> QED
        BY <2>2, <2>3
    <2> HIDE DEF Good, G
    <2> QED
      BY <2>4
  <1>3. 0..n \subseteq P
    <2>1. P \in SUBSET Nat
      OBVIOUS
    <2> HIDE DEF P
    <2> QED
      BY <1>1, <1>2, <2>1, UpTo
  <1>4. PICK G : Good(G, n)
    <2> HIDE DEF Good
    <2> QED
      BY <1>3
  <1>5. \A s \in S : G[s] = Body(G, s)
    <2>1. \A s \in S : left[s] \in 0..n
      OBVIOUS
    <2> HIDE DEF Body
    <2> QED
      BY <1>4, <2>1
  <1>6. G = [s \in S |-> Body(G, s)]
    <2> HIDE DEF Body
    <2> QED
      BY <1>4, <1>5
  <1> QED
    BY <1>6 DEF Loops

\* What every step of a loop keeps still holds where the loop ends.
LEMMA LoopKeeps ==
  ASSUME NEW n, NEW S, NEW left, NEW step, NEW out, Shrinks(n, S, left, step),
         NEW G, Loops(G, S, left, step, out),
         NEW I, IsKept(I, S, left, step), NEW start \in I
  PROVE  ComesOutOf(I, G[start], left, out)
  <1> USE DEF Shrinks, IsKept, ComesOutOf
  <1> DEFINE P == {k \in 0..n : \A s \in I : left[s] <= k => \E end \in I : left[end] = 0 /\ G[s] = out[end]}
  <1>1. \A s \in I : s \in S /\ left[s] \in 0..n /\ G[s] = IF left[s] = 0 THEN out[s] ELSE G[step[s]]
    BY DEF Loops
  <1>2. 0 \in P
    <2>1. ASSUME NEW s \in I, left[s] <= 0
          PROVE  left[s] = 0 /\ G[s] = out[s]
      BY <1>1, <2>1
    <2> QED
      BY <2>1
  <1>3. ASSUME NEW k \in 1..n, k - 1 \in P
        PROVE  k \in P
    <2>1. ASSUME NEW s \in I, left[s] <= k
          PROVE  \E end \in I : left[end] = 0 /\ G[s] = out[end]
      <3>1. CASE left[s] = 0
        BY <1>1, <3>1
      <3>2. CASE left[s] # 0
        <4>1. step[s] \in I /\ left[step[s]] < left[s] /\ G[s] = G[step[s]]
          BY <1>1, <3>2
        <4>2. left[step[s]] <= k - 1
          BY <1>1, <2>1, <4>1
        <4> QED
          BY <1>3, <4>1, <4>2
      <3> QED
        BY <3>1, <3>2
    <2> QED
      BY <2>1
  <1>4. 0..n \subseteq P
    <2>1. P \in SUBSET Nat
      OBVIOUS
    <2> HIDE DEF P
    <2> QED
      BY <1>2, <1>3, <2>1, UpTo
  <1> QED
    BY <1>1, <1>4

(* Ranges that go over the nonces before next, one after the other. *)
EndOf(range) == range[1] + range[2]
Tiles(ranges, next, cap) ==
    /\ ranges = << >> => next = 0
    /\ \A i \in 1..Len(ranges) :
          /\ ranges[i][2] \in 1..cap
          /\ i = 1 => ranges[i][1] = 0
          /\ EndOf(ranges[i]) = IF i = Len(ranges) THEN next ELSE ranges[i + 1][1]

\* One more range, from where the others end, tiles up to its end.
LEMMA OneMoreRange ==
  ASSUME NEW ranges \in Seq(Nat \X Nat), NEW next \in Nat, NEW cap \in Nat, NEW count \in 1..cap,
         Tiles(ranges, next, cap)
  PROVE  Tiles(Append(ranges, << next, count >>), next + count, cap)
  <1> DEFINE n == Len(ranges)
             more == Append(ranges, << next, count >>)
  <1>1. n \in Nat /\ Len(more) = n + 1 /\ more # << >>
    <2>1. n \in Nat /\ Len(more) = n + 1
      OBVIOUS
    <2>2. Len(<< >>) = 0
      OBVIOUS
    <2> HIDE DEF n, more
    <2> QED
      BY <2>1, <2>2
  <1>2. \A i \in 1..n : more[i] = ranges[i]
    OBVIOUS
  <1>3. more[n + 1] = << next, count >>
    OBVIOUS
  <1>4. n = 0 => next = 0
    BY DEF Tiles
  <1>5. \A i \in 1..n : /\ ranges[i][2] \in 1..cap
                        /\ i = 1 => ranges[i][1] = 0
                        /\ EndOf(ranges[i]) = IF i = n THEN next ELSE ranges[i + 1][1]
    BY DEF Tiles
  <1> HIDE DEF n, more
  <1>6. ASSUME NEW i \in 1..n + 1
        PROVE  /\ more[i][2] \in 1..cap
               /\ i = 1 => more[i][1] = 0
               /\ EndOf(more[i]) = IF i = n + 1 THEN next + count ELSE more[i + 1][1]
    <2>1. CASE i = n + 1
      BY <1>1, <1>3, <1>4, <2>1 DEF EndOf
    <2>2. CASE i = n
      <3>1. i \in 1..n /\ i + 1 = n + 1 /\ i # n + 1
        BY <1>1, <2>2
      <3>2. more[i + 1][1] = next
        BY <1>3, <3>1
      <3> QED
        BY <1>2, <1>5, <2>2, <3>1, <3>2
    <2>3. CASE i # n /\ i # n + 1
      <3>1. i \in 1..n /\ i + 1 \in 1..n
        BY <1>1, <2>3
      <3> QED
        BY <1>2, <1>5, <2>3, <3>1
    <2> QED
      BY <2>1, <2>2, <2>3
  <1> QED
    BY <1>1, <1>6 DEF Tiles, more

\* The ranges of a sweep tile the nonces, none longer than the cap, whatever the
\* dispatches take and whatever batch the last sweep left (GpuDevice::run).
LEMMA SweepTiles ==
  ASSUME NEW space \in Nat \ {0}, NEW most \in Nat \ {0}, NEW least \in 1..most, NEW cap \in 1..most,
         NEW batch \in 1..most, NEW aim \in Nat, NEW tooks \in Seq(Nat), tooks # << >>
  PROVE  LET ranges == GpuRanges(tooks, aim, cap, batch, least, most, space)
         IN  ranges \in Seq(Nat \X Nat) /\ Tiles(ranges, space, cap)
  <1> DEFINE Sweeps == [next : 0..space, batch : 1..most, ranges : Seq(Nat \X Nat)]
             Count(s) == Min({s.batch, cap, space - s.next})
             Took(s) == tooks[1 + (Len(s.ranges) % Len(tooks))]
             After(s) == [next |-> s.next + Count(s),
                          batch |-> NextBatch(Max({Count(s), least}), Took(s), aim, cap, least, most),
                          ranges |-> Append(s.ranges, << s.next, Count(s) >>)]
             Solves(G) == G = [s \in Sweeps |-> IF s.next = space THEN s.ranges ELSE G[After(s)]]
             Go == CHOOSE G : Solves(G)
             start == [next |-> 0, batch |-> batch, ranges |-> << >>]
             left == [s \in Sweeps |-> space - s.next]
             step == [s \in Sweeps |-> After(s)]
             out == [s \in Sweeps |-> s.ranges]
             I == {s \in Sweeps : Tiles(s.ranges, s.next, cap)}
  <1>1. GpuRanges(tooks, aim, cap, batch, least, most, space) = Go[start]
    BY DEF GpuRanges
  <1> HIDE DEF Go
  <1>2. ASSUME NEW s \in Sweeps
        PROVE  Count(s) \in 0..space - s.next /\ (s.next # space => Count(s) \in 1..cap)
    <2>1. s.next \in 0..space /\ s.batch \in 1..most
      OBVIOUS
    <2>2. /\ Count(s) \in {s.batch, cap, space - s.next}
          /\ Count(s) <= s.batch /\ Count(s) <= cap /\ Count(s) <= space - s.next
      <3>1. s.batch \in Int /\ cap \in Int /\ space - s.next \in Int
        BY <2>1
      <3> HIDE DEF Sweeps
      <3> QED
        BY <3>1, LeastOfThree
    <2> HIDE DEF Sweeps, Count
    <2> QED
      BY <2>1, <2>2
  <1>3. ASSUME NEW s \in Sweeps
        PROVE  After(s) \in Sweeps /\ After(s).next = s.next + Count(s)
    <2>1. s.next \in 0..space /\ s.ranges \in Seq(Nat \X Nat)
      OBVIOUS
    <2>2. Took(s) \in Nat
      <3>1. PICK m \in Nat \ {0} : m = Len(tooks)
        OBVIOUS
      <3>2. PICK l \in Nat : l = Len(s.ranges)
        BY <2>1
      <3>3. l % m \in 0..m - 1
        OBVIOUS
      <3>4. 1 + (l % m) \in 1..m
        BY <3>3
      <3>5. \A i \in 1..m : tooks[i] \in Nat
        BY <3>1
      <3>6. Took(s) = tooks[1 + (l % m)]
        BY <3>1, <3>2
      <3> HIDE DEF Took
      <3> QED
        BY <3>4, <3>5, <3>6
    <2>3. Count(s) \in Nat /\ s.next + Count(s) \in 0..space
      <3> HIDE DEF Sweeps, Count, After, Took
      <3> QED
        BY <1>2, <2>1
    <2> HIDE DEF Sweeps, Count, Took
    <2>4. Max({Count(s), least}) \in Nat
      <3>1. Count(s) \in Int /\ least \in Int
        BY <2>3
      <3>2. Max({Count(s), least}) \in {Count(s), least}
        BY <3>1, MoreOfTwo
      <3> QED
        BY <2>3, <3>2
    <2>5. NextBatch(Max({Count(s), least}), Took(s), aim, cap, least, most) \in 1..most
      <3>1. cap \in Nat
        OBVIOUS
      <3>2. NextBatch(Max({Count(s), least}), Took(s), aim, cap, least, most) \in least..most
        BY <2>2, <2>4, <3>1, BatchStaysWithin
      <3> QED
        BY <3>2
    <2>6. << s.next, Count(s) >> \in Nat \X Nat
      BY <2>1, <2>3
    <2>7. Append(s.ranges, << s.next, Count(s) >>) \in Seq(Nat \X Nat)
      BY <2>1, <2>6
    <2> QED
      BY <2>3, <2>5, <2>7 DEF Sweeps
  <1>4. left \in [Sweeps -> 0..space] /\ step \in [Sweeps -> Sweeps]
    <2>1. \A s \in Sweeps : space - s.next \in 0..space
      OBVIOUS
    <2> HIDE DEF Sweeps, After
    <2> QED
      BY <1>3, <2>1
  <1>5. ASSUME NEW s \in Sweeps
        PROVE  /\ s.next \in 0..space /\ left[s] = space - s.next
               /\ step[s] = After(s) /\ left[After(s)] = space - (s.next + Count(s))
    <2>1. s.next \in 0..space
      OBVIOUS
    <2> HIDE DEF Sweeps, After, Count
    <2> QED
      BY <1>3, <2>1
  <1>6. Shrinks(space, Sweeps, left, step)
    <2>1. \A s \in Sweeps : left[s] # 0 => left[step[s]] < left[s]
      <3> HIDE DEF Sweeps, After, Count, left, step
      <3> QED
        BY <1>2, <1>5
    <2>2. space \in Nat
      OBVIOUS
    <2> HIDE DEF Sweeps, After, Count, left, step
    <2> QED
      BY <1>4, <2>1, <2>2 DEF Shrinks
  <1>7. \E G : Solves(G)
    <2>1. PICK G : Loops(G, Sweeps, left, step, out)
      <3> HIDE DEF Sweeps, left, step, out
      <3> QED
        BY <1>6, LoopHasAResult
    <2>2. G = [s \in Sweeps |-> IF left[s] = 0 THEN out[s] ELSE G[step[s]]]
      <3> HIDE DEF Sweeps, left, step, out
      <3> QED
        BY <2>1 DEF Loops
    <2>3. \A s \in Sweeps : /\ left[s] = 0 <=> s.next = space
                            /\ out[s] = s.ranges /\ step[s] = After(s)
      <3>1. \A s \in Sweeps : out[s] = s.ranges
        <4> HIDE DEF Sweeps
        <4> QED
          OBVIOUS
      <3> HIDE DEF Sweeps, After, Count, left, step, out
      <3> QED
        BY <1>5, <3>1
    <2>4. G = [s \in Sweeps |-> IF s.next = space THEN s.ranges ELSE G[After(s)]]
      <3> HIDE DEF Sweeps, After, left, step, out
      <3> QED
        BY <2>2, <2>3
    <2> QED
      BY <2>4
  <1>8. Loops(Go, Sweeps, left, step, out)
    <2>1. Solves(Go)
      <3> HIDE DEF Solves
      <3> QED
        BY <1>7 DEF Go
    <2>2. \A s \in Sweeps : /\ left[s] = 0 <=> s.next = space
                            /\ out[s] = s.ranges /\ step[s] = After(s)
      <3>1. \A s \in Sweeps : out[s] = s.ranges
        <4> HIDE DEF Sweeps
        <4> QED
          OBVIOUS
      <3> HIDE DEF Sweeps, After, Count, left, step, out
      <3> QED
        BY <1>5, <3>1
    <2>3. Go = [s \in Sweeps |-> IF left[s] = 0 THEN out[s] ELSE Go[step[s]]]
      <3> HIDE DEF Sweeps, After, left, step, out
      <3> QED
        BY <2>1, <2>2
    <2> HIDE DEF Sweeps, left, step, out
    <2> QED
      BY <2>3 DEF Loops
  <1>9. \A s \in I : left[s] # 0 => step[s] \in I
    <2> SUFFICES ASSUME NEW s \in I, left[s] # 0
                 PROVE  After(s) \in I
      <3> HIDE DEF After
      <3> QED
        BY <1>5
    <2>1. s \in Sweeps /\ Tiles(s.ranges, s.next, cap) /\ s.next \in Nat /\ s.ranges \in Seq(Nat \X Nat)
      OBVIOUS
    <2>2. Count(s) \in 1..cap
      <3> HIDE DEF Sweeps, left, step, After, Count, I
      <3>1. s.next \in 0..space /\ left[s] = space - s.next
        BY <1>5, <2>1
      <3>2. s.next # space
        BY <3>1
      <3> QED
        BY <1>2, <2>1, <3>2
    <2>3. Tiles(Append(s.ranges, << s.next, Count(s) >>), s.next + Count(s), cap)
      <3> HIDE DEF Sweeps, left, Count, I
      <3>1. cap \in Nat
        OBVIOUS
      <3> QED
        BY <2>1, <2>2, <3>1, OneMoreRange
    <2>4. After(s).ranges = Append(s.ranges, << s.next, Count(s) >>) /\ After(s).next = s.next + Count(s)
      <3> HIDE DEF Sweeps, Count
      <3> QED
        OBVIOUS
    <2> HIDE DEF Sweeps, After, Count
    <2> QED
      BY <1>3, <2>1, <2>3, <2>4
  <1>10. start \in I
    <2>1. << >> \in Seq(Nat \X Nat) /\ Tiles(<< >>, 0, cap)
      BY DEF Tiles
    <2> QED
      BY <2>1
  <1>11. PICK end \in I : left[end] = 0 /\ Go[start] = out[end]
    <2>1. I \in SUBSET Sweeps
      <3> HIDE DEF Sweeps
      <3> QED
        OBVIOUS
    <2> HIDE DEF Sweeps, Count, Took, After, Solves, left, step, out, I, start
    <2>2. IsKept(I, Sweeps, left, step)
      BY <1>9, <2>1 DEF IsKept
    <2>3. ComesOutOf(I, Go[start], left, out)
      BY <1>6, <1>8, <1>10, <2>2, LoopKeeps
    <2> QED
      BY <2>3 DEF ComesOutOf
  <1>12. end.next = space /\ out[end] = end.ranges /\ end.ranges \in Seq(Nat \X Nat) /\ Tiles(end.ranges, end.next, cap)
    <2>1. end \in Sweeps /\ Tiles(end.ranges, end.next, cap)
      OBVIOUS
    <2>2. end.next \in 0..space /\ end.ranges \in Seq(Nat \X Nat)
      BY <2>1
    <2>3. out[end] = end.ranges /\ left[end] = space - end.next
      <3> HIDE DEF Sweeps
      <3> QED
        BY <2>1
    <2> HIDE DEF Sweeps, left, out, I
    <2> QED
      BY <1>11, <2>1, <2>2, <2>3
  <1> QED
    BY <1>1, <1>11, <1>12

\* The dispatches of a sweep take the nonces in order, from the first to the
\* last and none twice, however long they take and whatever batch the last sweep
\* left; none is empty, and none is expected to fill more than a quarter of the
\* buffer of candidates (GpuDevice::run, next_batch, candidate_cap).
THEOREM SweepCoversTheSpace ==
  \A space, most \in Nat \ {0} : \A top \in 0..space - 1, least, batch \in 1..most, aim \in Nat,
     capacity \in Nat \ 0..3, tooks \in Seq(Nat) \ {<< >>} :
      LET ranges == GpuRanges(tooks, aim, CandidateCap(top, space, capacity, most), batch, least, most, space)
      IN  /\ ranges # << >> /\ ranges[1][1] = 0 /\ EndOf(ranges[Len(ranges)]) = space
          /\ \A i \in 1..Len(ranges) - 1 : ranges[i + 1][1] = EndOf(ranges[i])
          /\ \A i \in 1..Len(ranges) :
                ranges[i][2] \in 1..most /\ ranges[i][2] * (4 * (top + 1)) <= capacity * space
  <1> SUFFICES ASSUME NEW space \in Nat \ {0}, NEW most \in Nat \ {0}, NEW top \in 0..space - 1,
                      NEW least \in 1..most, NEW batch \in 1..most, NEW aim \in Nat,
                      NEW capacity \in Nat \ 0..3, NEW tooks \in Seq(Nat) \ {<< >>}
               PROVE  LET ranges == GpuRanges(tooks, aim, CandidateCap(top, space, capacity, most),
                                              batch, least, most, space)
                      IN  /\ ranges # << >> /\ ranges[1][1] = 0 /\ EndOf(ranges[Len(ranges)]) = space
                          /\ \A i \in 1..Len(ranges) - 1 : ranges[i + 1][1] = EndOf(ranges[i])
                          /\ \A i \in 1..Len(ranges) :
                                /\ ranges[i][2] \in 1..most
                                /\ ranges[i][2] * (4 * (top + 1)) <= capacity * space
    OBVIOUS
  <1> DEFINE cap == CandidateCap(top, space, capacity, most)
             ranges == GpuRanges(tooks, aim, cap, batch, least, most, space)
             n == Len(ranges)
  <1>1. cap \in 1..most /\ \A count \in 0..cap : count * (4 * (top + 1)) <= capacity * space
    <2>1. capacity \in Nat /\ 4 <= capacity
      OBVIOUS
    <2> QED
      BY <2>1, CapIsAQuarter
  <1> HIDE DEF cap
  <1>2. ranges \in Seq(Nat \X Nat) /\ Tiles(ranges, space, cap)
    <2>1. tooks \in Seq(Nat) /\ tooks # << >>
      OBVIOUS
    <2> QED
      BY <1>1, <2>1, SweepTiles
  <1> HIDE DEF ranges
  <1>3. n \in Nat /\ (n = 0 => ranges = << >>) /\ (ranges = << >> => n = 0)
    BY <1>2
  <1>4. n # 0
    BY <1>2, <1>3 DEF Tiles
  <1>5. \A i \in 1..n : /\ ranges[i][2] \in 1..cap
                        /\ i = 1 => ranges[i][1] = 0
                        /\ EndOf(ranges[i]) = IF i = n THEN space ELSE ranges[i + 1][1]
    BY <1>2 DEF Tiles
  <1> HIDE DEF n
  <1>6. ranges # << >> /\ ranges[1][1] = 0 /\ EndOf(ranges[n]) = space
    BY <1>3, <1>4, <1>5
  <1>7. \A i \in 1..n - 1 : ranges[i + 1][1] = EndOf(ranges[i])
    <2>1. \A i \in 1..n - 1 : i \in 1..n /\ i # n
      BY <1>3
    <2> QED
      BY <1>5, <2>1
  <1>8. ASSUME NEW i \in 1..n
        PROVE  ranges[i][2] \in 1..most /\ ranges[i][2] * (4 * (top + 1)) <= capacity * space
    <2>1. ranges[i][2] \in 1..cap
      BY <1>5
    <2>2. PICK count \in 1..cap : count = ranges[i][2]
      BY <2>1
    <2>3. count \in 0..cap /\ count \in 1..most
      BY <1>1
    <2>4. count * (4 * (top + 1)) <= capacity * space
      BY <1>1, <2>3
    <2> QED
      BY <2>2, <2>3, <2>4
  <1> QED
    BY <1>6, <1>7, <1>8 DEF ranges, n, cap

=============================================================================
