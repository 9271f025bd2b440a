-------------------------- MODULE MCNodeId_proofs ---------------------------
(***************************************************************************)
(* The identifier arithmetic against its numeric reading, for every        *)
(* identifier length: what MCNodeId checks of four bits.                   *)
(***************************************************************************)
EXTENDS MCNodeId, NodeId_proofs

Lengths == 0 .. KEY_LENGTH_BITS

(***************************************************************************)
(* Induction over the beginnings of an identifier.                         *)
(***************************************************************************)
LEMMA LengthInduction ==
  ASSUME NEW S, NEW from \in Lengths, from \in S,
         \A n \in from .. (KEY_LENGTH_BITS - 1) : n \in S => n + 1 \in S
  PROVE  from .. KEY_LENGTH_BITS \subseteq S
<1> DEFINE Rest == (from .. KEY_LENGTH_BITS) \ S
           x == LeastOf(Rest)
<1> SUFFICES ASSUME Rest # {} PROVE FALSE
  OBVIOUS
<1>1. Rest \subseteq Nat
  BY KeyLengthAssumption DEF Lengths
<1>2. x \in Rest /\ \A y \in Rest : x <= y
  <2> HIDE DEF Rest
  <2> QED BY <1>1, LeastOfIsLeast
<1> HIDE DEF x
<1>3. x \in from .. KEY_LENGTH_BITS /\ x # from
  BY <1>2
<1>4. x - 1 \in from .. (KEY_LENGTH_BITS - 1) /\ (x - 1) + 1 = x
  BY <1>3, KeyLengthAssumption DEF Lengths
<1>5. x - 1 \notin Rest
  BY <1>2, <1>4, KeyLengthAssumption DEF Lengths
<1> QED
  BY <1>2, <1>4, <1>5, KeyLengthAssumption DEF Lengths

IsNumbers(v, lead, a) ==
  v = [n \in Lengths |-> IF n = 0 THEN lead ELSE 2 * v[n - 1] + a[n - 1]]

(***************************************************************************)
(* There are such numbers.                                                 *)
(***************************************************************************)
LEMMA NumbersExist ==
  ASSUME NEW lead \in Nat, NEW a \in NodeIds
  PROVE  \E v : IsNumbers(v, lead, a)
<1> DEFINE Upto(m, v) ==
             \A n \in 0 .. m : v[n] = IF n = 0 THEN lead ELSE 2 * v[n - 1] + a[n - 1]
           S == {m \in Lengths : \E v \in [0 .. m -> Nat] : Upto(m, v)}
<1>1. 0 \in S
  <2> DEFINE v == [n \in 0 .. 0 |-> lead]
  <2>1. v \in [0 .. 0 -> Nat] /\ Upto(0, v)
    OBVIOUS
  <2>2. 0 \in Lengths
    BY KeyLengthAssumption DEF Lengths
  <2> QED
    BY <2>1, <2>2
<1>2. ASSUME NEW m \in 0 .. (KEY_LENGTH_BITS - 1), m \in S
      PROVE  m + 1 \in S
  <2>1. m \in Nat /\ m + 1 \in Lengths /\ m \in Position
    BY KeyLengthAssumption DEF Lengths, Position
  <2>2. PICK u \in [0 .. m -> Nat] : Upto(m, u)
    BY <1>2
  <2> DEFINE v == [n \in 0 .. m + 1 |-> IF n = m + 1 THEN 2 * u[m] + a[m] ELSE u[n]]
  <2>3. u[m] \in Nat /\ a[m] \in {0, 1}
    BY <2>1 DEF NodeIds
  <2>4. v \in [0 .. m + 1 -> Nat]
    BY <2>1, <2>3
  <2>5. Upto(m + 1, v)
    <3> SUFFICES ASSUME NEW n \in 0 .. m + 1
                 PROVE  v[n] = IF n = 0 THEN lead ELSE 2 * v[n - 1] + a[n - 1]
      OBVIOUS
    <3>1. CASE n = m + 1
      <4>1. v[n - 1] = u[m] /\ n # 0 /\ n - 1 = m
        BY <2>1, <3>1
      <4> QED
        BY <3>1, <4>1
    <3>2. CASE n # m + 1
      <4>1. n \in 0 .. m /\ (n # 0 => n - 1 \in 0 .. m)
        BY <2>1, <3>2
      <4>2. u[n] = IF n = 0 THEN lead ELSE 2 * u[n - 1] + a[n - 1]
        BY <2>2, <4>1
      <4>3. v[n] = u[n] /\ (n # 0 => v[n - 1] = u[n - 1])
        BY <2>1, <3>2, <4>1
      <4> HIDE DEF v
      <4> QED
        BY <4>2, <4>3
    <3> QED
      BY <3>1, <3>2
  <2> QED
    BY <2>1, <2>4, <2>5
<1> HIDE DEF S
<1>3. 0 \in Lengths /\ KEY_LENGTH_BITS \in 0 .. KEY_LENGTH_BITS
  BY KeyLengthAssumption DEF Lengths
<1>4. 0 .. KEY_LENGTH_BITS \subseteq S
  BY <1>1, <1>2, <1>3, LengthInduction
<1>5. \E v \in [0 .. KEY_LENGTH_BITS -> Nat] : Upto(KEY_LENGTH_BITS, v)
  <2> HIDE DEF Upto
  <2> QED BY <1>3, <1>4 DEF S
<1>6. PICK v \in [0 .. KEY_LENGTH_BITS -> Nat] : Upto(KEY_LENGTH_BITS, v)
  <2> HIDE DEF Upto
  <2> QED BY <1>5
<1>7. IsNumbers(v, lead, a)
  BY <1>6 DEF IsNumbers, Lengths
<1> QED
  BY <1>7

(***************************************************************************)
(* What Numbers computes.                                                  *)
(***************************************************************************)
LEMMA NumbersProperties ==
  ASSUME NEW lead \in Nat, NEW a \in NodeIds
  PROVE  /\ Numbers(lead, a)[0] = lead
         /\ \A n \in Position : /\ Numbers(lead, a)[n + 1] = 2 * Numbers(lead, a)[n] + a[n]
                                /\ a[n] \in {0, 1}
         /\ \A n \in Lengths : Numbers(lead, a)[n] \in Nat
<1> DEFINE v == CHOOSE u : IsNumbers(u, lead, a)
<1>1. IsNumbers(v, lead, a)
  BY NumbersExist
<1>2. Numbers(lead, a) = v
  BY DEF Numbers, IsNumbers, Lengths
<1> HIDE DEF v
<1>3. \A n \in Lengths : v[n] = IF n = 0 THEN lead ELSE 2 * v[n - 1] + a[n - 1]
  BY <1>1 DEF IsNumbers
<1>4. v[0] = lead
  BY <1>3, KeyLengthAssumption DEF Lengths
<1>5. ASSUME NEW n \in Position
      PROVE  v[n + 1] = 2 * v[n] + a[n] /\ a[n] \in {0, 1}
  <2>1. n + 1 \in Lengths /\ n + 1 # 0 /\ (n + 1) - 1 = n
    BY KeyLengthAssumption DEF Lengths, Position
  <2>2. a[n] \in {0, 1}
    BY DEF NodeIds
  <2> QED
    BY <1>3, <2>1, <2>2
<1> DEFINE S == {n \in Lengths : v[n] \in Nat}
<1>6. 0 \in S
  BY <1>4, KeyLengthAssumption DEF Lengths
<1>7. ASSUME NEW n \in 0 .. (KEY_LENGTH_BITS - 1), n \in S PROVE n + 1 \in S
  BY <1>5, <1>7, KeyLengthAssumption DEF Lengths, Position
<1> HIDE DEF S
<1>8. 0 \in Lengths
  BY KeyLengthAssumption DEF Lengths
<1>9. Lengths \subseteq S
  BY <1>6, <1>7, <1>8, LengthInduction DEF Lengths
<1> QED
  BY <1>2, <1>4, <1>5, <1>9 DEF S

-----------------------------------------------------------------------------
(* Order.                                                                  *)

(***************************************************************************)
(* Bit strings that agree up to a position denote the same number so far.  *)
(***************************************************************************)
LEMMA SamePrefixSameNumber ==
  ASSUME NEW a \in NodeIds, NEW b \in NodeIds, NEW p \in Lengths,
         \A q \in 0 .. (p - 1) : a[q] = b[q]
  PROVE  Numbers(0, a)[p] = Numbers(0, b)[p]
<1> DEFINE u == Numbers(0, a)
           v == Numbers(0, b)
           S == {n \in Lengths : n <= p => u[n] = v[n]}
<1>1. /\ u[0] = v[0]
      /\ \A n \in Position : u[n + 1] = 2 * u[n] + a[n] /\ v[n + 1] = 2 * v[n] + b[n]
  BY NumbersProperties
<1> HIDE DEF u, v
<1>2. 0 \in S /\ 0 \in Lengths
  BY <1>1, KeyLengthAssumption DEF Lengths
<1>3. ASSUME NEW n \in 0 .. (KEY_LENGTH_BITS - 1), n \in S PROVE n + 1 \in S
  <2> SUFFICES ASSUME n + 1 <= p PROVE u[n + 1] = v[n + 1]
    BY KeyLengthAssumption DEF Lengths
  <2>1. n \in Position /\ n <= p /\ n \in 0 .. (p - 1)
    BY KeyLengthAssumption DEF Lengths, Position
  <2> QED
    BY <1>1, <1>3, <2>1
<1> HIDE DEF S
<1>4. 0 .. KEY_LENGTH_BITS \subseteq S
  BY <1>2, <1>3, LengthInduction
<1>5. p \in S
  BY <1>4 DEF Lengths
<1> QED
  BY <1>5, KeyLengthAssumption DEF S, u, v, Lengths

(***************************************************************************)
(* What sorts first denotes the smaller number.                            *)
(***************************************************************************)
LEMMA LessIsSmaller ==
  ASSUME NEW a \in NodeIds, NEW b \in NodeIds, Less(a, b)
  PROVE  Value(a) < Value(b)
<1> DEFINE u == Numbers(0, a)
           v == Numbers(0, b)
<1>1. PICK p \in Position : a[p] < b[p] /\ \A q \in 0 .. (p - 1) : a[q] = b[q]
  BY DEF Less
<1>2. p \in Lengths /\ p + 1 \in Lengths /\ p \in Nat
  BY KeyLengthAssumption DEF Lengths, Position
<1>3. u[p] = v[p]
  BY <1>1, <1>2, SamePrefixSameNumber
<1>4. /\ \A n \in Position : /\ u[n + 1] = 2 * u[n] + a[n] /\ a[n] \in {0, 1}
                             /\ v[n + 1] = 2 * v[n] + b[n] /\ b[n] \in {0, 1}
      /\ \A n \in Lengths : u[n] \in Nat /\ v[n] \in Nat
  BY NumbersProperties
<1>5. Value(a) = u[KEY_LENGTH_BITS] /\ Value(b) = v[KEY_LENGTH_BITS]
  BY DEF Value
<1> HIDE DEF u, v
<1> DEFINE S == {n \in Lengths : u[n] < v[n]}
<1>6. p + 1 \in S
  BY <1>1, <1>2, <1>3, <1>4
<1>7. ASSUME NEW n \in (p + 1) .. (KEY_LENGTH_BITS - 1), n \in S PROVE n + 1 \in S
  <2>1. n \in Position /\ n \in Lengths /\ n + 1 \in Lengths
    BY <1>2, KeyLengthAssumption DEF Lengths, Position
  <2>2. /\ u[n + 1] = 2 * u[n] + a[n] /\ a[n] \in {0, 1}
        /\ v[n + 1] = 2 * v[n] + b[n] /\ b[n] \in {0, 1}
        /\ u[n] \in Nat /\ v[n] \in Nat /\ u[n] < v[n]
    BY <1>4, <1>7, <2>1
  <2>3. 2 * u[n] + a[n] < 2 * v[n] + b[n]
    BY <2>2
  <2> QED
    BY <2>1, <2>2, <2>3
<1> HIDE DEF S
<1>8. (p + 1) .. KEY_LENGTH_BITS \subseteq S
  BY <1>2, <1>6, <1>7, LengthInduction
<1>9. KEY_LENGTH_BITS \in S
  BY <1>2, <1>8, KeyLengthAssumption DEF Lengths
<1> QED
  BY <1>5, <1>9 DEF S

(***************************************************************************)
(* Bit strings are ordered as the numbers they denote.                     *)
(***************************************************************************)
LEMMA NumericOrder ==
  ASSUME NEW a \in NodeIds, NEW b \in NodeIds
  PROVE  /\ Less(a, b) <=> Value(a) < Value(b)
         /\ Value(a) \in Nat
<1>1. Value(a) \in Nat /\ Value(b) \in Nat
  BY NumbersProperties, KeyLengthAssumption DEF Value, Lengths
<1>2. a = b \/ Less(a, b) \/ Less(b, a)
  <2> SUFFICES ASSUME a # b PROVE Less(a, b) \/ Less(b, a)
    OBVIOUS
  <2> DEFINE i == bucket_index(a, b)
  <2>1. i \in Position /\ a[i] # b[i] /\ \A q \in 0 .. (i - 1) : a[q] = b[q]
    BY BucketIndexProperties
  <2> HIDE DEF i
  <2>2. a[i] < b[i] \/ b[i] < a[i]
    BY <2>1 DEF NodeIds
  <2> QED
    BY <2>1, <2>2 DEF Less
<1>3. Less(a, b) => Value(a) < Value(b)
  BY LessIsSmaller
<1>4. Less(b, a) => Value(b) < Value(a)
  BY LessIsSmaller
<1> QED
  BY <1>1, <1>2, <1>3, <1>4

(***************************************************************************)
(* The identifier of zeros denotes zero, and distances are identifiers.    *)
(***************************************************************************)
LEMMA ZeroIsZero == Zero \in NodeIds /\ Value(Zero) = 0
<1> DEFINE v == Numbers(0, Zero)
           S == {n \in Lengths : v[n] = 0}
<1>1. Zero \in NodeIds /\ \A n \in Position : Zero[n] = 0
  BY DEF Zero, NodeIds
<1>2. v[0] = 0 /\ \A n \in Position : v[n + 1] = 2 * v[n] + Zero[n]
  BY <1>1, NumbersProperties
<1>3. Value(Zero) = v[KEY_LENGTH_BITS]
  BY DEF Value
<1> HIDE DEF v
<1>4. 0 \in S /\ 0 \in Lengths
  BY <1>2, KeyLengthAssumption DEF Lengths
<1>5. ASSUME NEW n \in 0 .. (KEY_LENGTH_BITS - 1), n \in S PROVE n + 1 \in S
  BY <1>1, <1>2, <1>5, KeyLengthAssumption DEF Lengths, Position
<1> HIDE DEF S
<1>6. 0 .. KEY_LENGTH_BITS \subseteq S
  BY <1>4, <1>5, LengthInduction
<1>7. KEY_LENGTH_BITS \in S
  BY <1>6, KeyLengthAssumption
<1> QED
  BY <1>1, <1>3, <1>7 DEF S

(***************************************************************************)
(* A distance is an identifier with a 1 where the two differ.              *)
(***************************************************************************)
LEMMA DistanceBits ==
  ASSUME NEW a \in NodeIds, NEW b \in NodeIds
  PROVE  /\ distance(a, b) \in NodeIds
         /\ \A p \in Position : distance(a, b)[p] = IF a[p] = b[p] THEN 0 ELSE 1
         /\ distance(a, b) = distance(b, a)
<1>1. \A p \in Position : (a[p] = b[p]) <=> (b[p] = a[p])
  OBVIOUS
<1> QED
  BY <1>1 DEF distance, NodeIds

(***************************************************************************)
(* The triangle inequality holds of every beginning of the identifiers.    *)
(***************************************************************************)
LEMMA TriangleInequality ==
  ASSUME NEW a \in NodeIds, NEW b \in NodeIds, NEW c \in NodeIds
  PROVE  Dist(a, b) <= Dist(a, c) + Dist(c, b)
<1> DEFINE d == distance(a, b)
           e == distance(a, c)
           f == distance(c, b)
           u == Numbers(0, d)
           v == Numbers(0, e)
           w == Numbers(0, f)
           S == {n \in Lengths : u[n] <= v[n] + w[n]}
<1>1. d \in NodeIds /\ e \in NodeIds /\ f \in NodeIds
  BY DistanceBits
<1>2. \A p \in Position : d[p] <= e[p] + f[p]
  <2> SUFFICES ASSUME NEW p \in Position PROVE d[p] <= e[p] + f[p]
    OBVIOUS
  <2>1. /\ d[p] = IF a[p] = b[p] THEN 0 ELSE 1
        /\ e[p] = IF a[p] = c[p] THEN 0 ELSE 1
        /\ f[p] = IF c[p] = b[p] THEN 0 ELSE 1
    BY DistanceBits
  <2> HIDE DEF d, e, f
  <2> QED
    BY <2>1
<1>3. Dist(a, b) = u[KEY_LENGTH_BITS] /\ Dist(a, c) = v[KEY_LENGTH_BITS]
                                      /\ Dist(c, b) = w[KEY_LENGTH_BITS]
  BY DEF Dist, Value
<1> HIDE DEF d, e, f
<1>4. /\ u[0] = 0 /\ v[0] = 0 /\ w[0] = 0
      /\ \A n \in Position : /\ u[n + 1] = 2 * u[n] + d[n] /\ d[n] \in {0, 1}
                             /\ v[n + 1] = 2 * v[n] + e[n] /\ e[n] \in {0, 1}
                             /\ w[n + 1] = 2 * w[n] + f[n] /\ f[n] \in {0, 1}
      /\ \A n \in Lengths : u[n] \in Nat /\ v[n] \in Nat /\ w[n] \in Nat
  BY <1>1, NumbersProperties
<1> HIDE DEF u, v, w
<1>5. 0 \in S /\ 0 \in Lengths
  BY <1>4, KeyLengthAssumption DEF Lengths
<1>6. ASSUME NEW n \in 0 .. (KEY_LENGTH_BITS - 1), n \in S PROVE n + 1 \in S
  <2>1. n \in Position /\ n \in Lengths /\ n + 1 \in Lengths
    BY KeyLengthAssumption DEF Lengths, Position
  <2>2. /\ u[n + 1] = 2 * u[n] + d[n] /\ v[n + 1] = 2 * v[n] + e[n]
        /\ w[n + 1] = 2 * w[n] + f[n]
        /\ d[n] \in {0, 1} /\ e[n] \in {0, 1} /\ f[n] \in {0, 1}
        /\ u[n] \in Nat /\ v[n] \in Nat /\ w[n] \in Nat
        /\ u[n] <= v[n] + w[n] /\ d[n] <= e[n] + f[n]
    BY <1>2, <1>4, <1>6, <2>1
  <2>3. 2 * u[n] + d[n] <= (2 * v[n] + e[n]) + (2 * w[n] + f[n])
    BY <2>2
  <2> QED
    BY <2>1, <2>2, <2>3
<1> HIDE DEF S
<1>7. 0 .. KEY_LENGTH_BITS \subseteq S
  BY <1>5, <1>6, LengthInduction
<1>8. KEY_LENGTH_BITS \in S
  BY <1>7, KeyLengthAssumption
<1> QED
  BY <1>3, <1>8 DEF S

-----------------------------------------------------------------------------
(* Prefixes and buckets.                                                   *)

(***************************************************************************)
(* common_prefix_length is bucket_index, save for equal identifiers.       *)
(***************************************************************************)
LEMMA PrefixIsBucket ==
  ASSUME NEW a \in NodeIds, NEW b \in NodeIds
  PROVE  /\ a = b => common_prefix_length(a, b) = KEY_LENGTH_BITS
         /\ a # b => common_prefix_length(a, b) = bucket_index(a, b)
         /\ bucket_index(a, b) = bucket_index(b, a)
<1>1. SetBits(distance(a, b)) = {p \in Position : a[p] # b[p]}
  BY DEF SetBits, distance
<1>2. a = b <=> SetBits(distance(a, b)) = {}
  BY <1>1 DEF NodeIds
<1>3. distance(a, b) = distance(b, a)
  BY DistanceBits
<1> QED
  BY <1>2, <1>3 DEF common_prefix_length, leading_zeros, bucket_index

(***************************************************************************)
(* A number whose first 1 is at position i lies between two powers of two. *)
(***************************************************************************)
LEMMA FirstBitGivesScale ==
  ASSUME NEW d \in NodeIds, NEW i \in Position, d[i] = 1,
         \A q \in 0 .. (i - 1) : d[q] = 0
  PROVE  /\ PowerOf2(KEY_LENGTH_BITS - 1 - i) <= Value(d)
         /\ Value(d) < PowerOf2(KEY_LENGTH_BITS - i)
<1> DEFINE v == Numbers(0, d)
           w == Numbers(1, Zero)
           S == {n \in Lengths : n > i => w[n - 1 - i] <= v[n] /\ v[n] < w[n - i]}
<1>1. Zero \in NodeIds /\ \A n \in Position : Zero[n] = 0
  BY DEF Zero, NodeIds
<1>2. i \in Nat /\ i \in Lengths /\ i + 1 \in Lengths /\ 0 \in Lengths /\ 0 \in Position
      /\ 1 \in Lengths
  BY KeyLengthAssumption DEF Lengths, Position
<1>3. v[i] = Numbers(0, Zero)[i]
  <2>1. \A q \in 0 .. (i - 1) : q \in Position
    BY <1>2, KeyLengthAssumption DEF Position
  <2>2. \A q \in 0 .. (i - 1) : d[q] = Zero[q]
    BY <1>1, <2>1
  <2> QED
    BY <1>1, <1>2, <2>2, SamePrefixSameNumber
<1>4. Numbers(0, Zero)[i] = 0
  <2> DEFINE z == Numbers(0, Zero)
             T == {n \in Lengths : z[n] = 0}
  <2>1. z[0] = 0 /\ \A n \in Position : z[n + 1] = 2 * z[n] + Zero[n]
    BY <1>1, NumbersProperties
  <2> HIDE DEF z
  <2>2. 0 \in T
    BY <1>2, <2>1
  <2>3. ASSUME NEW n \in 0 .. (KEY_LENGTH_BITS - 1), n \in T PROVE n + 1 \in T
    BY <1>1, <2>1, <2>3, KeyLengthAssumption DEF Lengths, Position
  <2> HIDE DEF T
  <2>4. 0 .. KEY_LENGTH_BITS \subseteq T
    BY <1>2, <2>2, <2>3, LengthInduction
  <2>5. i \in T
    BY <1>2, <2>4 DEF Lengths
  <2> QED
    BY <2>5 DEF T, z
<1>5. /\ \A n \in Position : v[n + 1] = 2 * v[n] + d[n] /\ d[n] \in {0, 1}
      /\ w[0] = 1 /\ \A n \in Position : w[n + 1] = 2 * w[n] + Zero[n]
      /\ \A n \in Lengths : v[n] \in Nat /\ w[n] \in Nat
  BY <1>1, NumbersProperties
<1>6. /\ Value(d) = v[KEY_LENGTH_BITS]
      /\ PowerOf2(KEY_LENGTH_BITS - 1 - i) = w[KEY_LENGTH_BITS - 1 - i]
      /\ PowerOf2(KEY_LENGTH_BITS - i) = w[KEY_LENGTH_BITS - i]
  BY DEF Value, PowerOf2
<1> HIDE DEF v, w
<1>7. v[i + 1] = 1 /\ w[0] = 1 /\ w[1] = 2
  <2>1. v[i + 1] = 1
    BY <1>3, <1>4, <1>5
  <2>2. w[0 + 1] = 2 * w[0] + Zero[0]
    BY <1>2, <1>5
  <2> QED
    BY <1>1, <1>2, <1>5, <2>1, <2>2
<1>8. i + 1 \in S
  <2>1. (i + 1) - 1 - i = 0 /\ (i + 1) - i = 1
    BY <1>2
  <2> QED
    BY <1>2, <1>7, <2>1
<1>9. ASSUME NEW n \in (i + 1) .. (KEY_LENGTH_BITS - 1), n \in S PROVE n + 1 \in S
  <2>1. /\ n \in Position /\ n \in Lengths /\ n + 1 \in Lengths /\ n > i
        /\ n - 1 - i \in Position /\ n - i \in Position
        /\ n - 1 - i \in Lengths /\ n - i \in Lengths
        /\ (n - 1 - i) + 1 = (n + 1) - 1 - i /\ (n - i) + 1 = (n + 1) - i
    BY <1>2, KeyLengthAssumption DEF Lengths, Position
  <2>2. /\ w[n - 1 - i] <= v[n] /\ v[n] < w[n - i]
        /\ v[n + 1] = 2 * v[n] + d[n] /\ d[n] \in {0, 1}
        /\ w[(n - 1 - i) + 1] = 2 * w[n - 1 - i] /\ w[(n - i) + 1] = 2 * w[n - i]
        /\ v[n] \in Nat /\ w[n - 1 - i] \in Nat /\ w[n - i] \in Nat
    BY <1>1, <1>5, <1>9, <2>1
  <2>3. /\ 2 * w[n - 1 - i] <= 2 * v[n] + d[n]
        /\ 2 * v[n] + d[n] < 2 * w[n - i]
    BY <2>2
  <2>4. w[(n + 1) - 1 - i] <= v[n + 1] /\ v[n + 1] < w[(n + 1) - i]
    BY <2>1, <2>2, <2>3
  <2> QED
    BY <2>1, <2>4
<1> HIDE DEF S
<1>10. (i + 1) .. KEY_LENGTH_BITS \subseteq S
  BY <1>2, <1>8, <1>9, LengthInduction
<1>11. KEY_LENGTH_BITS \in S /\ KEY_LENGTH_BITS > i
  BY <1>2, <1>10, KeyLengthAssumption DEF Lengths, Position
<1> QED
  BY <1>6, <1>11 DEF S

-----------------------------------------------------------------------------
(* The invariants of MCNodeId.                                             *)

Identifiers == local \in NodeIds /\ other \in NodeIds /\ target \in NodeIds

(***************************************************************************)
(* MCNodeId goes through identifiers.                                      *)
(***************************************************************************)
LEMMA TriplesOfIdentifiers == Spec => []Identifiers
<1>1. Init => Identifiers
  BY ZeroIsZero DEF Init, Identifiers
<1>2. Identifiers /\ [Next]_vars => Identifiers'
  BY DEF Identifiers, Next, vars
<1> QED
  BY <1>1, <1>2, PTL DEF Spec

(***************************************************************************)
(* The XOR of byte arrays and their comparison are the XOR metric on       *)
(* numbers and its order, for every identifier length.                     *)
(***************************************************************************)
THEOREM XorMetricCorrect == Spec => []DistanceIsXorMetric
<1>1. ASSUME Identifiers PROVE DistanceIsXorMetric
  <2> USE <1>1 DEF Identifiers
  <2>1. Dist(local, other) = 0 <=> local = other
    <3>1. distance(local, other) \in NodeIds
      BY DistanceBits
    <3>2. Less(Zero, distance(local, other)) <=> 0 < Dist(local, other)
      BY <3>1, ZeroIsZero, NumericOrder DEF Dist
    <3>3. Dist(local, other) \in Nat
      BY <3>1, NumericOrder DEF Dist
    <3>4. CASE local = other
      <4>1. distance(local, other) = Zero
        BY <3>4 DEF distance, Zero
      <4> QED
        BY <3>4, <4>1, ZeroIsZero DEF Dist
    <3>5. CASE local # other
      <4> DEFINE i == bucket_index(local, other)
      <4>1. /\ i \in Position /\ local[i] # other[i]
            /\ \A q \in 0 .. (i - 1) : local[q] = other[q]
        BY <3>5, BucketIndexProperties
      <4> HIDE DEF i
      <4>2. \A q \in 0 .. (i - 1) : q \in Position
        BY <4>1, KeyLengthAssumption DEF Position
      <4>3. /\ Zero[i] < distance(local, other)[i]
            /\ \A q \in 0 .. (i - 1) : Zero[q] = distance(local, other)[q]
        BY <4>1, <4>2 DEF distance, Zero
      <4>4. Less(Zero, distance(local, other))
        BY <4>1, <4>3 DEF Less
      <4> QED
        BY <3>2, <3>3, <3>5, <4>4
    <3> QED
      BY <3>4, <3>5
  <2>2. distance(local, other) = distance(other, local)
    BY DistanceBits
  <2>3. Dist(local, other) <= Dist(local, target) + Dist(target, other)
    BY TriangleInequality
  <2>4. Closer(target, local, other) <=> Dist(local, target) < Dist(other, target)
    BY DistanceBits, NumericOrder DEF Closer, Dist
  <2>5. distance(local, target) = distance(other, target) => local = other
    BY DistanceHasNoTies
  <2> QED
    BY <2>1, <2>2, <2>3, <2>4, <2>5 DEF DistanceIsXorMetric
<1> QED
  BY <1>1, TriplesOfIdentifiers, PTL

(***************************************************************************)
(* bucket_index is the scale of the distance: peers of bucket i are those  *)
(* whose distance has its highest power of two at i.                       *)
(***************************************************************************)
THEOREM BucketScaleCorrect == Spec => []BucketIsDistanceScale
<1>1. ASSUME Identifiers PROVE BucketIsDistanceScale
  <2> USE <1>1 DEF Identifiers
  <2>1. CASE local = other
    BY <2>1, PrefixIsBucket, BucketIndexProperties DEF BucketIsDistanceScale
  <2>2. CASE local # other
    <3> DEFINE i == bucket_index(local, other)
               d == distance(local, other)
    <3>1. /\ i \in Position /\ local[i] # other[i]
          /\ \A q \in 0 .. (i - 1) : local[q] = other[q]
      BY <2>2, BucketIndexProperties
    <3>2. /\ d \in NodeIds
          /\ \A p \in Position : d[p] = IF local[p] = other[p] THEN 0 ELSE 1
      BY DistanceBits
    <3>3. i = common_prefix_length(local, other) /\ i = bucket_index(other, local)
      BY <2>2, PrefixIsBucket
    <3>4. Dist(local, other) = Value(d)
      BY DEF Dist
    <3> HIDE DEF i, d
    <3>5. \A q \in 0 .. (i - 1) : q \in Position
      BY <3>1, KeyLengthAssumption DEF Position
    <3>6. d[i] = 1 /\ \A q \in 0 .. (i - 1) : d[q] = 0
      BY <3>1, <3>2, <3>5
    <3>7. /\ PowerOf2(KEY_LENGTH_BITS - 1 - i) <= Value(d)
          /\ Value(d) < PowerOf2(KEY_LENGTH_BITS - i)
      BY <3>1, <3>2, <3>6, FirstBitGivesScale
    <3> QED
      BY <2>2, <3>3, <3>4, <3>7 DEF BucketIsDistanceScale, i
  <2> QED
    BY <2>1, <2>2
<1> QED
  BY <1>1, TriplesOfIdentifiers, PTL

(***************************************************************************)
(* A contact of the target's own bucket is closer to the target than the   *)
(* local node and shares a longer prefix with it.                          *)
(***************************************************************************)
THEOREM OwnBucketCorrect == Spec => []OwnBucketIsCloser
<1>1. ASSUME Identifiers, local # target,
             bucket_index(local, other) = bucket_index(local, target)
      PROVE  /\ Closer(target, other, local)
             /\ common_prefix_length(other, target) > common_prefix_length(local, target)
  <2> USE <1>1 DEF Identifiers
  <2> DEFINE i == bucket_index(local, target)
  <2>1. Closer(target, other, local)
    BY OwnBucketContactIsCloser
  <2>2. /\ i \in Position /\ local[i] # target[i]
        /\ \A q \in 0 .. (i - 1) : local[q] = target[q]
    BY BucketIndexProperties
  <2>3. local # other
    BY <2>2, BucketIndexProperties, KeyLengthAssumption DEF NoIndex, Position
  <2>4. /\ local[i] # other[i]
        /\ \A q \in 0 .. (i - 1) : local[q] = other[q]
    BY <2>3, BucketIndexProperties
  <2>5. common_prefix_length(local, target) = i
    BY PrefixIsBucket
  <2> HIDE DEF i
  <2>6. \A q \in 0 .. i : other[q] = target[q]
    <3>1. other[i] = target[i]
      BY <2>2, <2>4 DEF NodeIds
    <3>2. ASSUME NEW q \in 0 .. i PROVE q = i \/ q \in 0 .. (i - 1)
      BY <2>2, KeyLengthAssumption DEF Position
    <3> QED
      BY <2>2, <2>4, <3>1, <3>2
  <2>7. CASE other = target
    <3>1. common_prefix_length(other, target) = KEY_LENGTH_BITS
      BY <2>7, PrefixIsBucket
    <3>2. KEY_LENGTH_BITS > i
      BY <2>2, KeyLengthAssumption DEF Position
    <3> QED
      BY <2>1, <2>5, <3>1, <3>2
  <2>8. CASE other # target
    <3> DEFINE j == bucket_index(other, target)
    <3>1. j \in Position /\ other[j] # target[j] /\ common_prefix_length(other, target) = j
      BY <2>8, BucketIndexProperties, PrefixIsBucket
    <3> HIDE DEF j
    <3>2. j > i
      BY <2>2, <2>6, <3>1, KeyLengthAssumption DEF Position
    <3> QED
      BY <2>1, <2>5, <3>1, <3>2
  <2> QED
    BY <2>1, <2>7, <2>8
<1>2. Identifiers => OwnBucketIsCloser
  BY <1>1 DEF OwnBucketIsCloser
<1> QED
  BY <1>2, TriplesOfIdentifiers, PTL

(***************************************************************************)
(* The identifiers random_in_bucket may draw are the bucket's, and there   *)
(* is none for the index that no bucket has.                               *)
(***************************************************************************)
THEOREM RefreshCorrect == Spec => []RefreshHitsItsBucket
<1>1. ASSUME Identifiers, NEW i \in 0 .. KEY_LENGTH_BITS
      PROVE  random_in_bucket(local, i) = {a \in NodeIds : bucket_index(local, a) = i}
  <2> USE <1>1 DEF Identifiers
  <2>1. CASE i \in Position
    BY <2>1, RandomInBucketIsTheBucket
  <2>2. CASE i \notin Position
    <3>1. i = KEY_LENGTH_BITS /\ i >= KEY_LENGTH_BITS
      BY <2>2, KeyLengthAssumption DEF Position
    <3>2. random_in_bucket(local, i) = {}
      BY <3>1 DEF random_in_bucket
    <3>3. ASSUME NEW a \in NodeIds PROVE bucket_index(local, a) # i
      <4>1. bucket_index(local, a) \in Position \cup {NoIndex}
        BY BucketIndexProperties
      <4> QED
        BY <2>2, <3>1, <4>1, KeyLengthAssumption DEF NoIndex
    <3> QED
      BY <3>2, <3>3
  <2> QED
    BY <2>1, <2>2
<1>2. Identifiers => RefreshHitsItsBucket
  BY <1>1 DEF RefreshHitsItsBucket
<1> QED
  BY <1>2, TriplesOfIdentifiers, PTL

=============================================================================
