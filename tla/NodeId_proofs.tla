---------------------------- MODULE NodeId_proofs ----------------------------
(***************************************************************************)
(* Facts about the identifier space, for every identifier length.          *)
(***************************************************************************)
EXTENDS NodeId, FiniteSetTheorems, TLAPS, WellFoundedInduction

(***************************************************************************)
(* A non-empty set of naturals has a least element, and LeastOf is it: the *)
(* scans for a first position (bucket_index, iter().position) are defined. *)
(***************************************************************************)
LEMMA LeastOfIsLeast ==
  ASSUME NEW S, S \subseteq Nat, S # {}
  PROVE  LeastOf(S) \in S /\ \A q \in S : LeastOf(S) <= q
<1>1. \E x \in S : \A y \in S : ~(<<y, x>> \in OpToRel(<, Nat))
  BY WFMin, NatLessThanWellFounded
<1>2. PICK x \in S : \A y \in S : ~(<<y, x>> \in OpToRel(<, Nat))
  BY <1>1
<1>3. \A y \in S : <<y, x>> \in Nat \X Nat /\ (y < x => <<y, x>> \in OpToRel(<, Nat))
  BY DEF OpToRel
<1>4. \A y \in S : ~(y < x)
  BY <1>2, <1>3, Zenon
<1>5. \A y \in S : x <= y
  BY <1>4
<1> QED
  BY <1>5 DEF LeastOf

(***************************************************************************)
(* What bucket_index returns: None exactly for equal identifiers,          *)
(* otherwise the first position where the two differ.                      *)
(***************************************************************************)
LEMMA BucketIndexProperties ==
  ASSUME NEW a \in NodeIds, NEW b \in NodeIds
  PROVE  /\ a = b => bucket_index(a, b) = NoIndex
         /\ a # b => /\ bucket_index(a, b) \in Position
                     /\ a[bucket_index(a, b)] # b[bucket_index(a, b)]
                     /\ \A q \in 0 .. (bucket_index(a, b) - 1) : a[q] = b[q]
<1> DEFINE D == SetBits(distance(a, b))
<1>1. D = {p \in Position : a[p] # b[p]}
  BY DEF SetBits, distance
<1>2. CASE a = b
  BY <1>1, <1>2 DEF bucket_index
<1>3. CASE a # b
  <2>1. D # {} /\ D \subseteq Nat
    BY <1>1, <1>3, KeyLengthAssumption DEF NodeIds, Position
  <2>2. LeastOf(D) \in D /\ \A q \in D : LeastOf(D) <= q
    <3> HIDE DEF D
    <3> QED BY <2>1, LeastOfIsLeast
  <2>3. bucket_index(a, b) = LeastOf(D)
    BY <2>1 DEF bucket_index
  <2> HIDE DEF D
  <2>4. /\ bucket_index(a, b) \in Position
        /\ a[bucket_index(a, b)] # b[bucket_index(a, b)]
    BY <1>1, <2>2, <2>3
  <2>5. ASSUME NEW q \in 0 .. (LeastOf(D) - 1) PROVE a[q] = b[q]
    <3>1. LeastOf(D) \in Position
      BY <1>1, <2>2
    <3>2. q \in Position /\ q < LeastOf(D)
      BY <3>1, KeyLengthAssumption DEF Position
    <3>3. q \notin D
      BY <2>1, <2>2, <3>1, <3>2 DEF Position
    <3> QED
      BY <1>1, <3>2, <3>3
  <2> QED
    BY <1>3, <2>3, <2>4, <2>5
<1> QED
  BY <1>2, <1>3

(***************************************************************************)
(* The first differing position is unique: an identifier that differs from *)
(* a at i and agrees before i has bucket index i.                          *)
(***************************************************************************)
LEMMA BucketIndexIsUnique ==
  ASSUME NEW a \in NodeIds, NEW b \in NodeIds, NEW i \in Position,
         a[i] # b[i], \A q \in 0 .. (i - 1) : a[q] = b[q]
  PROVE  bucket_index(a, b) = i
<1>1. a # b
  OBVIOUS
<1>2. /\ bucket_index(a, b) \in Position
      /\ a[bucket_index(a, b)] # b[bucket_index(a, b)]
      /\ \A q \in 0 .. (bucket_index(a, b) - 1) : a[q] = b[q]
  BY <1>1, BucketIndexProperties
<1> HIDE DEF bucket_index
<1>3. ~(bucket_index(a, b) < i)
  BY <1>2, KeyLengthAssumption DEF Position
<1>4. ~(i < bucket_index(a, b))
  BY <1>2, KeyLengthAssumption DEF Position
<1> QED
  BY <1>2, <1>3, <1>4, KeyLengthAssumption DEF Position

(***************************************************************************)
(* No two identifiers are equally far from a third: the distance sorts of  *)
(* get_closest, find_node and find_value meet no ties between contacts.    *)
(***************************************************************************)
THEOREM DistanceHasNoTies ==
  ASSUME NEW a \in NodeIds, NEW b \in NodeIds, NEW target \in NodeIds,
         distance(a, target) = distance(b, target)
  PROVE  a = b
<1>1. ASSUME NEW p \in Position
      PROVE  a[p] = b[p]
  <2>1. distance(a, target)[p] = distance(b, target)[p]
    OBVIOUS
  <2>2. (a[p] = target[p]) <=> (b[p] = target[p])
    BY <2>1 DEF distance
  <2> QED
    BY <2>2 DEF NodeIds
<1> QED
  BY <1>1 DEF NodeIds

(***************************************************************************)
(* Contacts of one bucket agree at the bucket's bit: both differ from the  *)
(* owner there, and there are only two bits.                               *)
(***************************************************************************)
LEMMA SameBucketSameBit ==
  ASSUME NEW a \in NodeIds, NEW b \in NodeIds, NEW c \in NodeIds,
         bucket_index(a, b) = bucket_index(a, c), a # b
  PROVE  /\ a # c
         /\ b[bucket_index(a, b)] = c[bucket_index(a, b)]
         /\ bit_at(b, bucket_index(a, b)) <=> bit_at(c, bucket_index(a, b))
<1>1. bucket_index(a, b) \in Position
  BY BucketIndexProperties
<1>2. a # c
  BY <1>1, BucketIndexProperties, KeyLengthAssumption DEF NoIndex, Position
<1>3. /\ a[bucket_index(a, b)] # b[bucket_index(a, b)]
      /\ a[bucket_index(a, b)] # c[bucket_index(a, b)]
  BY <1>2, BucketIndexProperties
<1> HIDE DEF bucket_index
<1> QED
  BY <1>1, <1>2, <1>3 DEF NodeIds, bit_at

(***************************************************************************)
(* Why a lookup that asks its closest candidate c makes progress: if some  *)
(* node n is closer to the target than c, then every contact c has in the  *)
(* bucket of n is closer to the target than c, so that one contact per     *)
(* bucket is enough for find_node to get on.                               *)
(***************************************************************************)
THEOREM BucketOfCloserNodeIsCloser ==
  ASSUME NEW c \in NodeIds, NEW n \in NodeIds, NEW x \in NodeIds,
         NEW target \in NodeIds,
         Closer(target, n, c),
         bucket_index(c, x) = bucket_index(c, n)
  PROVE  Closer(target, x, c)
<1>1. PICK p \in Position :
        /\ distance(n, target)[p] < distance(c, target)[p]
        /\ \A q \in 0 .. (p - 1) : distance(n, target)[q] = distance(c, target)[q]
  BY DEF Closer, Less
<1>2. n[p] = target[p] /\ c[p] # target[p]
  BY <1>1 DEF distance
<1>3. ASSUME NEW q \in 0 .. (p - 1) PROVE c[q] = n[q]
  <2>1. q \in Position
    BY KeyLengthAssumption DEF Position
  <2>2. distance(n, target)[q] = distance(c, target)[q]
    BY <1>1
  <2>3. (n[q] = target[q]) <=> (c[q] = target[q])
    BY <2>1, <2>2 DEF distance
  <2> QED
    BY <2>1, <2>3 DEF NodeIds
<1>4. bucket_index(c, n) = p
  BY <1>2, <1>3, BucketIndexIsUnique
<1>5. x # c
  BY <1>4, BucketIndexProperties, KeyLengthAssumption DEF NoIndex, Position
<1>6. c[p] # x[p] /\ \A q \in 0 .. (p - 1) : c[q] = x[q]
  BY <1>4, <1>5, BucketIndexProperties
<1>7. distance(x, target)[p] < distance(c, target)[p]
  BY <1>2, <1>6 DEF NodeIds, distance
<1>8. \A q \in 0 .. (p - 1) : distance(x, target)[q] = distance(c, target)[q]
  BY <1>6, KeyLengthAssumption DEF distance, Position
<1> QED
  BY <1>7, <1>8 DEF Closer, Less

(***************************************************************************)
(* The case of the node itself: a contact of the target's own bucket is    *)
(* closer to the target than the owner of the table.                       *)
(***************************************************************************)
THEOREM OwnBucketContactIsCloser ==
  ASSUME NEW local \in NodeIds, NEW other \in NodeIds, NEW target \in NodeIds,
         local # target,
         bucket_index(local, other) = bucket_index(local, target)
  PROVE  Closer(target, other, local)
<1> DEFINE i == bucket_index(local, target)
<1>1. /\ i \in Position
      /\ local[i] # target[i]
      /\ \A q \in 0 .. (i - 1) : local[q] = target[q]
  BY BucketIndexProperties
<1> HIDE DEF i
<1>2. Closer(target, target, local)
  BY <1>1, KeyLengthAssumption DEF Closer, Less, distance, Position
<1> QED
  BY <1>2, BucketOfCloserNodeIsCloser

(***************************************************************************)
(* random_in_bucket returns an identifier of the bucket it is asked for,   *)
(* and may return any of them: the refresh task covers the whole bucket.   *)
(***************************************************************************)
THEOREM RandomInBucketIsTheBucket ==
  ASSUME NEW base \in NodeIds, NEW index \in Position
  PROVE  random_in_bucket(base, index)
           = {a \in NodeIds : bucket_index(base, a) = index}
<1> DEFINE Flip(tail) ==
      [p \in Position |-> CASE p < index -> base[p]
                            [] p = index -> 1 - base[p]
                            [] OTHER     -> tail[p]]
<1>1. random_in_bucket(base, index) = {Flip(tail) : tail \in NodeIds}
  BY KeyLengthAssumption DEF random_in_bucket, Position
<1>2. ASSUME NEW tail \in NodeIds
      PROVE  Flip(tail) \in NodeIds /\ bucket_index(base, Flip(tail)) = index
  <2>1. Flip(tail) \in NodeIds
    BY KeyLengthAssumption DEF NodeIds, Position
  <2>2. Flip(tail)[index] # base[index]
    BY DEF NodeIds
  <2>3. \A q \in 0 .. (index - 1) : Flip(tail)[q] = base[q]
    BY KeyLengthAssumption DEF Position
  <2> HIDE DEF Flip
  <2> QED
    BY <2>1, <2>2, <2>3, BucketIndexIsUnique
<1>3. ASSUME NEW a \in NodeIds, bucket_index(base, a) = index
      PROVE  a = Flip(a)
  <2>1. base # a
    BY <1>3, BucketIndexProperties, KeyLengthAssumption DEF NoIndex, Position
  <2>2. base[index] # a[index] /\ \A q \in 0 .. (index - 1) : base[q] = a[q]
    BY <1>3, <2>1, BucketIndexProperties
  <2>3. ASSUME NEW p \in Position PROVE a[p] = Flip(a)[p]
    BY <2>2, KeyLengthAssumption DEF NodeIds, Position
  <2> QED
    BY <2>3 DEF NodeIds
<1> HIDE DEF Flip
<1> QED
  BY <1>1, <1>2, <1>3

-----------------------------------------------------------------------------
(* Sorting by distance.                                                    *)

(***************************************************************************)
(* Of two identifiers, one is closer to a target: the one that agrees with *)
(* it where the two first differ.                                          *)
(***************************************************************************)
LEMMA CloserAtFirstDifference ==
  ASSUME NEW a \in NodeIds, NEW b \in NodeIds, NEW to \in NodeIds
  PROVE  Closer(to, a, b) <=> a # b /\ a[bucket_index(a, b)] = to[bucket_index(a, b)]
<1>1. ASSUME Closer(to, a, b)
      PROVE  a # b /\ a[bucket_index(a, b)] = to[bucket_index(a, b)]
  <2>1. PICK p \in Position :
          /\ distance(a, to)[p] < distance(b, to)[p]
          /\ \A q \in 0 .. (p - 1) : distance(a, to)[q] = distance(b, to)[q]
    BY <1>1 DEF Closer, Less
  <2>2. a[p] = to[p] /\ b[p] # to[p]
    BY <2>1 DEF distance
  <2>3. ASSUME NEW q \in 0 .. (p - 1) PROVE a[q] = b[q]
    <3>1. q \in Position
      BY KeyLengthAssumption DEF Position
    <3>2. distance(a, to)[q] = distance(b, to)[q]
      BY <2>1
    <3>3. (a[q] = to[q]) <=> (b[q] = to[q])
      BY <3>1, <3>2 DEF distance
    <3> QED
      BY <3>1, <3>3 DEF NodeIds
  <2>4. bucket_index(a, b) = p
    BY <2>2, <2>3, BucketIndexIsUnique
  <2> QED
    BY <2>2, <2>4
<1>2. ASSUME a # b, a[bucket_index(a, b)] = to[bucket_index(a, b)]
      PROVE  Closer(to, a, b)
  <2> DEFINE p == bucket_index(a, b)
  <2>1. /\ p \in Position /\ a[p] # b[p] /\ a[p] = to[p]
        /\ \A q \in 0 .. (p - 1) : a[q] = b[q]
    BY <1>2, BucketIndexProperties
  <2> HIDE DEF p
  <2>2. distance(a, to)[p] < distance(b, to)[p]
    BY <2>1 DEF distance
  <2>3. \A q \in 0 .. (p - 1) : distance(a, to)[q] = distance(b, to)[q]
    BY <2>1, KeyLengthAssumption DEF distance, Position
  <2> QED
    BY <2>1, <2>2, <2>3 DEF Closer, Less
<1> QED
  BY <1>1, <1>2

(***************************************************************************)
(* Being closer to a target is a strict total order of the identifiers:    *)
(* what sort_by needs of its comparison.                                   *)
(***************************************************************************)
THEOREM CloserIsTotalOrder ==
  ASSUME NEW a \in NodeIds, NEW b \in NodeIds, NEW c \in NodeIds, NEW to \in NodeIds
  PROVE  /\ ~Closer(to, a, a)
         /\ Closer(to, a, b) => ~Closer(to, b, a)
         /\ a # b => Closer(to, a, b) \/ Closer(to, b, a)
         /\ Closer(to, a, b) /\ Closer(to, b, c) => Closer(to, a, c)
<1>1. ~Closer(to, a, a)
  BY CloserAtFirstDifference
<1>2. ASSUME a # b
      PROVE  bucket_index(a, b) = bucket_index(b, a) /\ bucket_index(a, b) \in Position
             /\ a[bucket_index(a, b)] # b[bucket_index(a, b)]
  BY <1>2, BucketIndexProperties, BucketIndexIsUnique
<1>3. Closer(to, a, b) => ~Closer(to, b, a)
  BY <1>2, CloserAtFirstDifference
<1>4. a # b => Closer(to, a, b) \/ Closer(to, b, a)
  <2> SUFFICES ASSUME a # b PROVE Closer(to, a, b) \/ Closer(to, b, a)
    OBVIOUS
  <2> DEFINE p == bucket_index(a, b)
  <2>1. p \in Position /\ a[p] # b[p] /\ p = bucket_index(b, a)
    BY <1>2
  <2>2. Closer(to, a, b) <=> a[p] = to[p]
    BY CloserAtFirstDifference
  <2>3. Closer(to, b, a) <=> b[p] = to[p]
    BY <2>1, CloserAtFirstDifference
  <2> HIDE DEF p
  <2> QED
    BY <2>1, <2>2, <2>3 DEF NodeIds
<1>5. ASSUME Closer(to, a, b), Closer(to, b, c) PROVE Closer(to, a, c)
  <2> DEFINE p == bucket_index(a, b)
             r == bucket_index(b, c)
  <2>1. /\ a # b /\ p \in Position /\ a[p] # b[p] /\ a[p] = to[p]
        /\ \A q \in 0 .. (p - 1) : a[q] = b[q]
    BY <1>5, CloserAtFirstDifference, BucketIndexProperties
  <2>2. /\ b # c /\ r \in Position /\ b[r] # c[r] /\ b[r] = to[r]
        /\ \A q \in 0 .. (r - 1) : b[q] = c[q]
    BY <1>5, CloserAtFirstDifference, BucketIndexProperties
  <2> HIDE DEF p, r
  <2>3. p # r
    BY <2>1, <2>2 DEF NodeIds
  <2>4. PICK m \in Position : m = IF p < r THEN p ELSE r
    BY <2>1, <2>2
  <2>5. a[m] # c[m] /\ a[m] = to[m] /\ \A q \in 0 .. (m - 1) : a[q] = c[q]
    <3>1. CASE p < r
      <4>1. b[p] = c[p] /\ m = p
        BY <2>1, <2>2, <2>4, <3>1, KeyLengthAssumption DEF Position
      <4>2. \A q \in 0 .. (p - 1) : q \in 0 .. (r - 1)
        BY <2>1, <2>2, <3>1, KeyLengthAssumption DEF Position
      <4> QED
        BY <2>1, <2>2, <4>1, <4>2
    <3>2. CASE r < p
      <4>1. a[r] = b[r] /\ m = r
        BY <2>1, <2>2, <2>4, <3>2, KeyLengthAssumption DEF Position
      <4>2. \A q \in 0 .. (r - 1) : q \in 0 .. (p - 1)
        BY <2>1, <2>2, <3>2, KeyLengthAssumption DEF Position
      <4> QED
        BY <2>1, <2>2, <4>1, <4>2
    <3> QED
      BY <2>1, <2>2, <2>3, <3>1, <3>2, KeyLengthAssumption DEF Position
  <2>6. bucket_index(a, c) = m /\ a # c
    BY <2>5, BucketIndexIsUnique
  <2> QED
    BY <2>5, <2>6, CloserAtFirstDifference
<1> QED
  BY <1>1, <1>3, <1>4, <1>5

(***************************************************************************)
(* Places by counting: when the elements of a finite set are in a total    *)
(* order, U[i] being those up to i, the sizes of the U[i] are the numbers  *)
(* from 1 to the size of the set, each once, in the order.                 *)
(***************************************************************************)
LEMMA PlacesByCounting ==
  ASSUME NEW P, IsFiniteSet(P), NEW U \in [P -> SUBSET P],
         \A i \in P : i \in U[i],
         \A i, j \in P : i # j => \/ U[i] \subseteq U[j] /\ j \notin U[i]
                                  \/ U[j] \subseteq U[i] /\ i \notin U[j]
  PROVE  /\ \A i \in P : Cardinality(U[i]) \in 1 .. Cardinality(P)
         /\ \A i, j \in P : Cardinality(U[i]) = Cardinality(U[j]) => i = j
         /\ \A i, j \in P : Cardinality(U[i]) < Cardinality(U[j]) => i \in U[j] /\ j \notin U[i]
         /\ \A r \in 1 .. Cardinality(P) : \E i \in P : Cardinality(U[i]) = r
<1> DEFINE n == Cardinality(P)
           Place(i) == Cardinality(U[i])
<1>1. n \in Nat
  BY FS_CardinalityType
<1>2. ASSUME NEW i \in P PROVE IsFiniteSet(U[i]) /\ Place(i) \in 1 .. n
  <2>1. U[i] \in SUBSET P /\ U[i] # {}
    OBVIOUS
  <2>2. IsFiniteSet(U[i]) /\ Place(i) <= n
    BY <2>1, FS_Subset
  <2>3. Place(i) \in Nat /\ Place(i) # 0
    BY <2>1, <2>2, FS_CardinalityType, FS_EmptySet
  <2> HIDE DEF Place, n
  <2> QED
    BY <1>1, <2>2, <2>3
<1>3. ASSUME NEW i \in P, NEW j \in P, U[i] \subseteq U[j], j \notin U[i]
      PROVE  Place(i) < Place(j)
  <2>1. IsFiniteSet(U[j]) /\ U[i] \in SUBSET U[j] /\ U[i] # U[j]
    BY <1>2, <1>3
  <2>2. Place(i) <= Place(j) /\ Place(i) # Place(j)
    BY <2>1, FS_Subset
  <2>3. Place(i) \in 1 .. n /\ Place(j) \in 1 .. n
    BY <1>2
  <2> HIDE DEF Place, n
  <2> QED
    BY <1>1, <2>2, <2>3
<1>4. ASSUME NEW i \in P, NEW j \in P, i # j
      PROVE  \/ Place(i) < Place(j) /\ i \in U[j] /\ j \notin U[i]
             \/ Place(j) < Place(i)
  BY <1>3, <1>4
<1>5. ASSUME NEW i \in P, NEW j \in P
      PROVE  /\ Place(i) = Place(j) => i = j
             /\ Place(i) < Place(j) => i \in U[j] /\ j \notin U[i]
  <2>1. Place(i) \in 1 .. n /\ Place(j) \in 1 .. n
    BY <1>2
  <2>2. i # j => \/ Place(i) < Place(j) /\ i \in U[j] /\ j \notin U[i]
                 \/ Place(j) < Place(i)
    BY <1>4
  <2> HIDE DEF Place, n
  <2> QED
    BY <1>1, <2>1, <2>2
<1>6. \A r \in 1 .. n : \E i \in P : Place(i) = r
  <2> DEFINE f == [i \in P |-> Place(i)]
  <2>1. f \in [P -> 1 .. n] /\ \A i \in P : f[i] = Place(i)
    BY <1>2
  <2> HIDE DEF f
  <2>2. \A i, j \in P : f[i] = f[j] => i = j
    BY <1>5, <2>1
  <2>3. f \in Injection(P, 1 .. n)
    BY <2>1, <2>2 DEF Injection, IsInjective
  <2>4. IsFiniteSet(1 .. n) /\ Cardinality(1 .. n) = n
    BY <1>1, FS_Interval
  <2>5. f \in Surjection(P, 1 .. n)
    BY <2>3, <2>4, FS_Injection
  <2>6. \A r \in 1 .. n : \E i \in P : f[i] = r
    BY <2>5 DEF Surjection
  <2> QED
    BY <2>1, <2>6
<1> QED
  BY <1>2, <1>5, <1>6

=============================================================================
