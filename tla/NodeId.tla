------------------------------- MODULE NodeId -------------------------------
(***************************************************************************)
(* The identifier space of src/node_id.rs.  An identifier is a string of   *)
(* KEY_LENGTH_BITS bits, most significant bit first; the code's byte       *)
(* arrays, with bit 7 - (p % 8) of byte p / 8 for position p, are          *)
(* flattened to a function from bit positions to {0, 1}.                   *)
(***************************************************************************)
EXTENDS Integers, FiniteSets, Sequences

CONSTANT KEY_LENGTH_BITS    \* 160 in the code

ASSUME KeyLengthAssumption == KEY_LENGTH_BITS \in Nat \ {0}

Position == 0 .. (KEY_LENGTH_BITS - 1)

NodeIds == [Position -> {0, 1}]

\* Option::None of bucket_index.
NoIndex == -1

-----------------------------------------------------------------------------

\* from_bytes: data longer than an identifier is cut, shorter is padded with 0.
from_bytes(data) ==
  [p \in Position |-> IF p < Len(data) THEN data[p + 1] ELSE 0]

\* A distance that forgets the bits set only in the second identifier.
AndNotDistance(a, b) == [p \in Position |-> IF a[p] = 1 /\ b[p] = 0 THEN 1 ELSE 0]

\* The XOR of two identifiers, itself an identifier.
distance(a, b) == [p \in Position |-> IF a[p] = b[p] THEN 0 ELSE 1]

bit_at(a, p) == p < KEY_LENGTH_BITS /\ a[p] = 1

\* A comparison that starts at the least significant bit.
LessFromTail(a, b) ==
  \E p \in Position : /\ a[p] < b[p]
                      /\ \A q \in (p + 1) .. (KEY_LENGTH_BITS - 1) : a[q] = b[q]

\* Ord: byte arrays, and so bit strings, compare lexicographically.
Less(a, b) ==
  \E p \in Position : /\ a[p] < b[p]
                      /\ \A q \in 0 .. (p - 1) : a[q] = b[q]

SetBits(a) == {p \in Position : a[p] = 1}

LeastOf(S) == CHOOSE p \in S : \A q \in S : p <= q

leading_zeros(a) ==
  IF SetBits(a) = {} THEN KEY_LENGTH_BITS ELSE LeastOf(SetBits(a))

common_prefix_length(a, b) == leading_zeros(distance(a, b))

\* A scan that goes on to the last set bit of the XOR.
LastSetBitIndex(a, b) ==
  IF SetBits(distance(a, b)) = {}
    THEN NoIndex
    ELSE CHOOSE p \in SetBits(distance(a, b)) :
           \A q \in SetBits(distance(a, b)) : q <= p

\* The bucket of b in a's routing table: the first bit where they differ.
bucket_index(a, b) ==
  IF SetBits(distance(a, b)) = {}
    THEN NoIndex
    ELSE LeastOf(SetBits(distance(a, b)))

\* The refresh target when the loop starts at bucket_index, not one after it.
RandomFromBucketBit(base, index) ==
  IF index >= KEY_LENGTH_BITS
    THEN {}
    ELSE {[p \in Position |-> IF p < index THEN base[p] ELSE tail[p]] :
            tail \in NodeIds}

\* The results random_in_bucket may return: base with bit "index" flipped and
\* every later bit drawn at random; none when there is no such bucket.
random_in_bucket(base, index) ==
  IF index >= KEY_LENGTH_BITS
    THEN {}
    ELSE {[p \in Position |-> CASE p < index -> base[p]
                                [] p = index -> 1 - base[p]
                                [] OTHER     -> tail[p]] : tail \in NodeIds}

\* a sorts before b in every "sort by XOR distance to the target" of the code.
Closer(to, a, b) == Less(distance(a, to), distance(b, to))

=============================================================================
