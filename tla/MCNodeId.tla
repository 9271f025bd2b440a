------------------------------ MODULE MCNodeId ------------------------------
(***************************************************************************)
(* The identifier arithmetic against its numeric reading: every triple of  *)
(* identifiers of a small space is reached, one identifier at a time.      *)
(***************************************************************************)
EXTENDS NodeId

VARIABLES local, other, target

vars == <<local, other, target>>

Zero == [p \in Position |-> 0]

Init == local = Zero /\ other = Zero /\ target = Zero

Next ==
  \/ \E a \in NodeIds : local' = a /\ UNCHANGED <<other, target>>
  \/ \E a \in NodeIds : other' = a /\ UNCHANGED <<local, target>>
  \/ \E a \in NodeIds : target' = a /\ UNCHANGED <<local, other>>

Spec == Init /\ [][Next]_vars

-----------------------------------------------------------------------------

\* The numbers that the beginnings of a bit string denote, behind a leading one.
Numbers(lead, a) ==
  LET v[n \in 0 .. KEY_LENGTH_BITS] == IF n = 0 THEN lead ELSE 2 * v[n - 1] + a[n - 1]
  IN v

\* The number an identifier denotes, 2^n, and the XOR metric on numbers.
Value(a) == Numbers(0, a)[KEY_LENGTH_BITS]

PowerOf2(n) == Numbers(1, Zero)[n]

Dist(a, b) == Value(distance(a, b))

\* distance is a metric whose order is the one sort_by uses: zero only between
\* equal identifiers, symmetric, satisfying the triangle inequality, and Less
\* is the numeric order, so that "closest" in the code means closest by XOR.
DistanceIsXorMetric ==
  /\ Dist(local, other) = 0 <=> local = other
  /\ distance(local, other) = distance(other, local)
  /\ Dist(local, other) <= Dist(local, target) + Dist(target, other)
  /\ Closer(target, local, other) <=> Dist(local, target) < Dist(other, target)
  \* no two identifiers are equally far from a third: sort_by meets no ties
  /\ distance(local, target) = distance(other, target) => local = other

\* bucket_index groups the peers by the power of two of their distance, as
\* Kademlia defines it, and agrees with common_prefix_length.
BucketIsDistanceScale ==
  IF local = other
    THEN /\ bucket_index(local, other) = NoIndex
         /\ common_prefix_length(local, other) = KEY_LENGTH_BITS
    ELSE LET i == bucket_index(local, other)
         IN /\ PowerOf2(KEY_LENGTH_BITS - 1 - i) <= Dist(local, other)
            /\ Dist(local, other) < PowerOf2(KEY_LENGTH_BITS - i)
            /\ i = common_prefix_length(local, other)
            /\ i = bucket_index(other, local)

\* The step that makes lookups converge: a contact in the target's own bucket is
\* closer to the target than the local node is, and shares a longer prefix.
OwnBucketIsCloser ==
  (/\ local # target
   /\ bucket_index(local, other) = bucket_index(local, target))
    => /\ Closer(target, other, local)
       /\ common_prefix_length(other, target) > common_prefix_length(local, target)

\* The refresh task's target falls in the bucket it refreshes, and every
\* identifier of that bucket may be drawn.
RefreshHitsItsBucket ==
  \A i \in 0 .. KEY_LENGTH_BITS :
    random_in_bucket(local, i) = {a \in NodeIds : bucket_index(local, a) = i}

=============================================================================
