--------------------------- MODULE Lookup_proofs ----------------------------
(***************************************************************************)
(* The two iterative lookups, for every network, every identifier length,  *)
(* every K and every ALPHA.                                                *)
(***************************************************************************)
EXTENDS FindNode, FindValue, NodeId_proofs, SequenceTheorems

-----------------------------------------------------------------------------
(* Lists of candidates.                                                    *)

\* In order of the distance to an identifier.
Ordered(nodes, to) ==
  \A i, j \in DOMAIN nodes : i < j => Closer(to, nodes[i], nodes[j]) \/ nodes[i] = nodes[j]

\* No node is at three places.
AtMostTwice(nodes) ==
  \A i, j, k \in DOMAIN nodes :
    nodes[i] = nodes[j] /\ nodes[j] = nodes[k] => i = j \/ j = k \/ i = k

Distinct(nodes) == \A i, j \in DOMAIN nodes : nodes[i] = nodes[j] => i = j

(***************************************************************************)
(* The table of the closer nodes is the comparison of the sort.            *)
(***************************************************************************)
LEMMA NearerIsCloser ==
  ASSUME NEW to \in NodeIds, NEW n \in Nodes
  PROVE  Nearer[to][n] = {m \in Nodes : Closer(to, m, n)}
<1>1. Nearer = [t \in NodeIds |-> [x \in Nodes |-> {m \in Nodes : Closer(t, m, x)}]]
  BY DEF Nearer, Tabulated
<1> QED
  BY <1>1

(***************************************************************************)
(* What sort_by by distance does to a list: the same nodes, in order, and  *)
(* none three times that was there twice.                                  *)
(***************************************************************************)
LEMMA SortByDistanceSorts ==
  ASSUME NEW nodes \in Seq(Nodes), NEW to \in NodeIds
  PROVE  /\ SortByDistance(nodes, to) \in Seq(Nodes)
         /\ Len(SortByDistance(nodes, to)) = Len(nodes)
         /\ Ids(SortByDistance(nodes, to)) = Ids(nodes)
         /\ Ordered(SortByDistance(nodes, to), to)
         /\ AtMostTwice(nodes) => AtMostTwice(SortByDistance(nodes, to))
<1> DEFINE P == DOMAIN nodes
           U == [i \in P |-> UpTo(nodes, to, i)]
           at(r) == CHOOSE i \in P : Cardinality(UpTo(nodes, to, i)) = r
           sorted == SortByDistance(nodes, to)
<1>1. /\ P = 1 .. Len(nodes) /\ Len(nodes) \in Nat
      /\ \A i \in P : nodes[i] \in Nodes /\ nodes[i] \in NodeIds
  BY NodesAssumption
<1>2. IsFiniteSet(P) /\ Cardinality(P) = Len(nodes)
  <2>1. /\ IsFiniteSet(1 .. Len(nodes))
        /\ Cardinality(1 .. Len(nodes)) = IF 1 > Len(nodes) THEN 0 ELSE Len(nodes) - 1 + 1
    BY <1>1, FS_Interval
  <2>2. Cardinality(1 .. Len(nodes)) = Len(nodes)
    BY <1>1, <2>1
  <2> QED
    BY <1>1, <2>1, <2>2
<1>3. /\ U \in [P -> SUBSET P]
      /\ \A i \in P : U[i] = {j \in P : \/ Closer(to, nodes[j], nodes[i])
                                        \/ nodes[j] = nodes[i] /\ j <= i}
  <2>1. \A i \in P : UpTo(nodes, to, i)
                       = {j \in P : \/ Closer(to, nodes[j], nodes[i])
                                    \/ nodes[j] = nodes[i] /\ j <= i}
    BY <1>1, NearerIsCloser DEF UpTo
  <2> QED
    BY <2>1
<1> HIDE DEF U
<1>4. \A i, j, k \in P :
        /\ ~Closer(to, nodes[i], nodes[i])
        /\ Closer(to, nodes[i], nodes[j]) => ~Closer(to, nodes[j], nodes[i])
        /\ nodes[i] # nodes[j] => Closer(to, nodes[i], nodes[j]) \/ Closer(to, nodes[j], nodes[i])
        /\ Closer(to, nodes[i], nodes[j]) /\ Closer(to, nodes[j], nodes[k])
             => Closer(to, nodes[i], nodes[k])
  BY <1>1, CloserIsTotalOrder
<1>5. \A i \in P : i \in U[i]
  BY <1>1, <1>3
<1>6. ASSUME NEW i \in P, NEW j \in P, i # j
      PROVE  \/ U[i] \subseteq U[j] /\ j \notin U[i]
             \/ U[j] \subseteq U[i] /\ i \notin U[j]
  <2>1. ASSUME NEW x \in P, NEW y \in P, Closer(to, nodes[x], nodes[y])
        PROVE  U[x] \subseteq U[y] /\ y \notin U[x]
    BY <1>3, <1>4, <2>1
  <2>2. ASSUME NEW x \in P, NEW y \in P, nodes[x] = nodes[y], x < y
        PROVE  U[x] \subseteq U[y] /\ y \notin U[x]
    BY <1>1, <1>3, <1>4, <2>2
  <2>3. i < j \/ j < i
    BY <1>1, <1>6
  <2> QED
    BY <1>4, <2>1, <2>2, <2>3
<1>7. /\ \A i, j \in P : Cardinality(U[i]) = Cardinality(U[j]) => i = j
      /\ \A i, j \in P : Cardinality(U[i]) < Cardinality(U[j]) => i \in U[j] /\ j \notin U[i]
      /\ \A i \in P : Cardinality(U[i]) \in P
      /\ \A r \in P : \E i \in P : Cardinality(U[i]) = r
  <2> HIDE DEF P
  <2>1. Cardinality(P) = Len(nodes)
    BY <1>2
  <2>2. /\ \A i \in P : Cardinality(U[i]) \in 1 .. Cardinality(P)
        /\ \A i, j \in P : Cardinality(U[i]) = Cardinality(U[j]) => i = j
        /\ \A i, j \in P : Cardinality(U[i]) < Cardinality(U[j]) => i \in U[j] /\ j \notin U[i]
        /\ \A r \in 1 .. Cardinality(P) : \E i \in P : Cardinality(U[i]) = r
    BY <1>2, <1>3, <1>5, <1>6, PlacesByCounting
  <2> QED
    BY <1>1, <2>1, <2>2
<1>8. \A r \in P : at(r) \in P /\ Cardinality(U[at(r)]) = r
  <2>1. \A i \in P : UpTo(nodes, to, i) = U[i]
    BY DEF U
  <2>2. \A r \in P : \E i \in P : Cardinality(UpTo(nodes, to, i)) = r
    BY <1>7, <2>1
  <2>3. \A r \in P : at(r) \in P /\ Cardinality(UpTo(nodes, to, at(r))) = r
    BY <2>2
  <2> QED
    BY <2>1, <2>3
<1>9. sorted = [r \in P |-> nodes[at(r)]]
  BY DEF SortByDistance
<1> HIDE DEF at, sorted
<1>10. /\ sorted \in Seq(Nodes) /\ Len(sorted) = Len(nodes) /\ DOMAIN sorted = P
       /\ \A r \in P : sorted[r] = nodes[at(r)]
  BY <1>1, <1>8, <1>9
<1>11. Ids(sorted) = Ids(nodes)
  <2>1. \A r \in P : \E i \in P : sorted[r] = nodes[i]
    BY <1>8, <1>10
  <2>2. \A i \in P : \E r \in P : nodes[i] = sorted[r]
    <3> SUFFICES ASSUME NEW i \in P PROVE \E r \in P : nodes[i] = sorted[r]
      OBVIOUS
    <3>1. Cardinality(U[i]) \in P
      BY <1>7
    <3>2. at(Cardinality(U[i])) = i
      BY <1>7, <1>8, <3>1
    <3> QED
      BY <1>10, <3>1, <3>2
  <2> QED
    BY <1>10, <2>1, <2>2 DEF Ids
<1>12. ASSUME NEW i \in P, NEW j \in P, i < j
       PROVE  /\ at(i) \in P /\ at(j) \in P /\ at(i) # at(j)
              /\ Closer(to, nodes[at(i)], nodes[at(j)]) \/ nodes[at(i)] = nodes[at(j)]
  <2>1. /\ at(i) \in P /\ at(j) \in P
        /\ Cardinality(U[at(i)]) = i /\ Cardinality(U[at(j)]) = j
    BY <1>8
  <2>2. at(i) # at(j)
    BY <1>1, <1>12, <2>1
  <2>3. at(i) \in U[at(j)]
    BY <1>7, <1>12, <2>1
  <2> QED
    BY <1>3, <2>1, <2>2, <2>3
<1>13. Ordered(sorted, to)
  BY <1>10, <1>12 DEF Ordered
<1>14. AtMostTwice(nodes) => AtMostTwice(sorted)
  <2>1. \A i, j \in P : at(i) = at(j) => i = j
    BY <1>8
  <2> QED
    BY <1>8, <1>10, <2>1 DEF AtMostTwice
<1> QED
  BY <1>10, <1>11, <1>13, <1>14 DEF sorted

(***************************************************************************)
(* The first elements of a list.                                           *)
(***************************************************************************)
LEMMA TakeIsPrefix ==
  ASSUME NEW S, NEW s \in Seq(S), NEW count \in Nat
  PROVE  /\ take(s, count) \in Seq(S)
         /\ Len(take(s, count)) = IF count < Len(s) THEN count ELSE Len(s)
         /\ \A i \in DOMAIN take(s, count) : i \in DOMAIN s /\ take(s, count)[i] = s[i]
         /\ \A i \in DOMAIN s : i <= count => i \in DOMAIN take(s, count)
BY DEF take

(***************************************************************************)
(* The new head of a list that is sorted and cut: no node that was in the  *)
(* list is closer.                                                         *)
(***************************************************************************)
LEMMA SortedAndCut ==
  ASSUME NEW nodes \in Seq(Nodes), NEW to \in NodeIds
  PROVE  LET new == take(SortByDistance(nodes, to), K)
         IN /\ new \in Seq(Nodes)
            /\ Len(new) <= K
            /\ Len(new) = IF K < Len(nodes) THEN K ELSE Len(nodes)
            /\ Ids(new) \subseteq Ids(nodes)
            /\ nodes # <<>> => /\ new # <<>> /\ new[1] \in Ids(nodes)
                               /\ \A x \in Ids(nodes) : ~Closer(to, x, new[1])
            /\ Ordered(new, to)
            /\ AtMostTwice(nodes) => AtMostTwice(new)
<1> DEFINE sorted == SortByDistance(nodes, to)
           new == take(sorted, K)
<1>0. K \in Nat /\ K > 0
  BY ParametersAssumption
<1>1. /\ sorted \in Seq(Nodes) /\ Len(sorted) = Len(nodes) /\ Ids(sorted) = Ids(nodes)
      /\ Ordered(sorted, to)
      /\ AtMostTwice(nodes) => AtMostTwice(sorted)
  BY SortByDistanceSorts
<1> HIDE DEF sorted
<1>2. /\ new \in Seq(Nodes)
      /\ Len(new) = IF K < Len(sorted) THEN K ELSE Len(sorted)
      /\ \A i \in DOMAIN new : i \in DOMAIN sorted /\ new[i] = sorted[i]
      /\ \A i \in DOMAIN sorted : i <= K => i \in DOMAIN new
  BY <1>0, <1>1, TakeIsPrefix
<1> HIDE DEF new
<1>3. Len(new) <= K /\ Len(new) = IF K < Len(nodes) THEN K ELSE Len(nodes)
  BY <1>0, <1>1, <1>2
<1>4. Ids(new) \subseteq Ids(nodes)
  BY <1>1, <1>2 DEF Ids
<1>5. ASSUME nodes # <<>>
      PROVE  /\ new # <<>> /\ new[1] \in Ids(nodes)
             /\ \A x \in Ids(nodes) : ~Closer(to, x, new[1])
  <2>1. 1 \in DOMAIN sorted /\ 1 \in DOMAIN new /\ new[1] = sorted[1]
    BY <1>0, <1>1, <1>2, <1>5
  <2>2. ASSUME NEW i \in DOMAIN sorted PROVE ~Closer(to, sorted[i], sorted[1])
    <3>1. sorted[i] \in NodeIds /\ sorted[1] \in NodeIds
      BY <1>1, <2>1, NodesAssumption
    <3>2. i = 1 \/ Closer(to, sorted[1], sorted[i]) \/ sorted[1] = sorted[i]
      BY <1>1, <2>1 DEF Ordered
    <3> QED
      BY <3>1, <3>2, CloserIsTotalOrder
  <2>3. sorted[1] \in Ids(sorted) /\ \A x \in Ids(sorted) : ~Closer(to, x, sorted[1])
    BY <2>1, <2>2 DEF Ids
  <2> QED
    BY <1>1, <2>1, <2>3
<1>6. Ordered(new, to) /\ (AtMostTwice(nodes) => AtMostTwice(new))
  BY <1>1, <1>2 DEF Ordered, AtMostTwice
<1> QED
  BY <1>2, <1>3, <1>4, <1>5, <1>6 DEF new, sorted

(***************************************************************************)
(* What a list has at some of its places: the nodes of these places, each  *)
(* as often, and first its old head when the first place is kept.          *)
(***************************************************************************)
LEMMA AtPlacesKeepsThem ==
  ASSUME NEW nodes \in Seq(Nodes), NEW P, P \subseteq DOMAIN nodes
  PROVE  /\ AtPlaces(nodes, P) \in Seq(Nodes)
         /\ Ids(AtPlaces(nodes, P)) = {nodes[i] : i \in P}
         /\ (\A i, j \in P : nodes[i] = nodes[j] => i = j) => Distinct(AtPlaces(nodes, P))
         /\ 1 \in P => AtPlaces(nodes, P) # <<>> /\ AtPlaces(nodes, P)[1] = nodes[1]
<1> DEFINE U == [i \in P |-> {j \in P : j <= i}]
           at(r) == CHOOSE i \in P : Cardinality({j \in P : j <= i}) = r
           kept == AtPlaces(nodes, P)
           n == Cardinality(P)
<1>1. P \subseteq DOMAIN nodes /\ P \subseteq Nat
  OBVIOUS
<1>2. IsFiniteSet(P) /\ n \in Nat
  <2>1. IsFiniteSet(DOMAIN nodes)
    BY FS_Interval
  <2>2. IsFiniteSet(P)
    BY <1>1, <2>1, FS_Subset
  <2> QED
    BY <2>2, FS_CardinalityType
<1>3. U \in [P -> SUBSET P] /\ \A i \in P : U[i] = {j \in P : j <= i}
  OBVIOUS
<1>4. kept = [r \in 1 .. n |-> nodes[at(r)]]
  BY DEF AtPlaces
<1> HIDE DEF U, kept
<1>5. /\ \A i \in P : i \in U[i]
      /\ \A i, j \in P : i # j => \/ U[i] \subseteq U[j] /\ j \notin U[i]
                                  \/ U[j] \subseteq U[i] /\ i \notin U[j]
  BY <1>1, <1>3
<1>6. /\ \A i \in P : Cardinality(U[i]) \in 1 .. n
      /\ \A i, j \in P : Cardinality(U[i]) = Cardinality(U[j]) => i = j
      /\ \A r \in 1 .. n : \E i \in P : Cardinality(U[i]) = r
  BY <1>2, <1>3, <1>5, PlacesByCounting
<1>7. \A r \in 1 .. n : at(r) \in P /\ Cardinality(U[at(r)]) = r
  <2>1. \A r \in 1 .. n : \E i \in P : Cardinality({j \in P : j <= i}) = r
    BY <1>3, <1>6
  <2>2. \A r \in 1 .. n : at(r) \in P /\ Cardinality({j \in P : j <= at(r)}) = r
    BY <2>1
  <2> QED
    BY <1>3, <2>2
<1> HIDE DEF at, n
<1>8. /\ kept \in Seq(Nodes) /\ DOMAIN kept = 1 .. n
      /\ \A r \in 1 .. n : kept[r] = nodes[at(r)]
  BY <1>1, <1>2, <1>4, <1>7
<1>9. Ids(kept) = {nodes[i] : i \in P}
  <2>1. ASSUME NEW r \in 1 .. n PROVE kept[r] \in {nodes[i] : i \in P}
    BY <1>7, <1>8
  <2>2. ASSUME NEW i \in P PROVE \E r \in 1 .. n : nodes[i] = kept[r]
    <3>1. Cardinality(U[i]) \in 1 .. n
      BY <1>6
    <3>2. at(Cardinality(U[i])) = i
      BY <1>6, <1>7, <3>1
    <3> QED
      BY <1>8, <3>1, <3>2
  <2> QED
    BY <1>8, <2>1, <2>2 DEF Ids
<1>10. (\A i, j \in P : nodes[i] = nodes[j] => i = j) => Distinct(kept)
  <2> SUFFICES ASSUME \A i, j \in P : nodes[i] = nodes[j] => i = j,
                      NEW r \in 1 .. n, NEW s \in 1 .. n, kept[r] = kept[s]
               PROVE  r = s
    BY <1>8 DEF Distinct
  <2>1. at(r) \in P /\ at(s) \in P /\ nodes[at(r)] = nodes[at(s)]
    BY <1>7, <1>8
  <2>2. at(r) = at(s)
    BY <2>1
  <2> QED
    BY <1>7, <2>2
<1>11. ASSUME 1 \in P
       PROVE  kept # <<>> /\ kept[1] = nodes[1]
  <2>2. U[1] = {1}
    BY <1>1, <1>3, <1>11
  <2>3. Cardinality(U[1]) = 1
    BY <2>2, FS_Singleton
  <2>4. 1 \in 1 .. n /\ at(1) = 1
    BY <1>6, <1>7, <1>11, <2>3
  <2>5. kept[1] = nodes[1]
    BY <1>8, <2>4
  <2>6. DOMAIN kept # {}
    BY <1>8, <2>4
  <2> QED
    BY <2>5, <2>6
<1> QED
  BY <1>8, <1>9, <1>10, <1>11 DEF kept

(***************************************************************************)
(* The list without some nodes has the other ones, and begins with its old *)
(* head when that is kept.                                                 *)
(***************************************************************************)
LEMMA WithoutKeepsTheOthers ==
  ASSUME NEW nodes \in Seq(Nodes), NEW ids
  PROVE  /\ Without(nodes, ids) \in Seq(Nodes)
         /\ Ids(Without(nodes, ids)) = Ids(nodes) \ ids
         /\ nodes # <<>> /\ nodes[1] \notin ids =>
              Without(nodes, ids) # <<>> /\ Without(nodes, ids)[1] = nodes[1]
<1> DEFINE P == {i \in DOMAIN nodes : nodes[i] \notin ids}
<1>1. P \subseteq DOMAIN nodes
  OBVIOUS
<1>2. {nodes[i] : i \in P} = Ids(nodes) \ ids
  BY DEF Ids
<1>3. nodes # <<>> /\ nodes[1] \notin ids => 1 \in P
  OBVIOUS
<1>4. Without(nodes, ids) = AtPlaces(nodes, P)
  BY DEF Without
<1> HIDE DEF P
<1> QED
  BY <1>1, <1>2, <1>3, <1>4, AtPlacesKeepsThem

(***************************************************************************)
(* What is in a list has a first place there.                              *)
(***************************************************************************)
LEMMA FirstPlace ==
  ASSUME NEW nodes \in Seq(Nodes), NEW x \in Ids(nodes)
  PROVE  \E i \in DOMAIN nodes : nodes[i] = x /\ \A j \in 1 .. i - 1 : nodes[j] # x
<1> DEFINE P == {i \in DOMAIN nodes : nodes[i] = x}
           U == [i \in P |-> {j \in P : j <= i}]
<1>1. P \subseteq DOMAIN nodes /\ P \subseteq Nat /\ P # {}
  BY DEF Ids
<1>2. IsFiniteSet(P)
  <2>1. IsFiniteSet(DOMAIN nodes)
    BY FS_Interval
  <2> QED
    BY <1>1, <2>1, FS_Subset
<1>3. U \in [P -> SUBSET P] /\ \A i \in P : U[i] = {j \in P : j <= i}
  OBVIOUS
<1>4. \A i \in DOMAIN nodes : i \in P <=> nodes[i] = x
  OBVIOUS
<1> HIDE DEF P, U
<1>5. /\ \A i \in P : i \in U[i]
      /\ \A i, j \in P : i # j => \/ U[i] \subseteq U[j] /\ j \notin U[i]
                                  \/ U[j] \subseteq U[i] /\ i \notin U[j]
  BY <1>1, <1>3
<1>6. /\ \A i \in P : Cardinality(U[i]) \in 1 .. Cardinality(P)
      /\ \A r \in 1 .. Cardinality(P) : \E i \in P : Cardinality(U[i]) = r
  BY <1>2, <1>3, <1>5, PlacesByCounting
<1>7. PICK i \in P : Cardinality(U[i]) = 1
  <2>1. Cardinality(P) \in Nat
    BY <1>2, FS_CardinalityType
  <2>2. 1 \in 1 .. Cardinality(P)
    BY <1>1, <1>6, <2>1
  <2> QED
    BY <1>6, <2>2
<1>8. U[i] = {i}
  <2>1. IsFiniteSet(U[i])
    BY <1>2, <1>3, FS_Subset
  <2>2. PICK u : U[i] = {u}
    BY <1>7, <2>1, FS_Singleton
  <2> QED
    BY <1>5, <2>2
<1>9. \A j \in 1 .. i - 1 : j \notin P
  BY <1>1, <1>3, <1>8
<1>10. \A j \in 1 .. i - 1 : j \in DOMAIN nodes
  BY <1>1
<1> QED
  BY <1>1, <1>4, <1>9, <1>10

(***************************************************************************)
(* Two lists of nodes joined have the nodes of both.                       *)
(***************************************************************************)
LEMMA JoinedIds ==
  ASSUME NEW S, NEW s \in Seq(S), NEW u \in Seq(S)
  PROVE  s \o u \in Seq(S) /\ Ids(s \o u) = Ids(s) \cup Ids(u) /\ (s # <<>> => s \o u # <<>>)
<1> DEFINE all == s \o u
<1>1. /\ all \in Seq(S) /\ Len(all) = Len(s) + Len(u)
      /\ \A i \in DOMAIN all : \/ i \in DOMAIN s /\ all[i] = s[i]
                               \/ i - Len(s) \in DOMAIN u /\ all[i] = u[i - Len(s)]
      /\ \A i \in DOMAIN s : i \in DOMAIN all /\ all[i] = s[i]
      /\ \A i \in DOMAIN u : Len(s) + i \in DOMAIN all /\ all[Len(s) + i] = u[i]
  OBVIOUS
<1> HIDE DEF all
<1>2. Ids(all) \subseteq Ids(s) \cup Ids(u)
  BY <1>1 DEF Ids
<1>3. Ids(s) \subseteq Ids(all) /\ Ids(u) \subseteq Ids(all)
  BY <1>1 DEF Ids
<1>4. s # <<>> => all # <<>>
  BY <1>1
<1> QED
  BY <1>1, <1>2, <1>3, <1>4 DEF all

-----------------------------------------------------------------------------
(* Answers.                                                                *)

(***************************************************************************)
(* A finite set of nodes as a list.                                        *)
(***************************************************************************)
LEMMA SetToSeqLists ==
  ASSUME NEW t, t \subseteq Nodes
  PROVE  SetToSeq(t) \in Seq(Nodes) /\ Ids(SetToSeq(t)) = t /\ Distinct(SetToSeq(t))
<1> DEFINE n == Cardinality(t)
           s == SetToSeq(t)
<1>1. IsFiniteSet(t) /\ n \in Nat
  BY NodesAssumption, FS_Subset, FS_CardinalityType
<1>2. \E f \in [1 .. n -> t] : IsInjective(f)
  <2>1. ExistsBijection(1 .. n, t)
    BY <1>1, FS_CardinalityType
  <2>2. PICK f \in Injection(1 .. n, t) : TRUE
    BY <2>1 DEF ExistsBijection, Bijection
  <2> QED
    BY <2>2 DEF Injection
<1>3. s \in [1 .. n -> t] /\ IsInjective(s)
  BY <1>2 DEF SetToSeq
<1> HIDE DEF s
<1>4. s \in Injection(1 .. n, t)
  BY <1>3 DEF Injection
<1>5. s \in Surjection(1 .. n, t)
  <2>1. Cardinality(1 .. n) = n
    <3>1. Cardinality(1 .. n) = IF 1 > n THEN 0 ELSE n - 1 + 1
      BY <1>1, FS_Interval
    <3> HIDE DEF n
    <3> QED
      BY <1>1, <3>1
  <2> QED
    BY <1>1, <1>4, <2>1, FS_Injection
<1> HIDE DEF n
<1>6. s \in Seq(Nodes) /\ DOMAIN s = 1 .. n
  BY <1>1, <1>3
<1>7. Distinct(s)
  BY <1>3 DEF Distinct, IsInjective
<1>8. Ids(s) = t
  <2>1. \A x \in t : \E i \in 1 .. n : s[i] = x
    BY <1>5 DEF Surjection
  <2>2. \A i \in 1 .. n : s[i] \in t
    BY <1>3
  <2> QED
    BY <1>6, <2>1, <2>2 DEF Ids
<1> QED
  BY <1>6, <1>7, <1>8 DEF s

(***************************************************************************)
(* What a table lists: its contacts, none of them three times.             *)
(***************************************************************************)
LEMMA ListedContacts ==
  ASSUME NEW p \in Nodes, NEW least \in Fills, NEW t \in Tables(p, least)
  PROVE  /\ Listed(t) \in Seq(Nodes) /\ Ids(Listed(t)) = t.contacts
         /\ AtMostTwice(Listed(t))
<1> DEFINE s == SetToSeq(t.contacts)
           u == SetToSeq(t.twice)
           all == s \o u
<1>1. t.contacts \subseteq Nodes /\ t.twice \subseteq t.contacts /\ t.twice \subseteq Nodes
  BY DEF Tables
<1>2. /\ s \in Seq(Nodes) /\ Ids(s) = t.contacts /\ Distinct(s)
      /\ u \in Seq(Nodes) /\ Ids(u) = t.twice /\ Distinct(u)
  BY <1>1, SetToSeqLists
<1> HIDE DEF s, u
<1>3. all \in Seq(Nodes) /\ Ids(all) = t.contacts
  <2>1. all \in Seq(Nodes) /\ Ids(all) = Ids(s) \cup Ids(u)
    BY <1>2, JoinedIds
  <2>2. Ids(s) \cup Ids(u) = t.contacts
    BY <1>1, <1>2
  <2> QED
    BY <2>1, <2>2
<1>4. \A i \in DOMAIN all : \/ i \in DOMAIN s /\ all[i] = s[i]
                            \/ i - Len(s) \in DOMAIN u /\ all[i] = u[i - Len(s)]
  BY <1>2
<1>5. DOMAIN all \subseteq Nat /\ Len(s) \in Nat
  BY <1>2
<1> HIDE DEF all
<1>6. ASSUME NEW i \in DOMAIN all, NEW j \in DOMAIN all, all[i] = all[j],
             \/ i \in DOMAIN s /\ all[i] = s[i] /\ j \in DOMAIN s /\ all[j] = s[j]
             \/ /\ i - Len(s) \in DOMAIN u /\ all[i] = u[i - Len(s)]
                /\ j - Len(s) \in DOMAIN u /\ all[j] = u[j - Len(s)]
      PROVE  i = j
  <2>1. i = j \/ i - Len(s) = j - Len(s)
    BY <1>2, <1>6 DEF Distinct
  <2>2. i \in Nat /\ j \in Nat /\ Len(s) \in Nat
    BY <1>5
  <2> QED
    BY <2>1, <2>2
<1>7. AtMostTwice(all)
  <2> SUFFICES ASSUME NEW i \in DOMAIN all, NEW j \in DOMAIN all, NEW k \in DOMAIN all,
                      all[i] = all[j], all[j] = all[k]
               PROVE  i = j \/ j = k \/ i = k
    BY DEF AtMostTwice
  <2> QED
    BY <1>4, <1>6
<1> QED
  BY <1>3, <1>7 DEF all, s, u, Listed

(***************************************************************************)
(* An answer is made of the K closest entries of a routing table: a        *)
(* contact that it leaves out is farther than all of the K that it has.    *)
(***************************************************************************)
LEMMA AnswerIsClosestOfTable ==
  ASSUME NEW p \in Nodes, NEW to \in NodeIds, NEW least \in Fills,
         NEW nodes \in ClosestOf[p][to][least]
  PROVE  /\ nodes \in Seq(Nodes) /\ Ordered(nodes, to) /\ Len(nodes) <= K
         /\ AtMostTwice(nodes)
         /\ \E t \in Tables(p, least) :
              /\ Ids(nodes) \subseteq t.contacts
              /\ \A x \in t.contacts \ Ids(nodes) :
                   Len(nodes) = K /\ \A i \in DOMAIN nodes : Closer(to, nodes[i], x)
<1> DEFINE Answers(q, for, few) == {take(SortByDistance(list, for), K) :
                                      list \in {Listed(t) : t \in Tables(q, few)}}
<1>1. ClosestOf = [q \in Nodes |-> [for \in NodeIds |-> [few \in Fills |-> Answers(q, for, few)]]]
  BY DEF ClosestOf, Tabulated
<1>2. nodes \in Answers(p, to, least)
  <2> HIDE DEF Answers
  <2> QED BY <1>1
<1>3. PICK t \in Tables(p, least) : nodes = take(SortByDistance(Listed(t), to), K)
  BY <1>2
<1> HIDE DEF Answers
<1> DEFINE list == Listed(t)
           sorted == SortByDistance(list, to)
<1>5. list \in Seq(Nodes) /\ Ids(list) = t.contacts /\ AtMostTwice(list)
  BY ListedContacts
<1> HIDE DEF list
<1>6. /\ nodes \in Seq(Nodes) /\ Len(nodes) <= K
      /\ Ids(nodes) \subseteq t.contacts /\ Ordered(nodes, to) /\ AtMostTwice(nodes)
  BY <1>3, <1>5, SortedAndCut DEF list
<1>7. /\ sorted \in Seq(Nodes) /\ Ids(sorted) = t.contacts /\ Ordered(sorted, to)
  BY <1>5, SortByDistanceSorts
<1> HIDE DEF sorted
<1>8. /\ Len(nodes) = IF K < Len(sorted) THEN K ELSE Len(sorted)
      /\ \A i \in DOMAIN nodes : i \in DOMAIN sorted /\ nodes[i] = sorted[i]
      /\ \A i \in DOMAIN sorted : i <= K => i \in DOMAIN nodes
  BY <1>3, <1>7, ParametersAssumption, TakeIsPrefix DEF sorted, list
<1>9. ASSUME NEW x \in t.contacts \ Ids(nodes)
      PROVE  Len(nodes) = K /\ \A i \in DOMAIN nodes : Closer(to, nodes[i], x)
  <2>1. PICK j \in DOMAIN sorted : sorted[j] = x
    BY <1>7 DEF Ids
  <2>2. j \notin DOMAIN nodes
    BY <1>8, <1>9, <2>1 DEF Ids
  <2>3. K < j /\ j <= Len(sorted) /\ K \in Nat
    BY <1>7, <1>8, <2>2, ParametersAssumption
  <2>4. Len(nodes) = K
    BY <1>7, <1>8, <2>3
  <2>5. \A i \in DOMAIN nodes : i < j
    BY <1>6, <2>3, <2>4
  <2>6. \A i \in DOMAIN nodes : nodes[i] # x
    BY <1>9 DEF Ids
  <2> QED
    BY <1>7, <1>8, <2>1, <2>4, <2>5, <2>6 DEF Ordered
<1> QED
  BY <1>6, <1>9

(***************************************************************************)
(* A table that holds at least one contact of every bucket with a node.    *)
(***************************************************************************)
LEMMA TableHasContact ==
  ASSUME NEW p \in Nodes, NEW least \in Fills, least > 0, NEW t \in Tables(p, least),
         NEW m \in Nodes, m # p
  PROVE  \E x \in t.contacts : x # p /\ x \in Nodes /\ bucket_index(p, x) = bucket_index(p, m)
<1> DEFINE i == bucket_index(p, m)
<1>1. i \in Position /\ t.contacts \subseteq Nodes \ {p}
  BY NodesAssumption, BucketIndexProperties DEF Tables
<1>2. /\ \/ Cardinality(Bucket(t.contacts, p, i)) >= least
         \/ Bucket(t.contacts, p, i) = Bucket(Nodes, p, i)
  BY <1>1 DEF Tables
<1>3. Bucket(t.contacts, p, i) # {}
  <2>1. CASE Cardinality(Bucket(t.contacts, p, i)) >= least
    <3>1. Cardinality({}) = 0
      BY FS_EmptySet
    <3> QED
      BY <2>1, <3>1, FillsAssumption, ParametersAssumption
  <2>2. CASE Bucket(t.contacts, p, i) = Bucket(Nodes, p, i)
    BY <2>2 DEF Bucket
  <2> QED
    BY <1>2, <2>1, <2>2
<1> QED
  BY <1>1, <1>3 DEF Bucket

(***************************************************************************)
(* Two nodes in one bucket of p, and a third that shares with the first    *)
(* the bucket of the second: all three are in that bucket of p.            *)
(***************************************************************************)
LEMMA BucketWithinBucket ==
  ASSUME NEW p \in NodeIds, NEW l \in NodeIds, NEW m \in NodeIds, NEW z \in NodeIds,
         p # m, l # m, bucket_index(p, l) = bucket_index(p, m),
         bucket_index(l, z) = bucket_index(l, m)
  PROVE  bucket_index(p, z) = bucket_index(p, m)
<1> DEFINE i == bucket_index(p, m)
           j == bucket_index(l, m)
<1>1. i \in Position /\ p[i] # m[i] /\ \A q \in 0 .. (i - 1) : p[q] = m[q]
  BY BucketIndexProperties
<1>2. j \in Position /\ l[j] # m[j] /\ \A q \in 0 .. (j - 1) : l[q] = m[q]
  BY BucketIndexProperties
<1>3. p # l
  BY <1>1, BucketIndexProperties, KeyLengthAssumption DEF NoIndex, Position
<1>4. p[i] # l[i] /\ \A q \in 0 .. (i - 1) : p[q] = l[q]
  BY <1>3, BucketIndexProperties
<1>5. l # z
  BY <1>2, BucketIndexProperties, KeyLengthAssumption DEF NoIndex, Position
<1>6. \A q \in 0 .. (j - 1) : l[q] = z[q]
  BY <1>5, BucketIndexProperties
<1> HIDE DEF i, j
<1>7. i < j
  <2>1. l[i] = m[i] /\ \A q \in 0 .. (i - 1) : l[q] = m[q]
    BY <1>1, <1>4 DEF NodeIds
  <2> QED
    BY <1>1, <1>2, <2>1, KeyLengthAssumption DEF Position
<1>8. p[i] # z[i] /\ \A q \in 0 .. (i - 1) : p[q] = z[q]
  BY <1>1, <1>2, <1>4, <1>6, <1>7, KeyLengthAssumption DEF Position
<1>9. bucket_index(p, z) = i
  BY <1>1, <1>8, BucketIndexIsUnique
<1> QED
  BY <1>9 DEF i

-----------------------------------------------------------------------------
(* Progress.                                                               *)

\* No contact that the local node's table could have had, one for each bucket,
\* is left out: for every node there is one of its bucket not closer than c.
Reached(c, to) ==
  \A m \in Others : \E z \in Others :
    bucket_index(local_node_id, z) = bucket_index(local_node_id, m) /\ ~Closer(to, z, c)

(***************************************************************************)
(* The first candidates, from the node's own table, reach every bucket.    *)
(***************************************************************************)
LEMMA OwnTableReaches ==
  ASSUME NEW to \in NodeIds, NEW least \in Fills, least > 0, Others # {},
         NEW nodes \in ClosestOf[local_node_id][to][least]
  PROVE  nodes # <<>> /\ Reached(nodes[1], to)
<1>1. local_node_id \in Nodes /\ Others \subseteq Nodes /\ local_node_id \notin Others
  BY NodesAssumption DEF Others
<1>2. PICK t \in Tables(local_node_id, least) :
        /\ Ids(nodes) \subseteq t.contacts
        /\ \A x \in t.contacts \ Ids(nodes) :
             Len(nodes) = K /\ \A i \in DOMAIN nodes : Closer(to, nodes[i], x)
  BY <1>1, AnswerIsClosestOfTable
<1>3. nodes \in Seq(Nodes) /\ Ordered(nodes, to)
  BY <1>1, AnswerIsClosestOfTable
<1>4. ASSUME NEW m \in Others
      PROVE  /\ nodes # <<>>
             /\ \E z \in Others :
                  /\ bucket_index(local_node_id, z) = bucket_index(local_node_id, m)
                  /\ ~Closer(to, z, nodes[1])
  <2>1. PICK x \in t.contacts : /\ x # local_node_id /\ x \in Nodes
                       /\ bucket_index(local_node_id, x) = bucket_index(local_node_id, m)
    BY <1>1, TableHasContact
  <2>2. x \in Others /\ x \in NodeIds
    BY <2>1, NodesAssumption DEF Others
  <2>3. nodes # <<>>
    <3>1. x \in Ids(nodes) \/ Len(nodes) = K
      BY <1>2
    <3> QED
      BY <1>3, <3>1, ParametersAssumption DEF Ids
  <2>4. nodes[1] \in NodeIds /\ 1 \in DOMAIN nodes
    BY <1>3, <2>3, NodesAssumption
  <2>5. x = nodes[1] \/ Closer(to, nodes[1], x)
    <3>1. CASE x \in Ids(nodes)
      BY <1>3, <2>4, <3>1 DEF Ids, Ordered
    <3>2. CASE x \notin Ids(nodes)
      BY <1>2, <2>4, <3>2
    <3> QED
      BY <3>1, <3>2
  <2>6. ~Closer(to, x, nodes[1])
    BY <2>2, <2>4, <2>5, CloserIsTotalOrder
  <2> QED
    BY <2>1, <2>2, <2>3, <2>6
<1> QED
  BY <1>4 DEF Reached

(***************************************************************************)
(* The heart of the lookup: a node that is asked, and that no first        *)
(* contact is closer than, is the closest one, or its answer has a node    *)
(* other than the asker that is closer.  With K = 2 this would be false:   *)
(* the answer may be the asker alone, listed twice.                        *)
(***************************************************************************)
LEMMA AnswerHelps ==
  ASSUME K >= 3, NEW p \in Others, NEW to \in NodeIds, NEW least \in Fills, least > 0,
         NEW nodes \in ClosestOf[p][to][least], Reached(p, to)
  PROVE  \/ IsClosest(p, to)
         \/ \E y \in Ids(nodes) \ {local_node_id} : Closer(to, y, p)
<1> SUFFICES ASSUME ~IsClosest(p, to)
             PROVE  \E y \in Ids(nodes) \ {local_node_id} : Closer(to, y, p)
  OBVIOUS
<1>1. PICK m \in Others : Closer(to, m, p)
  BY DEF IsClosest
<1>2. /\ p \in Nodes /\ m \in Nodes /\ p \in NodeIds /\ m \in NodeIds
      /\ local_node_id \in NodeIds /\ m # local_node_id /\ p # local_node_id
  BY NodesAssumption DEF Others
<1>3. m # p
  BY <1>1, <1>2, CloserIsTotalOrder
<1>4. nodes \in Seq(Nodes) /\ AtMostTwice(nodes)
  BY <1>2, AnswerIsClosestOfTable
<1>5. PICK t \in Tables(p, least) :
        /\ Ids(nodes) \subseteq t.contacts
        /\ \A x \in t.contacts \ Ids(nodes) :
             Len(nodes) = K /\ \A i \in DOMAIN nodes : Closer(to, nodes[i], x)
  BY <1>2, AnswerIsClosestOfTable
<1>6. PICK x \in t.contacts : x \in Nodes /\ bucket_index(p, x) = bucket_index(p, m)
  BY <1>2, <1>3, TableHasContact
<1>7. x \in NodeIds /\ Closer(to, x, p)
  BY <1>1, <1>2, <1>6, NodesAssumption, BucketOfCloserNodeIsCloser
<1>8. x # local_node_id
  <2> SUFFICES ASSUME x = local_node_id PROVE FALSE
    OBVIOUS
  <2>1. PICK z \in Others : /\ bucket_index(local_node_id, z) = bucket_index(local_node_id, m)
                            /\ ~Closer(to, z, p)
    BY DEF Reached
  <2>2. z \in NodeIds
    BY NodesAssumption DEF Others
  <2>3. bucket_index(p, z) = bucket_index(p, m)
    BY <1>2, <1>3, <1>6, <2>1, <2>2, BucketWithinBucket
  <2>4. Closer(to, z, p)
    BY <1>1, <1>2, <2>2, <2>3, BucketOfCloserNodeIsCloser
  <2> QED
    BY <2>1, <2>4
<1>9. CASE x \in Ids(nodes)
  BY <1>7, <1>8, <1>9
<1>10. CASE x \notin Ids(nodes)
  <2>1. Len(nodes) = K /\ \A i \in DOMAIN nodes : Closer(to, nodes[i], x)
    BY <1>5, <1>10
  <2>2. 1 \in DOMAIN nodes /\ 2 \in DOMAIN nodes /\ 3 \in DOMAIN nodes
    BY <1>4, <2>1, ParametersAssumption
  <2>3. PICK i \in DOMAIN nodes : nodes[i] # local_node_id
    BY <1>4, <2>2 DEF AtMostTwice
  <2>4. nodes[i] \in NodeIds /\ nodes[i] \in Ids(nodes)
    BY <1>4, NodesAssumption DEF Ids
  <2>5. Closer(to, nodes[i], p)
    BY <1>2, <1>7, <2>1, <2>4, CloserIsTotalOrder
  <2> QED
    BY <2>3, <2>4, <2>5
<1> QED
  BY <1>9, <1>10

(***************************************************************************)
(* A closer head of the list still reaches every bucket.                   *)
(***************************************************************************)
LEMMA ReachedStays ==
  ASSUME NEW c \in NodeIds, NEW d \in NodeIds, NEW to \in NodeIds,
         Reached(c, to), ~Closer(to, c, d)
  PROVE  Reached(d, to)
<1> SUFFICES ASSUME NEW z \in Others, ~Closer(to, z, c) PROVE ~Closer(to, z, d)
  BY DEF Reached
<1>1. z \in NodeIds
  BY NodesAssumption DEF Others
<1>2. c = d \/ Closer(to, d, c)
  BY CloserIsTotalOrder
<1> QED
  BY <1>1, <1>2, CloserIsTotalOrder

(***************************************************************************)
(* What is not closer than a node is not closer than a closer one.         *)
(***************************************************************************)
LEMMA NotCloserStays ==
  ASSUME NEW c \in NodeIds, NEW d \in NodeIds, NEW x \in NodeIds, NEW to \in NodeIds,
         ~Closer(to, x, c), ~Closer(to, c, d)
  PROVE  ~Closer(to, x, d)
<1>1. c = d \/ Closer(to, d, c)
  BY CloserIsTotalOrder
<1> QED
  BY <1>1, CloserIsTotalOrder

-----------------------------------------------------------------------------
(* find_node.                                                              *)

\* The candidates and what is recorded of them.
CandidatesInv ==
  /\ operation = "find_node"
  /\ target \in NodeIds /\ fill \in Fills /\ idx \in Nat \ {0}
  /\ pc \in {"start", "loop", "results", "done"}
  /\ closest_nodes \in Seq(Nodes) /\ queried \in Seq(Others)
  /\ Ordered(closest_nodes, target) /\ AtMostTwice(closest_nodes)
  /\ Len(closest_nodes) <= K
  /\ Ids(closest_nodes) \subseteq seen \ {local_node_id}
  /\ local_node_id \in seen /\ seen \subseteq Nodes

\* As long as every call is answered and the tables have a contact in every
\* bucket: the first candidate is as close as anything seen, and a round that
\* brings nothing closer has asked it and shown that it is the closest node.
ConvergesInv ==
  /\ pc = "start" => looking_for_closest /\ seen = {local_node_id}
  /\ (pc # "start" /\ fill > 0 /\ failed = {} /\ Others # {}) =>
       /\ closest_nodes # <<>>
       /\ Reached(closest_nodes[1], target)
       /\ \A s \in seen \ {local_node_id} : ~Closer(target, s, closest_nodes[1])
       /\ pc = "results" /\ ~looking_for_closest
            => Len(queried) >= 1 /\ queried[1] = closest_nodes[1]
       /\ ~looking_for_closest /\ (pc \in {"loop", "done"} \/ idx > 1)
            => IsClosest(closest_nodes[1], target)
       /\ pc = "done" => ~looking_for_closest

(***************************************************************************)
(* A list whose nodes are not the local one is a list of others.           *)
(***************************************************************************)
LEMMA OthersOnly ==
  ASSUME NEW s \in Seq(Nodes), local_node_id \notin Ids(s)
  PROVE  s \in Seq(Others)
BY DEF Ids, Others

(***************************************************************************)
(* What is added of an answer: each unseen node once.                      *)
(***************************************************************************)
LEMMA UnseenOnce ==
  ASSUME NEW nodes \in Seq(Nodes)
  PROVE  /\ Unseen(nodes) \in Seq(Nodes) /\ Ids(Unseen(nodes)) = Ids(nodes) \ seen
         /\ Distinct(Unseen(nodes))
<1> DEFINE P == {i \in DOMAIN nodes :
                   nodes[i] \notin seen /\ \A j \in 1 .. i - 1 : nodes[j] # nodes[i]}
<1>1. P \subseteq DOMAIN nodes
  OBVIOUS
<1>2. \A i, j \in P : nodes[i] = nodes[j] => i = j
  <2> SUFFICES ASSUME NEW i \in P, NEW j \in P, nodes[i] = nodes[j], i < j PROVE FALSE
    OBVIOUS
  <2>1. i \in 1 .. j - 1
    OBVIOUS
  <2> QED
    BY <2>1
<1>3. {nodes[i] : i \in P} = Ids(nodes) \ seen
  <2>1. ASSUME NEW x \in Ids(nodes) \ seen PROVE \E i \in P : nodes[i] = x
    <3>1. PICK i \in DOMAIN nodes : nodes[i] = x /\ \A j \in 1 .. i - 1 : nodes[j] # x
      BY FirstPlace
    <3> QED
      BY <3>1
  <2> QED
    BY <2>1 DEF Ids
<1>4. Unseen(nodes) = AtPlaces(nodes, P)
  BY DEF Unseen
<1> HIDE DEF P
<1> QED
  BY <1>1, <1>2, <1>3, <1>4, AtPlacesKeepsThem

(***************************************************************************)
(* What an answer does to the candidates: the unseen nodes join in order,  *)
(* and the first candidate is at least as close as before and as them.     *)
(***************************************************************************)
LEMMA AddUnseenMerges ==
  ASSUME CandidatesInv, NEW nodes \in Seq(Nodes)
  PROVE  LET new == AddUnseen(nodes)
         IN /\ new \in Seq(Nodes) /\ Len(new) <= K
            /\ Ordered(new, target) /\ AtMostTwice(new)
            /\ Ids(new) \subseteq (seen \cup Ids(nodes)) \ {local_node_id}
            /\ closest_nodes # <<>> =>
                 /\ new # <<>>
                 /\ \A x \in Ids(closest_nodes) \cup (Ids(nodes) \ seen) :
                      ~Closer(target, x, new[1])
<1> DEFINE fresh == Unseen(nodes)
           all == closest_nodes \o fresh
           new == take(SortByDistance(all, target), K)
<1>1. /\ closest_nodes \in Seq(Nodes) /\ target \in NodeIds
      /\ Ids(closest_nodes) \subseteq seen \ {local_node_id} /\ local_node_id \in seen
  BY DEF CandidatesInv
<1>3. AtMostTwice(closest_nodes)
  BY DEF CandidatesInv
<1>4. fresh \in Seq(Nodes) /\ Ids(fresh) = Ids(nodes) \ seen /\ Distinct(fresh)
  BY UnseenOnce
<1> HIDE DEF fresh
<1>5. /\ all \in Seq(Nodes)
      /\ Len(all) = Len(closest_nodes) + Len(fresh)
      /\ \A i \in 1 .. Len(closest_nodes) : all[i] = closest_nodes[i]
      /\ \A i \in 1 .. Len(fresh) : all[Len(closest_nodes) + i] = fresh[i]
      /\ \A i \in DOMAIN all : \/ i \in DOMAIN closest_nodes /\ all[i] = closest_nodes[i]
                               \/ /\ i > Len(closest_nodes)
                                  /\ i - Len(closest_nodes) \in DOMAIN fresh
                                  /\ all[i] = fresh[i - Len(closest_nodes)]
  BY <1>1, <1>4
<1>6. Ids(all) = Ids(closest_nodes) \cup Ids(fresh)
  BY <1>1, <1>4, JoinedIds
<1>7. AtMostTwice(all)
  <2> DEFINE n == Len(closest_nodes)
             Old(i) == i \in DOMAIN closest_nodes /\ all[i] = closest_nodes[i]
             New(i) == i - n \in DOMAIN fresh /\ all[i] = fresh[i - n]
  <2> SUFFICES ASSUME NEW i \in DOMAIN all, NEW j \in DOMAIN all, NEW k \in DOMAIN all,
                      all[i] = all[j], all[j] = all[k]
               PROVE  i = j \/ j = k \/ i = k
    BY DEF AtMostTwice
  <2>1. Ids(closest_nodes) \cap Ids(fresh) = {}
    BY <1>1, <1>4
  <2>2. /\ i \in Nat /\ j \in Nat /\ k \in Nat /\ n \in Nat
    BY <1>1, <1>5
  <2>3. (Old(i) \/ New(i)) /\ (Old(j) \/ New(j)) /\ (Old(k) \/ New(k))
    BY <1>5
  <2> HIDE DEF all, n
  <2>4. \A a \in DOMAIN closest_nodes, b \in DOMAIN fresh : closest_nodes[a] # fresh[b]
    BY <2>1 DEF Ids
  <2>5. CASE Old(i) /\ Old(j) /\ Old(k)
    BY <1>3, <2>5 DEF AtMostTwice
  <2>6. CASE New(i) /\ New(j) /\ New(k)
    <3>1. i - n = j - n
      BY <1>4, <2>6 DEF Distinct
    <3> QED
      BY <2>2, <3>1
  <2> QED
    BY <2>3, <2>4, <2>5, <2>6
<1> HIDE DEF all
<1>8. /\ new \in Seq(Nodes) /\ Len(new) <= K /\ Ids(new) \subseteq Ids(all)
      /\ all # <<>> => /\ new # <<>>
                       /\ \A x \in Ids(all) : ~Closer(target, x, new[1])
      /\ Ordered(new, target) /\ AtMostTwice(new)
  BY <1>1, <1>5, <1>7, SortedAndCut
<1>9. closest_nodes # <<>> => all # <<>>
  BY <1>1, <1>4, <1>5
<1>10. new = AddUnseen(nodes)
  BY DEF AddUnseen, all, fresh
<1> HIDE DEF new
<1> QED
  BY <1>1, <1>4, <1>6, <1>8, <1>9, <1>10

(***************************************************************************)
(* A list with one place removed: its order and its nodes.                 *)
(***************************************************************************)
LEMMA RemoveAtKeepsOrder ==
  ASSUME NEW s \in Seq(Nodes), NEW i \in 1 .. Len(s), NEW to \in NodeIds, Ordered(s, to),
         AtMostTwice(s)
  PROVE  /\ RemoveAt(s, i) \in Seq(Nodes)
         /\ Len(RemoveAt(s, i)) = Len(s) - 1
         /\ Ids(RemoveAt(s, i)) \subseteq Ids(s)
         /\ Ordered(RemoveAt(s, i), to)
         /\ AtMostTwice(RemoveAt(s, i))
<1> DEFINE r == RemoveAt(s, i)
<1>1. /\ r \in Seq(Nodes) /\ Len(r) = Len(s) - 1
      /\ \A j \in 1 .. Len(s) - 1 : r[j] = IF j < i THEN s[j] ELSE s[j + 1]
  <2> DEFINE front == SubSeq(s, 1, i - 1)
             back == SubSeq(s, i + 1, Len(s))
  <2>1. /\ front \in Seq(Nodes) /\ Len(front) = i - 1
        /\ \A j \in 1 .. i - 1 : front[j] = s[j]
    BY SubSeqProperties
  <2>2. /\ back \in Seq(Nodes) /\ Len(back) = Len(s) - i
        /\ \A j \in 1 .. Len(s) - i : back[j] = s[j + i]
    BY SubSeqProperties
  <2>3. r = front \o back
    BY DEF RemoveAt
  <2> HIDE DEF front, back, r
  <2>4. /\ r \in Seq(Nodes) /\ Len(r) = Len(front) + Len(back)
        /\ \A j \in 1 .. Len(front) + Len(back) :
             r[j] = IF j <= Len(front) THEN front[j] ELSE back[j - Len(front)]
    BY <2>1, <2>2, <2>3, ConcatProperties
  <2>5. ASSUME NEW j \in 1 .. Len(s) - 1
        PROVE  r[j] = IF j < i THEN s[j] ELSE s[j + 1]
    <3>1. CASE j < i
      <4>1. j \in 1 .. i - 1 /\ j \in 1 .. Len(front) + Len(back) /\ j <= Len(front)
        BY <2>1, <2>2, <3>1
      <4> QED
        BY <2>1, <2>4, <3>1, <4>1
    <3>2. CASE ~(j < i)
      <4>1. j - (i - 1) \in 1 .. Len(s) - i /\ j - (i - 1) + i = j + 1
        BY <3>2
      <4> QED
        BY <2>1, <2>2, <2>4, <3>2, <4>1
    <3> QED
      BY <3>1, <3>2
  <2> QED
    BY <2>1, <2>2, <2>4, <2>5
<1> HIDE DEF r
<1>2. DOMAIN r = 1 .. Len(s) - 1 /\ DOMAIN s = 1 .. Len(s) /\ Len(s) \in Nat
  BY <1>1
<1>3. Ids(r) \subseteq Ids(s)
  <2>1. \A j \in DOMAIN r : r[j] \in {s[k] : k \in DOMAIN s}
    BY <1>1, <1>2
  <2> QED
    BY <2>1 DEF Ids
<1>4. \A j \in DOMAIN r : \E a \in DOMAIN s :
        a = (IF j < i THEN j ELSE j + 1) /\ r[j] = s[a]
  BY <1>1, <1>2
<1>5. Ordered(r, to)
  <2> SUFFICES ASSUME NEW j \in DOMAIN r, NEW k \in DOMAIN r, j < k
               PROVE  Closer(to, r[j], r[k]) \/ r[j] = r[k]
    BY DEF Ordered
  <2>1. PICK a \in DOMAIN s : a = (IF j < i THEN j ELSE j + 1) /\ r[j] = s[a]
    BY <1>4
  <2>2. PICK b \in DOMAIN s : b = (IF k < i THEN k ELSE k + 1) /\ r[k] = s[b]
    BY <1>4
  <2>3. a < b
    BY <1>2, <2>1, <2>2
  <2> QED
    BY <2>1, <2>2, <2>3 DEF Ordered
<1>6. AtMostTwice(r)
  <2> SUFFICES ASSUME NEW j \in DOMAIN r, NEW k \in DOMAIN r, NEW l \in DOMAIN r,
                      r[j] = r[k], r[k] = r[l]
               PROVE  j = k \/ k = l \/ j = l
    BY DEF AtMostTwice
  <2>1. PICK a \in DOMAIN s : a = (IF j < i THEN j ELSE j + 1) /\ r[j] = s[a]
    BY <1>4
  <2>2. PICK b \in DOMAIN s : b = (IF k < i THEN k ELSE k + 1) /\ r[k] = s[b]
    BY <1>4
  <2>3. PICK c \in DOMAIN s : c = (IF l < i THEN l ELSE l + 1) /\ r[l] = s[c]
    BY <1>4
  <2>4. a = b \/ b = c \/ a = c
    BY <2>1, <2>2, <2>3 DEF AtMostTwice
  <2> QED
    BY <1>2, <2>1, <2>2, <2>3, <2>4
<1> QED
  BY <1>1, <1>3, <1>5, <1>6 DEF r

(***************************************************************************)
(* The candidates' invariant, first state and every step.                  *)
(***************************************************************************)
LEMMA CandidatesInvInit == Init => CandidatesInv
<1> SUFFICES ASSUME Init PROVE CandidatesInv
  OBVIOUS
<1>1. /\ operation = "find_node" /\ target \in NodeIds /\ fill \in Fills /\ pc = "start"
      /\ closest_nodes = <<>> /\ queried = <<>> /\ idx = 1 /\ seen = {local_node_id}
  BY DEF Init, LookupInit
<1>2. Ids(closest_nodes) = {} /\ Ordered(closest_nodes, target) /\ AtMostTwice(closest_nodes)
  BY <1>1 DEF Ids, Ordered, AtMostTwice
<1> QED
  BY <1>1, <1>2, NodesAssumption, ParametersAssumption DEF CandidatesInv

(***************************************************************************)
(* Every step of find_node keeps the candidates in order.                  *)
(***************************************************************************)
LEMMA CandidatesInvStep == CandidatesInv /\ [Next]_vars => CandidatesInv'
<1> SUFFICES ASSUME CandidatesInv, [Next]_vars PROVE CandidatesInv'
  OBVIOUS
<1> USE DEF CandidatesInv
<1>0. K \in Nat /\ ALPHA \in Nat /\ local_node_id \in Nodes /\ Others \subseteq Nodes
  BY NodesAssumption, ParametersAssumption DEF Others
<1>1. CASE Start
  <2>1. /\ closest_nodes' \in ClosestOf[local_node_id][target][fill]
        /\ seen' = seen \cup Ids(closest_nodes') /\ pc' = "loop"
        /\ UNCHANGED <<operation, target, fill, queried, idx>>
    BY <1>1 DEF Start
  <2>2. /\ closest_nodes' \in Seq(Nodes) /\ Ordered(closest_nodes', target)
        /\ AtMostTwice(closest_nodes') /\ Len(closest_nodes') <= K
    BY <1>0, <2>1, AnswerIsClosestOfTable
  <2>3. PICK t \in Tables(local_node_id, fill) : Ids(closest_nodes') \subseteq t.contacts
    BY <1>0, <2>1, AnswerIsClosestOfTable
  <2>4. Ids(closest_nodes') \subseteq Nodes \ {local_node_id}
    BY <2>3 DEF Tables
  <2>5. Ordered(closest_nodes', target')
    BY <2>1, <2>2
  <2> QED
    BY <2>1, <2>2, <2>4, <2>5
<1>2. CASE QueryRound
  <2>1. /\ queried' = take(closest_nodes, ALPHA) /\ idx' = 1 /\ pc' = "results"
        /\ UNCHANGED <<operation, target, fill, closest_nodes, seen>>
    BY <1>2 DEF QueryRound
  <2>2. closest_nodes \in Seq(Others)
    BY OthersOnly
  <2>3. queried' \in Seq(Others)
    BY <1>0, <2>1, <2>2, TakeIsPrefix
  <2> QED
    BY <2>1, <2>3 DEF Ordered, AtMostTwice
<1>3. CASE HandleOk
  <2>1. PICK nodes \in ClosestOf[queried[idx]][target][fill] :
          closest_nodes' = AddUnseen(nodes) /\ seen' = seen \cup Ids(nodes)
    BY <1>3 DEF HandleOk
  <2>2. /\ idx \in DOMAIN queried /\ idx' = idx + 1
        /\ UNCHANGED <<operation, target, fill, pc, queried>>
    BY <1>3 DEF HandleOk
  <2>3. queried[idx] \in Nodes
    BY <1>0, <2>2
  <2>4. nodes \in Seq(Nodes)
    BY <2>1, <2>3, AnswerIsClosestOfTable
  <2>5. Ids(nodes) \subseteq Nodes
    BY <2>4 DEF Ids
  <2>6. /\ closest_nodes' \in Seq(Nodes) /\ Len(closest_nodes') <= K
        /\ Ordered(closest_nodes', target) /\ AtMostTwice(closest_nodes')
        /\ Ids(closest_nodes') \subseteq (seen \cup Ids(nodes)) \ {local_node_id}
    BY <2>1, <2>4, AddUnseenMerges
  <2>7. Ordered(closest_nodes', target')
    BY <2>2, <2>6
  <2> QED
    BY <2>1, <2>2, <2>5, <2>6, <2>7
<1>4. CASE HandleErr
  <2>1. /\ closest_nodes' = RemoveAt(closest_nodes, idx) /\ idx' = idx + 1
        /\ idx \in 1 .. Len(closest_nodes)
        /\ UNCHANGED <<operation, target, fill, pc, seen, queried>>
    BY <1>4 DEF HandleErr
  <2>2. /\ closest_nodes' \in Seq(Nodes) /\ Len(closest_nodes') = Len(closest_nodes) - 1
        /\ Ids(closest_nodes') \subseteq Ids(closest_nodes)
        /\ Ordered(closest_nodes', target) /\ AtMostTwice(closest_nodes')
    BY <2>1, RemoveAtKeepsOrder
  <2>3. Ordered(closest_nodes', target') /\ Len(closest_nodes') <= K
    BY <1>0, <2>1, <2>2
  <2> QED
    BY <2>1, <2>2, <2>3
<1>5. CASE PassOver \/ EndRound \/ Finish
  <2>1. /\ UNCHANGED <<operation, target, fill, closest_nodes, seen, queried>>
        /\ idx' \in Nat \ {0} /\ pc' \in {"start", "loop", "results", "done"}
    BY <1>5 DEF PassOver, EndRound, Finish
  <2> QED
    BY <2>1 DEF Ordered, AtMostTwice
<1>6. CASE UNCHANGED vars
  BY <1>6 DEF vars, lookupVars, Ordered, AtMostTwice
<1> QED
  BY <1>1, <1>2, <1>3, <1>4, <1>5, <1>6 DEF Next

(***************************************************************************)
(* The candidates of find_node are in order of their distance, none is     *)
(* there three times although tables list contacts twice, they are at most *)
(* K, without the local node, and all recorded as seen.                    *)
(***************************************************************************)
THEOREM CandidatesCorrect == Spec => []CandidatesInOrder
<1>1. ASSUME CandidatesInv PROVE CandidatesInOrder
  <2>1. closest_nodes \in Seq(Nodes) /\ target \in NodeIds
    BY <1>1 DEF CandidatesInv
  <2>2. \A i \in DOMAIN closest_nodes : closest_nodes[i] \in NodeIds
    BY <2>1, NodesAssumption
  <2>3. \A i, j \in DOMAIN closest_nodes :
          i < j => ~Closer(target, closest_nodes[j], closest_nodes[i])
    BY <1>1, <2>1, <2>2, CloserIsTotalOrder DEF CandidatesInv, Ordered
  <2>4. ASSUME NEW i \in DOMAIN closest_nodes, NEW j \in DOMAIN closest_nodes, i + 1 < j
        PROVE  closest_nodes[i] # closest_nodes[j]
    <3>1. /\ i + 1 \in DOMAIN closest_nodes /\ i < i + 1
          /\ i # i + 1 /\ i + 1 # j /\ i # j
      BY <2>1, <2>4
    <3> SUFFICES ASSUME closest_nodes[i] = closest_nodes[j] PROVE FALSE
      OBVIOUS
    <3>2. ~Closer(target, closest_nodes[j], closest_nodes[i + 1])
      BY <2>3, <2>4, <3>1
    <3>3. ~Closer(target, closest_nodes[i + 1], closest_nodes[i])
      BY <2>3, <3>1
    <3>4. closest_nodes[i] = closest_nodes[i + 1]
      BY <2>1, <2>2, <3>1, <3>2, <3>3, CloserIsTotalOrder
    <3> QED
      BY <1>1, <3>1, <3>4 DEF CandidatesInv, AtMostTwice
  <2> QED
    BY <1>1, <2>3, <2>4 DEF CandidatesInv, CandidatesInOrder
<1>2. Spec => []CandidatesInv
  BY CandidatesInvInit, CandidatesInvStep, PTL DEF Spec
<1> QED
  BY <1>1, <1>2, PTL

(***************************************************************************)
(* A node is closest when the list has nothing closer: two nodes neither   *)
(* of which is closer are the same.                                        *)
(***************************************************************************)
LEMMA EquallyClose ==
  ASSUME NEW a \in NodeIds, NEW b \in NodeIds, NEW to \in NodeIds,
         ~Closer(to, a, b), ~Closer(to, b, a)
  PROVE  a = b
BY CloserIsTotalOrder

(***************************************************************************)
(* An answer in a round that goes on without failures.                     *)
(***************************************************************************)
LEMMA HandleOkConverges ==
  ASSUME K >= 3, CandidatesInv, ConvergesInv, HandleOk,
         fill > 0, failed = {}, Others # {}
  PROVE  /\ closest_nodes' # <<>>
         /\ Reached(closest_nodes'[1], target)
         /\ \A s \in seen' \ {local_node_id} : ~Closer(target, s, closest_nodes'[1])
         /\ ~looking_for_closest' => /\ ~looking_for_closest
                                     /\ closest_nodes'[1] = closest_nodes[1]
                                     /\ IsClosest(closest_nodes[1], target)
<1> DEFINE c == closest_nodes[1]
           d == closest_nodes'[1]
<1>1. PICK nodes \in ClosestOf[queried[idx]][target][fill] :
        closest_nodes' = AddUnseen(nodes) /\ seen' = seen \cup Ids(nodes)
  BY DEF HandleOk
<1>2. /\ idx \in DOMAIN queried /\ pc = "results"
      /\ looking_for_closest' = (looking_for_closest \/ Closer(target, d, c))
  BY DEF HandleOk, CandidatesInv, Improved
<1>3. /\ queried[idx] \in Others /\ queried[idx] \in Nodes
      /\ target \in NodeIds /\ fill \in Fills
  BY <1>2 DEF CandidatesInv, Others
<1>4. nodes \in Seq(Nodes)
  BY <1>3, AnswerIsClosestOfTable
<1>5. /\ closest_nodes # <<>> /\ Reached(c, target)
      /\ \A s \in seen \ {local_node_id} : ~Closer(target, s, c)
      /\ ~looking_for_closest => Len(queried) >= 1 /\ queried[1] = c
      /\ ~looking_for_closest /\ idx > 1 => IsClosest(c, target)
  BY <1>2 DEF ConvergesInv
<1>6. /\ closest_nodes' \in Seq(Nodes) /\ closest_nodes' # <<>>
      /\ \A x \in Ids(closest_nodes) \cup (Ids(nodes) \ seen) : ~Closer(target, x, d)
  BY <1>1, <1>4, <1>5, AddUnseenMerges
<1>7. /\ closest_nodes \in Seq(Nodes) /\ seen \subseteq Nodes /\ Ids(nodes) \subseteq Nodes
      /\ c \in Ids(closest_nodes)
  BY <1>4, <1>5 DEF CandidatesInv, Ids
<1>8. c \in NodeIds /\ d \in NodeIds /\ \A n \in Nodes : n \in NodeIds
  BY <1>5, <1>6, <1>7, NodesAssumption
<1>9. ~Closer(target, c, d)
  BY <1>6, <1>7
<1> HIDE DEF c, d
<1>10. Reached(d, target)
  BY <1>3, <1>5, <1>8, <1>9, ReachedStays
<1>11. ASSUME NEW s \in seen' \ {local_node_id} PROVE ~Closer(target, s, d)
  <2>1. CASE s \in seen
    BY <1>3, <1>5, <1>7, <1>8, <1>9, <2>1, NotCloserStays
  <2>2. CASE s \notin seen
    BY <1>1, <1>6, <2>2
  <2> QED
    BY <2>1, <2>2
<1>12. ASSUME ~looking_for_closest'
       PROVE  ~looking_for_closest /\ d = c /\ IsClosest(c, target)
  <2>1. ~looking_for_closest /\ ~Closer(target, d, c)
    BY <1>2, <1>12
  <2>2. d = c
    BY <1>3, <1>8, <1>9, <2>1, EquallyClose
  <2>3. CASE idx > 1
    BY <1>5, <2>1, <2>2, <2>3
  <2>4. CASE ~(idx > 1)
    <3>1. idx = 1 /\ queried[idx] = c
      BY <1>2, <1>5, <2>1, <2>4 DEF CandidatesInv
    <3>2. ASSUME NEW y \in Ids(nodes) \ {local_node_id} PROVE ~Closer(target, y, c)
      BY <1>5, <1>6, <2>2, <3>2
    <3>3. c \in Others /\ nodes \in ClosestOf[c][target][fill]
      BY <1>3, <3>1
    <3>4. IsClosest(c, target) \/ \E y \in Ids(nodes) \ {local_node_id} : Closer(target, y, c)
      BY <1>3, <1>5, <3>3, AnswerHelps
    <3> QED
      BY <2>1, <2>2, <3>2, <3>4
  <2> QED
    BY <2>3, <2>4
<1> QED
  BY <1>6, <1>10, <1>11, <1>12 DEF c, d

(***************************************************************************)
(* Every step of find_node keeps what makes it converge.                   *)
(***************************************************************************)
LEMMA ConvergesInvStep ==
  ASSUME K >= 3, CandidatesInv, ConvergesInv, [Next]_vars
  PROVE  ConvergesInv'
<1>0. /\ target \in NodeIds /\ fill \in Fills /\ idx \in Nat \ {0} /\ K \in Nat
      /\ closest_nodes \in Seq(Nodes) /\ queried \in Seq(Others)
      /\ ALPHA \in Nat \ {0} /\ local_node_id \in Nodes
  BY NodesAssumption, ParametersAssumption DEF CandidatesInv
<1>1. CASE Start
  <2>1. /\ pc = "start" /\ pc' = "loop" /\ looking_for_closest' /\ target' = target
        /\ fill' = fill /\ closest_nodes' \in ClosestOf[local_node_id][target][fill]
        /\ seen' = {local_node_id} \cup Ids(closest_nodes')
    BY <1>1 DEF Start, ConvergesInv
  <2>2. closest_nodes' \in Seq(Nodes) /\ Ordered(closest_nodes', target)
    BY <1>0, <2>1, AnswerIsClosestOfTable
  <2>3. ASSUME fill > 0, Others # {}
        PROVE  /\ closest_nodes' # <<>> /\ Reached(closest_nodes'[1], target)
               /\ \A s \in seen' \ {local_node_id} : ~Closer(target, s, closest_nodes'[1])
    <3>1. closest_nodes' # <<>> /\ Reached(closest_nodes'[1], target)
      BY <1>0, <2>1, <2>3, OwnTableReaches
    <3>2. 1 \in DOMAIN closest_nodes'
      BY <2>2, <3>1
    <3>3. ASSUME NEW i \in DOMAIN closest_nodes'
          PROVE  ~Closer(target, closest_nodes'[i], closest_nodes'[1])
      <4>1. closest_nodes'[i] \in NodeIds /\ closest_nodes'[1] \in NodeIds
        BY <2>2, <3>2, NodesAssumption
      <4>2. \/ i = 1 \/ closest_nodes'[1] = closest_nodes'[i]
            \/ Closer(target, closest_nodes'[1], closest_nodes'[i])
        BY <2>2, <3>2 DEF Ordered
      <4> QED
        BY <1>0, <4>1, <4>2, CloserIsTotalOrder
    <3> QED
      BY <2>1, <3>1, <3>3 DEF Ids
  <2> QED
    BY <2>1, <2>3 DEF ConvergesInv, Reached
<1>2. CASE QueryRound
  <2>1. /\ pc = "loop" /\ pc' = "results" /\ closest_nodes # <<>>
        /\ queried' = take(closest_nodes, ALPHA) /\ idx' = 1 /\ ~looking_for_closest'
        /\ UNCHANGED <<target, fill, closest_nodes, seen, failed>>
    BY <1>2 DEF QueryRound
  <2>2. Len(queried') >= 1 /\ queried'[1] = closest_nodes[1]
    <3>1. 1 \in DOMAIN closest_nodes
      BY <1>0, <2>1
    <3>2. 1 \in DOMAIN queried' /\ queried' \in Seq(Nodes)
      BY <1>0, <2>1, <3>1, TakeIsPrefix
    <3>3. queried'[1] = closest_nodes[1]
      BY <1>0, <2>1, <3>2, TakeIsPrefix
    <3> QED
      BY <3>2, <3>3
  <2> QED
    BY <2>1, <2>2 DEF ConvergesInv, Reached
<1>3. CASE HandleOk
  <2>1. /\ pc = "results" /\ pc' = pc /\ idx' = idx + 1 /\ idx' > 1
        /\ UNCHANGED <<target, fill, queried, failed>>
    BY <1>0, <1>3 DEF HandleOk
  <2>2. ASSUME fill > 0, failed = {}, Others # {}
        PROVE  /\ closest_nodes' # <<>>
               /\ Reached(closest_nodes'[1], target)
               /\ \A s \in seen' \ {local_node_id} : ~Closer(target, s, closest_nodes'[1])
               /\ ~looking_for_closest' => /\ ~looking_for_closest
                                           /\ closest_nodes'[1] = closest_nodes[1]
                                           /\ IsClosest(closest_nodes[1], target)
    BY <1>3, <2>2, HandleOkConverges
  <2> QED
    BY <2>1, <2>2 DEF ConvergesInv, Reached, IsClosest
<1>4. CASE HandleErr
  <2>1. failed' # {} /\ pc' = "results"
    BY <1>4 DEF HandleErr
  <2> QED
    BY <2>1 DEF ConvergesInv
<1>5. CASE PassOver
  <2>1. /\ pc = "results" /\ idx > Len(closest_nodes) /\ idx' > 1
        /\ failed' = {} => failed = {}
        /\ UNCHANGED <<target, fill, pc, closest_nodes, seen, queried, looking_for_closest>>
    BY <1>0, <1>5 DEF PassOver
  <2>2. closest_nodes # <<>> => idx > 1
    BY <1>0, <2>1
  <2> QED
    BY <2>1, <2>2 DEF ConvergesInv, Reached, IsClosest
<1>6. CASE EndRound
  <2>1. /\ pc = "results" /\ pc' = "loop" /\ idx > Len(queried)
        /\ UNCHANGED <<target, fill, closest_nodes, seen, queried, idx, looking_for_closest, failed>>
    BY <1>6 DEF EndRound
  <2>2. Len(queried) >= 1 => idx > 1
    BY <1>0, <2>1
  <2> QED
    BY <2>1, <2>2 DEF ConvergesInv, Reached, IsClosest
<1>7. CASE Finish
  <2>1. /\ pc = "loop" /\ pc' = "done" /\ (~looking_for_closest \/ closest_nodes = <<>>)
        /\ UNCHANGED <<target, fill, closest_nodes, seen, queried, idx, looking_for_closest, failed>>
    BY <1>7 DEF Finish
  <2> QED
    BY <2>1 DEF ConvergesInv, Reached, IsClosest
<1>8. CASE UNCHANGED vars
  BY <1>8 DEF vars, lookupVars, ConvergesInv, Reached, IsClosest
<1> QED
  BY <1>1, <1>2, <1>3, <1>4, <1>5, <1>6, <1>7, <1>8 DEF Next

(***************************************************************************)
(* When every table has a contact in each bucket that is not empty and     *)
(* every call is answered, find_node ends with the node closest to its     *)
(* target, in every network, for every K above 2 (the code's is 20).       *)
(***************************************************************************)
THEOREM FindNodeConverges ==
  ASSUME K >= 3
  PROVE  Spec => []FindsClosest
<1>1. Init => CandidatesInv /\ ConvergesInv
  BY CandidatesInvInit DEF Init, LookupInit, ConvergesInv
<1>2. CandidatesInv /\ ConvergesInv /\ [Next]_vars => (CandidatesInv /\ ConvergesInv)'
  BY CandidatesInvStep, ConvergesInvStep
<1>3. CandidatesInv /\ ConvergesInv => FindsClosest
  BY DEF ConvergesInv, FindsClosest
<1> QED
  BY <1>1, <1>2, <1>3, PTL DEF Spec

-----------------------------------------------------------------------------
(* find_value.                                                             *)

valueTuple == <<lookupVars, valueVars>>

\* The lists of find_value hold other nodes, and the local one counts as visited.
ValueListsInv ==
  /\ operation = "find_value"
  /\ target \in NodeIds /\ fill \in Fills /\ idx \in Nat \ {0} /\ iteration \in Nat
  /\ pc \in {"start", "loop", "results", "done"}
  /\ closest_nodes \in Seq(Others) /\ queried \in Seq(Others)
  /\ all_closest_nodes \in Seq(Others)
  /\ local_node_id \in visited /\ visited \subseteq Nodes

\* The nodes whose answer has been handled.
Unanswered == IF pc = "results" THEN {queried[i] : i \in idx .. Len(queried)} ELSE {}
Answered == visited \ ({local_node_id} \cup Unanswered)

\* Why an answer without the value is no reason to stop: the node was not the
\* closest, and something closer is among the candidates or about to be.
NotTheLast(v) ==
  \/ IsClosest(v, target)
  \/ Closer(target, closest_nodes[1], v)
  \/ \E y \in Ids(all_closest_nodes) : Closer(target, y, v)

\* Where a lookup is that has not found the value: no node it knows of is closer
\* than its first candidate, which it asks in the next iteration at the latest;
\* no node that has answered held the value or was the closest without being the
\* first candidate; and when it stops, the closest node has answered.
Ahead ==
    /\ closest_nodes # <<>>
    /\ Reached(closest_nodes[1], target)
    /\ \A x \in Ids(closest_nodes) : ~Closer(target, x, closest_nodes[1])
    /\ \A v \in visited \ {local_node_id} : ~Closer(target, v, closest_nodes[1])
    /\ \A v \in Answered : v \notin holders /\ NotTheLast(v)
    /\ pc = "results" => Ids(queried) \subseteq visited /\ closest_nodes[1] \in visited
    /\ pc = "loop" => \A y \in Ids(all_closest_nodes) : ~Closer(target, y, closest_nodes[1])
    /\ pc = "done" => \/ iteration = MAX_ITERATIONS
                      \/ closest_nodes[1] \notin holders /\ IsClosest(closest_nodes[1], target)

\* Every call so far was answered, and the tables have a contact in every bucket.
NoFailure == fill > 0 /\ failed = {} /\ Others # {} /\ result # "found"

\* The inductive invariant.
AheadInv ==
  /\ pc = "start" => visited = {local_node_id} /\ all_closest_nodes = <<>>
  /\ pc # "start" /\ NoFailure => Ahead

(***************************************************************************)
(* The others are nodes, and lists of them have no local node.             *)
(***************************************************************************)
LEMMA OthersAreNodes ==
  /\ Others \subseteq Nodes /\ Others \subseteq NodeIds /\ local_node_id \notin Others
  /\ local_node_id \in Nodes
  /\ \A s \in Seq(Others) : s \in Seq(Nodes) /\ Ids(s) \subseteq Others
<1>1. /\ Others \subseteq Nodes /\ Others \subseteq NodeIds /\ local_node_id \notin Others
      /\ local_node_id \in Nodes
  BY NodesAssumption DEF Others
<1> QED
  BY <1>1 DEF Ids

(***************************************************************************)
(* What is closer than a node, when the head of the list gets closer.      *)
(***************************************************************************)
LEMMA CloserStays ==
  ASSUME NEW c \in NodeIds, NEW d \in NodeIds, NEW v \in NodeIds, NEW to \in NodeIds,
         Closer(to, c, v), ~Closer(to, c, d)
  PROVE  Closer(to, d, v)
<1>1. c = d \/ Closer(to, d, c)
  BY CloserIsTotalOrder
<1> QED
  BY <1>1, CloserIsTotalOrder

(***************************************************************************)
(* The lists of find_value hold other nodes in the first state.            *)
(***************************************************************************)
LEMMA ValueListsInvInit == ValueInit => ValueListsInv
BY OthersAreNodes DEF ValueInit, LookupInit, ValueListsInv

(***************************************************************************)
(* Every step of find_value keeps other nodes in its lists.                *)
(***************************************************************************)
LEMMA ValueListsInvStep == ValueListsInv /\ [ValueNext]_valueTuple => ValueListsInv'
<1> SUFFICES ASSUME ValueListsInv, [ValueNext]_valueTuple PROVE ValueListsInv'
  OBVIOUS
<1> USE DEF ValueListsInv
<1>0. K \in Nat /\ ALPHA \in Nat
  BY ParametersAssumption
<1>1. CASE StartValue
  <2>1. /\ closest_nodes' \in ClosestOf[local_node_id][target][fill]
        /\ pc' \in {"done", "loop"}
        /\ UNCHANGED <<operation, target, fill, visited, queried, idx, iteration,
                       all_closest_nodes>>
    BY <1>1 DEF StartValue
  <2>2. closest_nodes' \in Seq(Nodes)
    BY <2>1, OthersAreNodes, AnswerIsClosestOfTable
  <2>3. PICK t \in Tables(local_node_id, fill) : Ids(closest_nodes') \subseteq t.contacts
    BY <2>1, OthersAreNodes, AnswerIsClosestOfTable
  <2>4. local_node_id \notin Ids(closest_nodes')
    BY <2>3 DEF Tables
  <2>5. closest_nodes' \in Seq(Others)
    BY <2>2, <2>4, OthersOnly
  <2> QED
    BY <2>1, <2>5
<1>2. CASE QueryUnvisited
  <2>1. /\ queried' = Unvisited /\ visited' = visited \cup Ids(Unvisited)
        /\ idx' = 1 /\ all_closest_nodes' = <<>> /\ pc' = "results"
        /\ UNCHANGED <<operation, target, fill, closest_nodes, iteration>>
    BY <1>2 DEF QueryUnvisited
  <2>2. /\ Without(closest_nodes, visited) \in Seq(Nodes)
        /\ local_node_id \notin Ids(Without(closest_nodes, visited))
    BY OthersAreNodes, WithoutKeepsTheOthers
  <2>3. Without(closest_nodes, visited) \in Seq(Others)
    BY <2>2, OthersOnly
  <2>4. Unvisited \in Seq(Others)
    BY <1>0, <2>3, TakeIsPrefix DEF Unvisited
  <2>5. Ids(Unvisited) \subseteq Nodes
    BY <2>4, OthersAreNodes
  <2> QED
    BY <2>1, <2>4, <2>5
<1>3. CASE ResultNodes
  <2>1. PICK nodes \in ClosestOf[queried[idx]][target][fill] :
          all_closest_nodes' = all_closest_nodes \o Without(nodes, visited)
    BY <1>3 DEF ResultNodes
  <2>2. /\ idx \in DOMAIN queried /\ idx' = idx + 1
        /\ UNCHANGED <<operation, target, fill, pc, closest_nodes, visited, queried, iteration>>
    BY <1>3 DEF ResultNodes
  <2>3. nodes \in Seq(Nodes)
    BY <2>1, <2>2, OthersAreNodes, AnswerIsClosestOfTable
  <2>4. /\ Without(nodes, visited) \in Seq(Nodes)
        /\ local_node_id \notin Ids(Without(nodes, visited))
    BY <2>3, WithoutKeepsTheOthers
  <2>5. Without(nodes, visited) \in Seq(Others)
    BY <2>4, OthersOnly
  <2>6. all_closest_nodes' \in Seq(Others)
    BY <2>1, <2>5, JoinedIds
  <2> QED
    BY <2>2, <2>6
<1>4. CASE Continue
  <2> DEFINE all == closest_nodes \o all_closest_nodes
  <2>1. /\ closest_nodes' = take(SortByDistance(all, target), K)
        /\ iteration' = iteration + 1 /\ pc' = "loop"
        /\ UNCHANGED <<operation, target, fill, visited, queried, idx, all_closest_nodes>>
    BY <1>4 DEF Continue
  <2>2. all \in Seq(Others)
    BY JoinedIds
  <2> HIDE DEF all
  <2>3. all \in Seq(Nodes) /\ Ids(all) \subseteq Others
    BY <2>2, OthersAreNodes
  <2>4. closest_nodes' \in Seq(Nodes) /\ Ids(closest_nodes') \subseteq Ids(all)
    BY <2>1, <2>3, SortedAndCut
  <2>5. closest_nodes' \in Seq(Others)
    BY <2>3, <2>4, OthersAreNodes, OthersOnly
  <2> QED
    BY <2>1, <2>5
<1>5. CASE FindLocally \/ ResultValue \/ ResultNothing \/ NoNewNodes \/ Exhausted
  <2>1. /\ UNCHANGED <<operation, target, fill, closest_nodes, visited, queried, iteration,
                       all_closest_nodes>>
        /\ idx' \in Nat \ {0} /\ pc' \in {"start", "loop", "results", "done"}
    BY <1>5 DEF FindLocally, ResultValue, ResultNothing, NoNewNodes, Exhausted
  <2> QED
    BY <2>1
<1>6. CASE UNCHANGED valueTuple
  BY <1>6 DEF valueTuple, lookupVars, valueVars
<1> QED
  BY <1>1, <1>2, <1>3, <1>4, <1>5, <1>6 DEF ValueNext

(***************************************************************************)
(* The first candidates: the own table has the closest node's bucket.      *)
(***************************************************************************)
LEMMA StartValueIsAhead ==
  ASSUME ValueListsInv, AheadInv, StartValue, NoFailure'
  PROVE  Ahead'
<1> USE DEF ValueListsInv
<1>1. /\ closest_nodes' \in ClosestOf[local_node_id][target][fill]
      /\ pc = "start" /\ pc' = IF closest_nodes' = <<>> THEN "done" ELSE "loop"
      /\ UNCHANGED <<operation, target, fill, visited, all_closest_nodes, failed, result>>
      /\ visited = {local_node_id} /\ all_closest_nodes = <<>>
  BY DEF StartValue, AheadInv
<1>2. closest_nodes' # <<>> /\ Reached(closest_nodes'[1], target)
  BY <1>1, OwnTableReaches DEF NoFailure
<1>3. closest_nodes' \in Seq(Nodes) /\ Ordered(closest_nodes', target)
  BY <1>1, OthersAreNodes, AnswerIsClosestOfTable
<1>4. \A x \in Ids(closest_nodes') : ~Closer(target, x, closest_nodes'[1])
  <2> SUFFICES ASSUME NEW i \in DOMAIN closest_nodes'
               PROVE  ~Closer(target, closest_nodes'[i], closest_nodes'[1])
    BY DEF Ids
  <2>1. closest_nodes'[1] \in NodeIds /\ closest_nodes'[i] \in NodeIds
    BY <1>2, <1>3, NodesAssumption
  <2>2. \/ i = 1 \/ closest_nodes'[1] = closest_nodes'[i]
        \/ Closer(target, closest_nodes'[1], closest_nodes'[i])
    BY <1>2, <1>3 DEF Ordered
  <2> QED
    BY <2>1, <2>2, CloserIsTotalOrder
<1>5. pc' = "loop"
  BY <1>1, <1>2
<1>6. Answered' = {}
  BY <1>1 DEF Answered
<1>7. Ids(all_closest_nodes') = {}
  BY <1>1 DEF Ids
<1> QED
  BY <1>1, <1>2, <1>4, <1>5, <1>6, <1>7 DEF Ahead

(***************************************************************************)
(* Asking the unvisited candidates: the first candidate is asked unless it *)
(* was, and what the last answers named is no closer than it.              *)
(***************************************************************************)
LEMMA QueryUnvisitedIsAhead ==
  ASSUME ValueListsInv, Ahead, QueryUnvisited
  PROVE  Ahead'
<1> USE DEF ValueListsInv
<1> DEFINE c == closest_nodes[1]
           left == Without(closest_nodes, visited)
<1>1. /\ pc = "loop" /\ queried' = Unvisited /\ visited' = visited \cup Ids(Unvisited)
      /\ idx' = 1 /\ all_closest_nodes' = <<>> /\ pc' = "results"
      /\ UNCHANGED <<target, closest_nodes, holders>>
  BY DEF QueryUnvisited
<1>2. /\ closest_nodes \in Seq(Nodes) /\ Ids(closest_nodes) \subseteq Others
      /\ closest_nodes # <<>> /\ c \in Ids(closest_nodes) /\ c \in NodeIds
  <2>1. closest_nodes \in Seq(Nodes) /\ Ids(closest_nodes) \subseteq Others
    BY OthersAreNodes
  <2>2. closest_nodes # <<>>
    BY DEF Ahead
  <2>3. c \in Ids(closest_nodes)
    BY <2>2 DEF Ids
  <2> QED
    BY <2>1, <2>2, <2>3, OthersAreNodes
<1>3. /\ left \in Seq(Nodes) /\ Ids(left) = Ids(closest_nodes) \ visited
      /\ c \notin visited => left # <<>> /\ left[1] = c
  BY <1>2, WithoutKeepsTheOthers
<1>4. /\ Unvisited \in Seq(Nodes) /\ Ids(Unvisited) \subseteq Ids(left)
      /\ c \notin visited => c \in Ids(Unvisited)
  <2> HIDE DEF left
  <2>1. /\ Unvisited \in Seq(Nodes)
        /\ \A i \in DOMAIN Unvisited : i \in DOMAIN left /\ Unvisited[i] = left[i]
        /\ \A i \in DOMAIN left : i <= ALPHA => i \in DOMAIN Unvisited
    BY <1>3, ParametersAssumption, TakeIsPrefix DEF Unvisited, left
  <2>2. Ids(Unvisited) \subseteq Ids(left)
    BY <2>1 DEF Ids
  <2>3. ASSUME c \notin visited PROVE c \in Ids(Unvisited)
    <3>1. 1 \in DOMAIN left /\ left[1] = c
      BY <1>3, <2>3
    <3>2. 1 \in DOMAIN Unvisited /\ Unvisited[1] = c
      BY <2>1, <3>1, ParametersAssumption
    <3> QED
      BY <3>2 DEF Ids
  <2> QED
    BY <2>1, <2>2, <2>3
<1>5. Unanswered' = Ids(Unvisited) /\ Unanswered = {}
  <2>1. DOMAIN Unvisited = 1 .. Len(Unvisited)
    BY <1>4
  <2> QED
    BY <1>1, <2>1 DEF Unanswered, Ids
<1>6. Answered' \subseteq Answered
  BY <1>1, <1>5 DEF Answered
<1>7. \A v \in visited' \ {local_node_id} : ~Closer(target, v, c)
  BY <1>1, <1>3, <1>4 DEF Ahead
<1>8. ASSUME NEW v \in Answered PROVE IsClosest(v, target) \/ Closer(target, c, v)
  <2>1. v \in NodeIds
    BY NodesAssumption DEF Answered
  <2>2. NotTheLast(v)
    BY <1>8 DEF Ahead
  <2>3. ASSUME NEW y \in Ids(all_closest_nodes), Closer(target, y, v)
        PROVE  Closer(target, c, v)
    <3>1. y \in NodeIds /\ ~Closer(target, y, c)
      BY <1>1, OthersAreNodes DEF Ahead
    <3> QED
      BY <1>2, <2>1, <2>3, <3>1, CloserStays
  <2> QED
    BY <2>2, <2>3 DEF NotTheLast
<1>9. \A v \in Answered' : v \notin holders' /\ NotTheLast(v)'
  <2>1. \A v \in Answered' : v \notin holders'
    BY <1>1, <1>6 DEF Ahead
  <2>2. \A v \in Answered' : IsClosest(v, target') \/ Closer(target', closest_nodes'[1], v)
    BY <1>1, <1>6, <1>8
  <2> QED
    BY <2>1, <2>2 DEF NotTheLast
<1>10. Ids(queried') \subseteq visited' /\ c \in visited'
  BY <1>1, <1>4
<1> QED
  BY <1>1, <1>7, <1>9, <1>10 DEF Ahead

(***************************************************************************)
(* An answer without the value: its sender is not the closest node, or     *)
(* something closer is among the candidates or in the answer.              *)
(***************************************************************************)
LEMMA ResultNodesIsAhead ==
  ASSUME K >= 3, ValueListsInv, Ahead, ResultNodes, fill > 0
  PROVE  Ahead'
<1> USE DEF ValueListsInv
<1> DEFINE c == closest_nodes[1]
           u == queried[idx]
<1>1. /\ pc = "results" /\ idx \in DOMAIN queried /\ u \notin holders /\ idx' = idx + 1
      /\ UNCHANGED <<target, pc, closest_nodes, visited, queried, iteration, holders>>
  BY DEF ResultNodes
<1>2. PICK nodes \in ClosestOf[u][target][fill] :
        all_closest_nodes' = all_closest_nodes \o Without(nodes, visited)
  BY DEF ResultNodes
<1>3. u \in Others /\ u \in Ids(queried) /\ u \in Nodes /\ u \in NodeIds
  BY <1>1, OthersAreNodes DEF Ids
<1>4. closest_nodes # <<>> /\ c \in NodeIds
  <2>1. closest_nodes # <<>>
    BY DEF Ahead
  <2>2. c \in Others
    BY <2>1
  <2> QED
    BY <2>1, <2>2, OthersAreNodes
<1>5. nodes \in Seq(Nodes)
  BY <1>2, <1>3, AnswerIsClosestOfTable
<1>6. Without(nodes, visited) \in Seq(Nodes) /\ Ids(Without(nodes, visited)) = Ids(nodes) \ visited
  BY <1>5, WithoutKeepsTheOthers
<1>7. Ids(all_closest_nodes') = Ids(all_closest_nodes) \cup (Ids(nodes) \ visited)
  <2>1. all_closest_nodes \in Seq(Nodes)
    BY OthersAreNodes
  <2> QED
    BY <1>2, <1>6, <2>1, JoinedIds
<1>8. ASSUME NEW v, v = u PROVE NotTheLast(v)'
  <2>1. ~Closer(target, u, c)
    BY <1>1, <1>3, OthersAreNodes DEF Ahead
  <2>2. CASE Closer(target, c, u)
    BY <1>1, <1>8, <2>2 DEF NotTheLast
  <2>3. CASE ~Closer(target, c, u)
    <3>1. u = c
      BY <1>3, <1>4, <2>1, <2>3, EquallyClose
    <3>2. Reached(u, target)
      BY <3>1 DEF Ahead
    <3>3. \/ IsClosest(u, target)
          \/ \E y \in Ids(nodes) \ {local_node_id} : Closer(target, y, u)
      BY <1>2, <1>3, <3>2, AnswerHelps
    <3>4. ASSUME NEW y \in Ids(nodes) \ {local_node_id}, Closer(target, y, u)
          PROVE  y \in Ids(all_closest_nodes')
      BY <1>7, <3>1, <3>4 DEF Ahead
    <3> QED
      BY <1>1, <1>8, <3>3, <3>4 DEF NotTheLast
  <2> QED
    BY <2>2, <2>3
<1>9. Unanswered \subseteq Unanswered' \cup {u}
  <2>1. \A i \in idx .. Len(queried) : i = idx \/ i \in idx' .. Len(queried)
    BY <1>1
  <2> QED
    BY <1>1, <2>1 DEF Unanswered
<1>10. Answered' \subseteq Answered \cup {u}
  BY <1>1, <1>9 DEF Answered
<1>11. \A v \in Answered : NotTheLast(v)'
  BY <1>1, <1>7 DEF Ahead, NotTheLast
<1>12. \A v \in Answered' : v \notin holders' /\ NotTheLast(v)'
  <2>1. \A v \in Answered' : v \notin holders'
    BY <1>1, <1>10 DEF Ahead
  <2> QED
    BY <1>8, <1>10, <1>11, <2>1
<1> QED
  BY <1>1, <1>12 DEF Ahead

(***************************************************************************)
(* The candidates and the new nodes, sorted and cut: the head of the list  *)
(* is at least as close as before and as every new node.                   *)
(***************************************************************************)
LEMMA ContinueIsAhead ==
  ASSUME ValueListsInv, Ahead, Continue
  PROVE  Ahead'
<1> USE DEF ValueListsInv
<1> DEFINE c == closest_nodes[1]
           d == closest_nodes'[1]
           all == closest_nodes \o all_closest_nodes
<1>1. /\ pc = "results" /\ idx > Len(queried) /\ pc' = "loop"
      /\ closest_nodes' = take(SortByDistance(all, target), K)
      /\ UNCHANGED <<target, visited, queried, idx, all_closest_nodes, holders>>
  BY DEF Continue
<1>2. closest_nodes # <<>> /\ c \in Ids(closest_nodes) /\ c \in Others /\ c \in NodeIds
  <2>1. closest_nodes # <<>>
    BY DEF Ahead
  <2>2. c \in Ids(closest_nodes)
    BY <2>1 DEF Ids
  <2> QED
    BY <2>1, <2>2, OthersAreNodes
<1>3. /\ all \in Seq(Others) /\ all # <<>>
      /\ Ids(all) = Ids(closest_nodes) \cup Ids(all_closest_nodes)
  BY <1>2, JoinedIds
<1> HIDE DEF all
<1>4. all \in Seq(Nodes) /\ Ids(all) \subseteq Others
  BY <1>3, OthersAreNodes
<1>5. /\ closest_nodes' # <<>> /\ d \in Ids(all)
      /\ Ids(closest_nodes') \subseteq Ids(all)
      /\ \A x \in Ids(all) : ~Closer(target, x, d)
  BY <1>1, <1>3, <1>4, SortedAndCut
<1>6. d \in NodeIds /\ ~Closer(target, c, d)
  BY <1>2, <1>3, <1>4, <1>5, OthersAreNodes
<1>7. Reached(d, target)
  BY <1>2, <1>6, ReachedStays DEF Ahead
<1>8. ASSUME NEW v \in visited \ {local_node_id} PROVE ~Closer(target, v, d)
  <2>1. v \in NodeIds /\ ~Closer(target, v, c)
    BY NodesAssumption DEF Ahead
  <2> QED
    BY <1>2, <1>6, <2>1, NotCloserStays
<1>9. Answered' = Answered
  <2>1. Unanswered = {} /\ Unanswered' = {}
    BY <1>1 DEF Unanswered
  <2> QED
    BY <1>1, <2>1 DEF Answered
<1>10. ASSUME NEW v \in Answered PROVE NotTheLast(v)'
  <2>1. v \in NodeIds /\ NotTheLast(v)
    BY NodesAssumption DEF Ahead, Answered
  <2>2. Closer(target, c, v) => Closer(target, d, v)
    BY <1>2, <1>6, <2>1, CloserStays
  <2> QED
    BY <1>1, <2>1, <2>2 DEF NotTheLast
<1>11. \A v \in Answered' : v \notin holders' /\ NotTheLast(v)'
  <2>1. \A v \in Answered' : v \notin holders'
    BY <1>1, <1>9 DEF Ahead
  <2> QED
    BY <1>9, <1>10, <2>1
<1> QED
  BY <1>1, <1>3, <1>5, <1>7, <1>8, <1>11 DEF Ahead

(***************************************************************************)
(* A lookup without the value stops after asking the closest node, or at   *)
(* the limit of iterations.                                                *)
(***************************************************************************)
LEMMA StopIsAhead ==
  ASSUME ValueListsInv, Ahead, NoNewNodes \/ Exhausted
  PROVE  Ahead'
<1> USE DEF ValueListsInv
<1> DEFINE c == closest_nodes[1]
<1>1. /\ pc \in {"results", "loop"} /\ pc = "results" => idx > Len(queried)
      /\ pc' = "done"
      /\ UNCHANGED <<target, closest_nodes, visited, queried, idx, iteration,
                     all_closest_nodes, holders>>
  BY DEF NoNewNodes, Exhausted
<1>2. closest_nodes # <<>> /\ c \in Others /\ c \in NodeIds
  <2>1. closest_nodes # <<>>
    BY DEF Ahead
  <2> QED
    BY <2>1, OthersAreNodes
<1>3. Unanswered = {} /\ Unanswered' = {}
  BY <1>1 DEF Unanswered
<1>4. Answered' = Answered /\ Answered = visited \ {local_node_id}
  BY <1>1, <1>3 DEF Answered
<1>5. c \in visited \/ iteration = MAX_ITERATIONS
  <2>1. CASE NoNewNodes
    BY <2>1 DEF NoNewNodes, Ahead
  <2>2. CASE Exhausted
    <3> SUFFICES ASSUME Unvisited = <<>>, c \notin visited PROVE FALSE
      BY <2>2 DEF Exhausted
    <3>1. /\ Without(closest_nodes, visited) \in Seq(Nodes)
          /\ 1 \in DOMAIN Without(closest_nodes, visited)
      BY <1>2, OthersAreNodes, WithoutKeepsTheOthers
    <3>2. 1 \in DOMAIN Unvisited
      BY <3>1, ParametersAssumption, TakeIsPrefix DEF Unvisited
    <3> QED
      BY <3>2
  <2> QED
    BY <2>1, <2>2
<1>6. \A y \in Ids(all_closest_nodes) : ~Closer(target, y, c)
  <2>1. CASE NoNewNodes
    BY <2>1 DEF NoNewNodes, Ids
  <2>2. CASE Exhausted
    BY <2>2 DEF Exhausted, Ahead
  <2> QED
    BY <2>1, <2>2
<1>7. ASSUME c \in visited PROVE c \notin holders /\ IsClosest(c, target)
  <2>1. c \in Answered
    BY <1>2, <1>4, <1>7, OthersAreNodes
  <2>2. c \notin holders /\ NotTheLast(c)
    BY <2>1 DEF Ahead
  <2>3. ~Closer(target, c, c)
    BY <1>2, CloserIsTotalOrder
  <2> QED
    BY <1>6, <2>2, <2>3 DEF NotTheLast
<1>8. \A v \in Answered' : v \notin holders' /\ NotTheLast(v)'
  BY <1>1, <1>4 DEF Ahead, NotTheLast
<1> QED
  BY <1>1, <1>5, <1>7, <1>8 DEF Ahead

(***************************************************************************)
(* Every step of find_value keeps the closest node ahead.                  *)
(***************************************************************************)
LEMMA AheadInvStep ==
  ASSUME K >= 3, ValueListsInv, AheadInv, [ValueNext]_valueTuple
  PROVE  AheadInv'
<1>1. pc' = "start" => pc = "start" /\ UNCHANGED <<visited, all_closest_nodes>>
  BY DEF ValueNext, FindLocally, StartValue, QueryUnvisited, ResultValue, ResultNodes,
         ResultNothing, Continue, NoNewNodes, Exhausted, valueTuple, lookupVars, valueVars,
         ValueListsInv
<1>2. SUFFICES ASSUME pc' # "start", NoFailure' PROVE Ahead'
  BY <1>1 DEF AheadInv
<1>3. CASE StartValue
  BY <1>2, <1>3, StartValueIsAhead
<1>4. CASE FindLocally \/ ResultValue
  BY <1>2, <1>4 DEF FindLocally, ResultValue, NoFailure
<1>5. CASE ResultNothing
  BY <1>2, <1>5 DEF ResultNothing, NoFailure
<1>6. ASSUME QueryUnvisited \/ ResultNodes \/ Continue \/ NoNewNodes \/ Exhausted
      PROVE  Ahead /\ fill > 0
  <2>1. pc # "start" /\ UNCHANGED <<fill, failed, result>>
    BY <1>6 DEF QueryUnvisited, ResultNodes, Continue, NoNewNodes, Exhausted
  <2>2. NoFailure
    BY <1>2, <2>1 DEF NoFailure
  <2> QED
    BY <2>1, <2>2 DEF AheadInv, NoFailure
<1>7. CASE QueryUnvisited
  BY <1>6, <1>7, QueryUnvisitedIsAhead
<1>8. CASE ResultNodes
  BY <1>6, <1>8, ResultNodesIsAhead
<1>9. CASE Continue
  BY <1>6, <1>9, ContinueIsAhead
<1>10. CASE NoNewNodes \/ Exhausted
  BY <1>6, <1>10, StopIsAhead
<1>11. CASE UNCHANGED valueTuple
  <2>1. UNCHANGED <<operation, target, fill, pc, closest_nodes, queried, idx, failed, visited,
                    iteration, all_closest_nodes, holders, result>>
    BY <1>11 DEF valueTuple, lookupVars, valueVars
  <2>2. Ahead
    BY <1>2, <2>1 DEF AheadInv, NoFailure
  <2>3. Answered' = Answered
    BY <2>1 DEF Answered, Unanswered
  <2> QED
    BY <2>1, <2>2, <2>3 DEF Ahead, NotTheLast
<1> QED
  BY <1>3, <1>4, <1>5, <1>7, <1>8, <1>9, <1>10, <1>11 DEF ValueNext

(***************************************************************************)
(* When every table has a contact in each bucket that is not empty, every  *)
(* call is answered and the iterations suffice, find_value finds a value   *)
(* that the node closest to its key holds, in every network, for every K   *)
(* above 2 (the code's is 20).                                             *)
(***************************************************************************)
THEOREM FindValueConverges ==
  ASSUME K >= 3
  PROVE  ValueSpec => []FindsHeldValue
<1>1. ValueInit => ValueListsInv /\ AheadInv
  BY ValueListsInvInit DEF ValueInit, LookupInit, AheadInv
<1>2. ValueListsInv /\ AheadInv /\ [ValueNext]_valueTuple => (ValueListsInv /\ AheadInv)'
  BY ValueListsInvStep, AheadInvStep
<1>3. ASSUME ValueListsInv, AheadInv PROVE FindsHeldValue
  <2> SUFFICES ASSUME pc = "done", fill > 0, failed = {}, iteration < MAX_ITERATIONS,
                      NEW n \in holders \cap Others, IsClosest(n, target),
                      result # "found"
               PROVE  FALSE
    BY DEF FindsHeldValue
  <2>1. Ahead
    BY <1>3 DEF AheadInv, NoFailure
  <2>2. iteration # MAX_ITERATIONS
    BY <1>3, IterationsAssumption DEF ValueListsInv
  <2>3. /\ closest_nodes # <<>> /\ closest_nodes[1] \notin holders
        /\ IsClosest(closest_nodes[1], target)
    BY <2>1, <2>2 DEF Ahead
  <2>4. closest_nodes[1] \in Others
    BY <1>3, <2>3 DEF ValueListsInv
  <2>5. n = closest_nodes[1]
    BY <1>3, <2>3, <2>4, OthersAreNodes, EquallyClose DEF IsClosest, ValueListsInv
  <2> QED
    BY <2>3, <2>5
<1> QED
  BY <1>1, <1>2, <1>3, PTL DEF ValueSpec, valueTuple

=============================================================================
