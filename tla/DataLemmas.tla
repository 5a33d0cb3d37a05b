----------------------------- MODULE DataLemmas -----------------------------
(***************************************************************************)
(* Facts about sequences, numbers and totals that the proofs of several    *)
(* modules need.                                                           *)
(***************************************************************************)
EXTENDS Totals, Streams, Integers, FiniteSetTheorems, SequenceTheorems, TLAPS

-----------------------------------------------------------------------------
(* The library's facts on sequences, in the form the proofs below use.     *)
LEMMA SequenceFacts ==
  ASSUME NEW S, NEW q \in Seq(S)
  PROVE  /\ Len(q) \in Nat /\ DOMAIN q = 1..Len(q)
         /\ \A k \in 1..Len(q) : q[k] \in S
  BY LenProperties, ElementOfSeq

(* Removing an element (RemoveAt) keeps the others in order.               *)
Removed(q, i, r) == r = SubSeq(q, 1, i - 1) \o SubSeq(q, i + 1, Len(q))

LEMMA RemoveAtProperties ==
  ASSUME NEW S, NEW q \in Seq(S), NEW i \in 1..Len(q),
         NEW r, Removed(q, i, r)
  PROVE  /\ r \in Seq(S) /\ Len(r) = Len(q) - 1
         /\ \A j \in 1..(Len(q) - 1) : r[j] = IF j < i THEN q[j] ELSE q[j + 1]
<1> DEFINE left == SubSeq(q, 1, i - 1)
           right == SubSeq(q, i + 1, Len(q))
<1>1. Len(q) \in Nat /\ i \in Int /\ \A k \in 1..Len(q) : q[k] \in S
  BY SequenceFacts
<1>2. /\ left \in Seq(S) /\ Len(left) = i - 1
      /\ \A j \in 1..(i - 1) : left[j] = q[j]
  <2>1. \A k \in 1..(i - 1) : q[k] \in S
    BY <1>1
  <2>2. /\ left \in Seq(S) /\ Len(left) = (IF 1 <= i - 1 THEN (i - 1) - 1 + 1 ELSE 0)
        /\ \A j \in 1..((i - 1) - 1 + 1) : left[j] = q[1 + j - 1]
    BY <1>1, <2>1, SubSeqProperties
  <2> QED
    BY <1>1, <2>2
<1>3. /\ right \in Seq(S) /\ Len(right) = Len(q) - i
      /\ \A j \in 1..(Len(q) - i) : right[j] = q[i + j]
  <2>1. \A k \in (i + 1)..Len(q) : q[k] \in S
    BY <1>1
  <2>2. /\ right \in Seq(S)
        /\ Len(right) = (IF i + 1 <= Len(q) THEN Len(q) - (i + 1) + 1 ELSE 0)
        /\ \A j \in 1..(Len(q) - (i + 1) + 1) : right[j] = q[(i + 1) + j - 1]
    BY <1>1, <2>1, SubSeqProperties
  <2> QED
    BY <1>1, <2>2
<1> HIDE DEF left, right
<1>4. /\ left \o right \in Seq(S)
      /\ Len(left \o right) = Len(left) + Len(right)
      /\ \A j \in 1..(Len(left) + Len(right)) :
           (left \o right)[j] = IF j <= Len(left) THEN left[j] ELSE right[j - Len(left)]
  BY <1>2, <1>3, ConcatProperties
<1>5. \A j \in 1..(Len(q) - 1) : (left \o right)[j] = IF j < i THEN q[j] ELSE q[j + 1]
  <2> SUFFICES ASSUME NEW j \in 1..(Len(q) - 1)
               PROVE  (left \o right)[j] = IF j < i THEN q[j] ELSE q[j + 1]
    OBVIOUS
  <2>1. CASE j < i
    BY <1>1, <1>2, <1>3, <1>4, <2>1
  <2>2. CASE ~(j < i)
    <3>1. j - Len(left) \in 1..(Len(q) - i) /\ i + (j - Len(left)) = j + 1
      BY <1>1, <1>2, <2>2
    <3>2. (left \o right)[j] = right[j - Len(left)]
      BY <1>1, <1>2, <1>3, <1>4, <2>2
    <3> QED
      BY <1>3, <2>2, <3>1, <3>2
  <2> QED
    BY <2>1, <2>2
<1>6. r = left \o right
  BY DEF left, right, Removed
<1>7. Len(left \o right) = Len(q) - 1
  BY <1>1, <1>2, <1>3, <1>4
<1> QED
  BY <1>4, <1>5, <1>6, <1>7


(* The same element n times.                                               *)
LEMMA RepeatedProperties ==
  ASSUME NEW S, NEW p \in S, NEW n \in Nat, NEW r, r = [k \in 1..n |-> p]
  PROVE  r \in Seq(S) /\ Len(r) = n
<1>1. r \in [1..n -> S]
  OBVIOUS
<1>2. r \in Seq(S)
  BY <1>1, SeqDef
<1> QED
  BY <1>1, <1>2, LenProperties

(* A set of numbers with an element has a least one.                       *)
LEMMA LeastNumber ==
  ASSUME NEW S \in SUBSET Nat, S # {}
  PROVE  \E m \in S : \A n \in S : m <= n
<1> DEFINE Less == {e \in Nat \X Nat : e[1] < e[2]}
<1>1. IsWellFoundedOn(Less, Nat)
  BY NatLessThanWellFounded, Zenon DEF OpToRel
<1> HIDE DEF Less
<1>2. PICK m \in S : \A n \in S : <<n, m>> \notin Less
  BY <1>1, WFMin, Zenon
<1>3. \A n \in S : ~(n < m)
  BY <1>2 DEF Less
<1>4. m \in Nat /\ \A n \in S : n \in Nat
  OBVIOUS
<1>5. \A n \in S : m <= n
  BY <1>3, <1>4
<1> QED
  BY <1>5

(* A sequence without repeats is as long as its set of values at most.     *)
LEMMA LengthWithoutRepeats ==
  ASSUME NEW m \in Nat, NEW q \in Seq(1..m), \A j, k \in DOMAIN q : q[j] = q[k] => j = k
  PROVE  Len(q) \in 0..m
<1> DEFINE n == Len(q)
<1>1. n \in Nat /\ DOMAIN q = 1..n /\ \A k \in 1..n : q[k] \in 1..m
  BY SequenceFacts
<1> HIDE DEF n
<1>2. /\ IsFiniteSet(1..m) /\ Cardinality(1..m) = m
      /\ Cardinality(1..n) = n
  BY <1>1, FS_Interval
<1>3. q \in Injection(1..n, 1..m)
  BY <1>1, SeqDef DEF Injection, IsInjective
<1>4. Cardinality(1..n) <= Cardinality(1..m)
  <2>1. Injection(1..n, 1..m) # {}
    BY <1>3
  <2> QED
    BY <1>2, <2>1, FS_Injection
<1> QED
  BY <1>1, <1>2, <1>4 DEF n

(* A map that leaves nothing out and merges nothing keeps the size.        *)
LEMMA SameSize ==
  ASSUME NEW S, NEW T, IsFiniteSet(S), NEW f \in [S -> T],
         \A x, y \in S : f[x] = f[y] => x = y,
         \A z \in T : \E x \in S : f[x] = z
  PROVE  IsFiniteSet(T) /\ Cardinality(T) = Cardinality(S)
<1>1. f \in Bijection(S, T)
  BY Zenon DEF Bijection, Injection, IsInjective, Surjection
<1>2. ExistsBijection(S, T)
  BY <1>1 DEF ExistsBijection
<1> QED
  BY <1>2, FS_Bijection

-----------------------------------------------------------------------------
(* Totals.                                                                 *)
LEMMA MembersOf ==
  ASSUME NEW family
  PROVE  \A e : e \in Members(family)
                 <=> \E x \in DOMAIN family : \E y \in family[x] : e = <<x, y>>
  BY DEF Members

(* A finite family of finite sets.                                         *)
Finite(family) == /\ IsFiniteSet(DOMAIN family)
                  /\ \A x \in DOMAIN family : IsFiniteSet(family[x])

(* It has a total.                                                         *)
LEMMA TotalIsNumber ==
  ASSUME NEW family, Finite(family)
  PROVE  IsFiniteSet(Members(family)) /\ Total(family) \in Nat
<1> DEFINE part == [x \in DOMAIN family |-> {x} \X family[x]]
           parts == {part[x] : x \in DOMAIN family}
<1>1. part \in Surjection(DOMAIN family, parts)
  BY DEF Surjection
<1>2. IsFiniteSet(parts)
  BY <1>1, FS_Surjection DEF Finite
<1>3. \A x \in DOMAIN family : IsFiniteSet({x} \X family[x])
  BY FS_Singleton, FS_Product DEF Finite
<1>4. \A p \in parts : IsFiniteSet(p)
  BY <1>3
<1>5. UNION parts = Members(family)
  BY DEF Members
<1>6. IsFiniteSet(Members(family))
  BY <1>2, <1>4, <1>5, FS_UNION
<1> QED
  BY <1>6, FS_CardinalityType DEF Total

(* Two families that differ at one place only differ in total by what they *)
(* have there.                                                             *)
LEMMA TotalChanges ==
  ASSUME NEW f, NEW g, Finite(f), DOMAIN g = DOMAIN f,
         NEW x0 \in DOMAIN f, IsFiniteSet(g[x0]),
         \A x \in DOMAIN f : x # x0 => g[x] = f[x]
  PROVE  /\ Finite(g)
         /\ Total(g) = Total(f) - Cardinality(f[x0]) + Cardinality(g[x0])
<1> DEFINE F == {x0} \X f[x0]
           G == {x0} \X g[x0]
           rest == Members(f) \ F
<1>1. Finite(g)
  BY DEF Finite
<1>2. IsFiniteSet(Members(f)) /\ IsFiniteSet(f[x0]) /\ Cardinality(Members(f)) \in Nat
  BY TotalIsNumber, FS_CardinalityType DEF Finite
<1>3. /\ IsFiniteSet(F) /\ Cardinality(F) = Cardinality(f[x0])
      /\ IsFiniteSet(G) /\ Cardinality(G) = Cardinality(g[x0])
      /\ Cardinality(f[x0]) \in Nat /\ Cardinality(g[x0]) \in Nat
  <2>1. ASSUME NEW S, IsFiniteSet(S)
        PROVE  /\ IsFiniteSet({x0} \X S) /\ Cardinality(S) \in Nat
               /\ Cardinality({x0} \X S) = Cardinality(S)
    <3>1. IsFiniteSet({x0}) /\ Cardinality({x0}) = 1
      BY FS_Singleton
    <3>2. /\ IsFiniteSet({x0} \X S)
          /\ Cardinality({x0} \X S) = Cardinality({x0}) * Cardinality(S)
      BY <2>1, <3>1, FS_Product
    <3>3. Cardinality(S) \in Nat
      BY <2>1, FS_CardinalityType
    <3> QED
      BY <3>1, <3>2, <3>3
  <2> QED
    BY <1>2, <2>1
<1>4. Members(f) \cap F = F
  BY MembersOf
<1>5. /\ IsFiniteSet(rest)
      /\ Cardinality(rest) = Cardinality(Members(f)) - Cardinality(F)
  <2> HIDE DEF F
  <2>1. /\ IsFiniteSet(Members(f) \ F)
        /\ Cardinality(Members(f) \ F)
             = Cardinality(Members(f)) - Cardinality(Members(f) \cap F)
    BY <1>2, FS_Difference
  <2> QED
    BY <1>4, <2>1
<1>6. \A e : e \in Members(g) <=> e \in rest \cup G
  <2>1. \A e : e \in rest <=> \E x \in DOMAIN f : x # x0 /\ \E y \in f[x] : e = <<x, y>>
    BY MembersOf
  <2>2. \A e : e \in G <=> \E y \in g[x0] : e = <<x0, y>>
    OBVIOUS
  <2> HIDE DEF rest, G
  <2> QED
    BY <2>1, <2>2, MembersOf
<1>7. rest \cap G = {}
  BY MembersOf
<1> HIDE DEF F, G, rest
<1>8. Members(g) = rest \cup G
  BY <1>6
<1>9. Cardinality(rest \cup G) = Cardinality(rest) + Cardinality(G) - Cardinality(rest \cap G)
  BY <1>3, <1>5, FS_Union
<1>10. Cardinality(rest \cap G) = 0
  BY <1>7, FS_EmptySet
<1> QED
  BY <1>1, <1>2, <1>3, <1>5, <1>8, <1>9, <1>10 DEF Total

(* A total counts each part, and nothing else.                             *)
LEMMA PartOfTotal ==
  ASSUME NEW f, Finite(f)
  PROVE  /\ \A x \in DOMAIN f : Cardinality(f[x]) \in Nat /\ Cardinality(f[x]) <= Total(f)
         /\ Total(f) = 0 <=> \A x \in DOMAIN f : f[x] = {}
<1>1. IsFiniteSet(Members(f)) /\ Cardinality(Members(f)) \in Nat
  BY TotalIsNumber DEF Total
<1>2. ASSUME NEW x \in DOMAIN f
      PROVE  Cardinality(f[x]) \in Nat /\ Cardinality(f[x]) <= Total(f)
  <2> DEFINE pair == [y \in f[x] |-> <<x, y>>]
  <2>1. pair \in Injection(f[x], Members(f))
    BY MembersOf DEF Injection, IsInjective
  <2>2. Cardinality(f[x]) <= Cardinality(Members(f))
    <3>1. Injection(f[x], Members(f)) # {}
      BY <2>1
    <3> QED
      BY <1>1, <3>1, FS_Injection
  <2>3. Cardinality(f[x]) \in Nat
    BY FS_CardinalityType DEF Finite
  <2> QED
    BY <2>2, <2>3 DEF Total
<1>3. Total(f) = 0 <=> Members(f) = {}
  BY <1>1, FS_EmptySet DEF Total
<1>4. Members(f) = {} <=> \A x \in DOMAIN f : f[x] = {}
  <2>1. ASSUME NEW x \in DOMAIN f, NEW y \in f[x]
        PROVE  <<x, y>> \in Members(f)
    BY MembersOf
  <2>2. ASSUME NEW e \in Members(f)
        PROVE  \E x \in DOMAIN f : f[x] # {}
    BY MembersOf
  <2> QED
    BY <2>1, <2>2
<1> QED
  BY <1>2, <1>3, <1>4

(* Totals add up.                                                          *)
LEMMA TotalsAddUp ==
  ASSUME NEW f, NEW g, NEW h, Finite(f), Finite(g),
         DOMAIN f = DOMAIN h, DOMAIN g = DOMAIN h,
         \A x \in DOMAIN h : h[x] = f[x] \cup g[x] /\ f[x] \cap g[x] = {}
  PROVE  Finite(h) /\ Total(h) = Total(f) + Total(g)
<1>1. \A x \in DOMAIN h : IsFiniteSet(f[x] \cup g[x])
  BY FS_Union DEF Finite
<1>2. Finite(h)
  BY <1>1 DEF Finite
<1>3. /\ IsFiniteSet(Members(f)) /\ Cardinality(Members(f)) \in Nat
      /\ IsFiniteSet(Members(g)) /\ Cardinality(Members(g)) \in Nat
  BY TotalIsNumber DEF Total
<1>4. \A e : e \in Members(h) <=> e \in Members(f) \/ e \in Members(g)
  BY MembersOf
<1>5. Members(f) \cap Members(g) = {}
  BY MembersOf
<1>6. Members(h) = Members(f) \cup Members(g)
  BY <1>4
<1>7. /\ Cardinality(Members(f) \cup Members(g))
           = Cardinality(Members(f)) + Cardinality(Members(g))
               - Cardinality(Members(f) \cap Members(g))
      /\ Cardinality(Members(f) \cap Members(g)) = 0
  BY <1>3, <1>5, FS_Union, FS_EmptySet
<1> QED
  BY <1>2, <1>3, <1>6, <1>7 DEF Total

(* Families whose parts have the same sizes have the same total.           *)
LEMMA SameTotals ==
  ASSUME NEW f, NEW g, Finite(f), Finite(g), DOMAIN g = DOMAIN f,
         \A x \in DOMAIN f : Cardinality(g[x]) = Cardinality(f[x])
  PROVE  Total(g) = Total(f)
<1> DEFINE b == [x \in DOMAIN f |-> CHOOSE m \in Bijection(f[x], g[x]) : TRUE]
           pair == [e \in Members(f) |-> <<e[1], b[e[1]][e[2]]>>]
<1>1. ASSUME NEW x \in DOMAIN f
      PROVE  b[x] \in Bijection(f[x], g[x])
  <2>1. \E m : m \in Bijection(f[x], g[x])
    BY FS_SameCardinalityBij DEF Finite, ExistsBijection
  <2> QED
    BY <2>1
<1> HIDE DEF b
<1>2. \A x \in DOMAIN f : /\ \A y \in f[x] : b[x][y] \in g[x]
                          /\ \A y, z \in f[x] : b[x][y] = b[x][z] => y = z
                          /\ \A z \in g[x] : \E y \in f[x] : b[x][y] = z
  BY <1>1 DEF Bijection, Injection, IsInjective, Surjection
<1>3. pair \in [Members(f) -> Members(g)]
  <2> SUFFICES ASSUME NEW e \in Members(f)
               PROVE  <<e[1], b[e[1]][e[2]]>> \in Members(g)
    OBVIOUS
  <2>1. PICK x \in DOMAIN f : \E y \in f[x] : e = <<x, y>>
    BY MembersOf
  <2> QED
    BY <1>2, <2>1, MembersOf
<1>4. ASSUME NEW d \in Members(f), NEW e \in Members(f), pair[d] = pair[e]
      PROVE  d = e
  <2>1. PICK x \in DOMAIN f : \E y \in f[x] : d = <<x, y>>
    BY MembersOf
  <2>2. PICK w \in DOMAIN f : \E z \in f[w] : e = <<w, z>>
    BY MembersOf
  <2> QED
    BY <1>2, <1>4, <2>1, <2>2
<1>5. ASSUME NEW e \in Members(g)
      PROVE  \E d \in Members(f) : pair[d] = e
  <2>1. PICK x \in DOMAIN f : \E z \in g[x] : e = <<x, z>>
    BY MembersOf
  <2>2. PICK y \in f[x] : e = <<x, b[x][y]>>
    BY <1>2, <2>1
  <2>3. <<x, y>> \in Members(f)
    BY MembersOf
  <2> QED
    BY <2>2, <2>3
<1>6. pair \in Bijection(Members(f), Members(g))
  BY <1>3, <1>4, <1>5, Zenon DEF Bijection, Injection, IsInjective, Surjection
<1>7. ExistsBijection(Members(f), Members(g))
  BY <1>6 DEF ExistsBijection
<1> QED
  BY <1>7, TotalIsNumber, FS_Bijection DEF Total

(* The total of the parts of a set is its size.                            *)
LEMMA TotalOfPartition ==
  ASSUME NEW f, NEW S, IsFiniteSet(S), IsFiniteSet(DOMAIN f),
         \A x \in DOMAIN f : f[x] \subseteq S,
         \A y \in S : \E x \in DOMAIN f : y \in f[x],
         \A x, z \in DOMAIN f : x # z => f[x] \cap f[z] = {}
  PROVE  Finite(f) /\ Total(f) = Cardinality(S)
<1> DEFINE second == [e \in Members(f) |-> e[2]]
<1>1. Finite(f)
  BY FS_Subset DEF Finite
<1>2. second \in [Members(f) -> S]
  BY MembersOf
<1>3. ASSUME NEW d \in Members(f), NEW e \in Members(f), second[d] = second[e]
      PROVE  d = e
  <2>1. PICK x \in DOMAIN f : \E y \in f[x] : d = <<x, y>>
    BY MembersOf
  <2>2. PICK w \in DOMAIN f : \E z \in f[w] : e = <<w, z>>
    BY MembersOf
  <2> QED
    BY <1>3, <2>1, <2>2
<1>4. ASSUME NEW y \in S
      PROVE  \E d \in Members(f) : second[d] = y
  <2>1. PICK x \in DOMAIN f : y \in f[x]
    OBVIOUS
  <2>2. <<x, y>> \in Members(f)
    BY <2>1, MembersOf
  <2> QED
    BY <2>2
<1>5. second \in Bijection(Members(f), S)
  BY <1>2, <1>3, <1>4, Zenon DEF Bijection, Injection, IsInjective, Surjection
<1>6. ExistsBijection(Members(f), S)
  BY <1>5 DEF ExistsBijection
<1> QED
  BY <1>1, <1>6, TotalIsNumber, FS_Bijection DEF Total

-----------------------------------------------------------------------------
(* Streams.                                                                *)

(* The ranks of the members of a set of numbers count them.                *)
LEMMA RanksCount ==
  ASSUME NEW K \in SUBSET Nat, IsFiniteSet(K)
  PROVE  /\ Cardinality(K) \in Nat
         /\ \A i \in K : Rank(K, i) \in 1..Cardinality(K)
         /\ \A i, j \in K : Rank(K, i) = Rank(K, j) => i = j
         /\ \A k \in 1..Cardinality(K) : \E i \in K : Rank(K, i) = k
<1> DEFINE upTo(i) == {j \in K : j <= i}
           n == Cardinality(K)
<1>1. n \in Nat
  BY FS_CardinalityType
<1>2. ASSUME NEW i \in K
      PROVE  /\ IsFiniteSet(upTo(i)) /\ Cardinality(upTo(i)) \in 1..n
             /\ Rank(K, i) = Cardinality(upTo(i))
  <2>1. upTo(i) \in SUBSET K /\ i \in upTo(i)
    OBVIOUS
  <2> HIDE DEF upTo
  <2>2. IsFiniteSet(upTo(i)) /\ Cardinality(upTo(i)) <= n
    BY <2>1, FS_Subset
  <2>3. Cardinality(upTo(i)) \in Nat /\ Cardinality(upTo(i)) # 0
    BY <2>1, <2>2, FS_CardinalityType, FS_EmptySet
  <2>4. Rank(K, i) = Cardinality(upTo(i))
    BY DEF Rank, upTo
  <2> QED
    BY <1>1, <2>2, <2>3, <2>4
<1>3. ASSUME NEW i \in K, NEW j \in K, i < j
      PROVE  Cardinality(upTo(i)) # Cardinality(upTo(j))
  <2>1. upTo(i) \in SUBSET upTo(j) /\ j \in upTo(j) /\ j \notin upTo(i)
    <3>1. i \in Nat /\ j \in Nat /\ \A k \in K : k \in Nat
      OBVIOUS
    <3>2. \A k \in K : k <= i => k <= j
      BY <1>3, <3>1
    <3>3. j \in upTo(j) /\ j \notin upTo(i)
      BY <1>3, <3>1
    <3>4. \A k : k \in upTo(i) => k \in upTo(j)
      BY <3>2
    <3> QED
      BY <3>3, <3>4
  <2>2. IsFiniteSet(upTo(j))
    BY <1>2
  <2> HIDE DEF upTo
  <2> QED
    BY <2>1, <2>2, FS_Subset
<1>4. \A i, j \in K : Rank(K, i) = Rank(K, j) => i = j
  <2> SUFFICES ASSUME NEW i \in K, NEW j \in K, Rank(K, i) = Rank(K, j) PROVE i = j
    OBVIOUS
  <2>1. Cardinality(upTo(i)) = Cardinality(upTo(j))
    BY <1>2
  <2> HIDE DEF upTo
  <2>2. i \in Nat /\ j \in Nat
    OBVIOUS
  <2> QED
    BY <1>3, <2>1, <2>2
<1> HIDE DEF upTo
<1>5. ASSUME NEW k \in 1..n
      PROVE  \E i \in K : Rank(K, i) = k
  <2> DEFINE rank == [i \in K |-> Rank(K, i)]
  <2>1. rank \in [K -> 1..n] /\ \A i, j \in K : rank[i] = rank[j] => i = j
    BY <1>2, <1>4
  <2>2. rank \in Injection(K, 1..n)
    BY <2>1 DEF Injection, IsInjective
  <2>3. IsFiniteSet(1..n) /\ Cardinality(K) = Cardinality(1..n)
    BY <1>1, FS_Interval
  <2> HIDE DEF rank, n
  <2>4. rank \in Surjection(K, 1..n)
    BY <2>2, <2>3, FS_Injection
  <2>5. \E i \in K : rank[i] = k
    BY <2>4 DEF Surjection
  <2> QED
    BY <2>5 DEF rank
<1> QED
  BY <1>1, <1>2, <1>4, <1>5

(* Which positions of a sequence are selected.                             *)
PlacesOf(q, types) == {i \in DOMAIN q : q[i].type \in types}

LEMMA PlacesFinite ==
  ASSUME NEW S, NEW q \in Seq(S), NEW types
  PROVE  /\ PlacesOf(q, types) \in SUBSET Nat /\ IsFiniteSet(PlacesOf(q, types))
         /\ Cardinality(PlacesOf(q, types)) \in Nat
         /\ \A i : i \in PlacesOf(q, types) <=> i \in 1..Len(q) /\ q[i].type \in types
<1>1. Len(q) \in Nat /\ DOMAIN q = 1..Len(q)
  BY SequenceFacts
<1>2. PlacesOf(q, types) \in SUBSET (1..Len(q))
  BY <1>1 DEF PlacesOf
<1>3. IsFiniteSet(1..Len(q))
  BY <1>1, FS_Interval
<1>4. IsFiniteSet(PlacesOf(q, types)) /\ Cardinality(PlacesOf(q, types)) \in Nat
  BY <1>2, <1>3, FS_Subset, FS_CardinalityType
<1> QED
  BY <1>1, <1>2, <1>4 DEF PlacesOf

(* The packet at a position comes at the rank of the position.             *)
LEMMA SelectedAtRank ==
  ASSUME NEW S, NEW q \in Seq(S), NEW types
  PROVE  /\ Selected(q, types) \in Seq(S)
         /\ Len(Selected(q, types)) = Cardinality(PlacesOf(q, types))
         /\ \A i \in PlacesOf(q, types) : Selected(q, types)[Rank(PlacesOf(q, types), i)] = q[i]
<1> DEFINE K == PlacesOf(q, types)
           n == Cardinality(K)
           at(k) == CHOOSE i \in K : Rank(K, i) = k
           r == [k \in 1..n |-> q[at(k)]]
<1>1. Selected(q, types) = r
  BY DEF Selected, PlacesOf
<1>2. K \in SUBSET Nat /\ IsFiniteSet(K) /\ n \in Nat /\ \A i \in K : q[i] \in S
  BY PlacesFinite, SequenceFacts
<1> HIDE DEF K
<1>3. \A k \in 1..n : at(k) \in K /\ Rank(K, at(k)) = k
  BY <1>2, RanksCount
<1>4. ASSUME NEW i \in K
      PROVE  Rank(K, i) \in 1..n /\ at(Rank(K, i)) = i
  <2>1. Rank(K, i) \in 1..n
    BY <1>2, RanksCount
  <2>2. at(Rank(K, i)) \in K /\ Rank(K, at(Rank(K, i))) = Rank(K, i)
    BY <1>3, <2>1
  <2>3. \A a, b \in K : Rank(K, a) = Rank(K, b) => a = b
    BY <1>2, RanksCount
  <2> HIDE DEF at
  <2> QED
    BY <2>1, <2>2, <2>3
<1> HIDE DEF at
<1>5. r \in [1..n -> S]
  BY <1>2, <1>3
<1>6. r \in Seq(S) /\ Len(r) = n
  BY <1>2, <1>5, SeqDef, LenProperties
<1>7. \A i \in K : r[Rank(K, i)] = q[i]
  BY <1>4
<1> HIDE DEF r, n
<1> QED
  BY <1>1, <1>6, <1>7 DEF K, n

(* These facts determine what is selected.                                 *)
LEMMA SelectedIs ==
  ASSUME NEW S, NEW q \in Seq(S), NEW types, NEW r \in Seq(S),
         Len(r) = Cardinality(PlacesOf(q, types)),
         \A i \in PlacesOf(q, types) : r[Rank(PlacesOf(q, types), i)] = q[i]
  PROVE  Selected(q, types) = r
<1> DEFINE K == PlacesOf(q, types)
           n == Cardinality(K)
           p == Selected(q, types)
<1>1. K \in SUBSET Nat /\ IsFiniteSet(K) /\ n \in Nat
  BY PlacesFinite
<1>2. /\ p \in Seq(S) /\ Len(p) = n
      /\ \A i \in K : p[Rank(K, i)] = q[i]
  BY SelectedAtRank
<1> HIDE DEF K, p
<1>3. ASSUME NEW k \in 1..n
      PROVE  p[k] = r[k]
  <2>1. PICK i \in K : Rank(K, i) = k
    BY <1>1, RanksCount
  <2> QED
    BY <1>2, <2>1 DEF K
<1>4. Len(r) = n
  BY DEF K
<1>5. p = r
  BY <1>2, <1>3, <1>4, SeqEqual
<1> QED
  BY <1>5 DEF p

(* A set of numbers up to n, and one of numbers moved beyond n.            *)
LEMMA ShiftedSize ==
  ASSUME NEW n \in Nat, NEW K, IsFiniteSet(K), \A i \in K : i \in 1..n,
         NEW T \in SUBSET Nat, IsFiniteSet(T), 0 \notin T
  PROVE  Cardinality(K \cup {n + j : j \in T}) = Cardinality(K) + Cardinality(T)
<1> DEFINE U == {n + j : j \in T}
           shift == [j \in T |-> n + j]
<1>1. /\ shift \in [T -> U]
      /\ \A j, k \in T : shift[j] = shift[k] => j = k
      /\ \A z \in U : \E j \in T : shift[j] = z
  <2>1. \A j, k \in T : n + j = n + k => j = k
    OBVIOUS
  <2> QED
    BY <2>1
<1>2. K \cap U = {}
  <2>1. \A i \in K : i <= n /\ i \in Nat
    OBVIOUS
  <2>2. \A j \in T : j \in Nat /\ j # 0
    OBVIOUS
  <2>3. \A j \in T : ~(n + j <= n)
    BY <2>2
  <2> QED
    BY <2>1, <2>3
<1> HIDE DEF shift, U
<1>3. IsFiniteSet(U) /\ Cardinality(U) = Cardinality(T)
  BY <1>1, SameSize
<1>4. Cardinality(K \cap U) = 0
  BY <1>2, FS_EmptySet
<1>5. Cardinality(K \cup U) = Cardinality(K) + Cardinality(U) - Cardinality(K \cap U)
  BY <1>3, FS_Union
<1>6. Cardinality(K) \in Nat /\ Cardinality(U) \in Nat
  BY <1>3, FS_CardinalityType
<1> QED
  BY <1>3, <1>4, <1>5, <1>6 DEF U

(* Of two sequences one after the other, the selected ones of the first    *)
(* come before those of the second.                                        *)
LEMMA SelectedOfConcat ==
  ASSUME NEW S, NEW q \in Seq(S), NEW p \in Seq(S), NEW types
  PROVE  Selected(q \o p, types) = Selected(q, types) \o Selected(p, types)
<1> DEFINE K == PlacesOf(q, types)
           L == PlacesOf(p, types)
           o == q \o p
           M == PlacesOf(o, types)
           n == Len(q)
           r == Selected(q, types)
           t == Selected(p, types)
<1>1. /\ n \in Nat /\ Len(p) \in Nat /\ o \in Seq(S) /\ Len(o) = n + Len(p)
      /\ \A i \in 1..n : o[i] = q[i]
      /\ \A j \in 1..Len(p) : o[n + j] = p[j]
  <2>1. n \in Nat /\ Len(p) \in Nat
    BY SequenceFacts
  <2>2. /\ o \in Seq(S) /\ Len(o) = n + Len(p)
        /\ \A i \in 1..(n + Len(p)) : o[i] = IF i <= n THEN q[i] ELSE p[i - n]
    BY ConcatProperties
  <2>3. ASSUME NEW j \in 1..Len(p)
        PROVE  o[n + j] = p[j]
    <3>1. n + j \in 1..(n + Len(p)) /\ ~(n + j <= n) /\ (n + j) - n = j
      BY <2>1
    <3> QED
      BY <2>2, <3>1
  <2> QED
    BY <2>1, <2>2, <2>3
<1>2. /\ K \in SUBSET Nat /\ IsFiniteSet(K) /\ Cardinality(K) \in Nat
      /\ \A i : i \in K <=> i \in 1..n /\ q[i].type \in types
      /\ L \in SUBSET Nat /\ IsFiniteSet(L) /\ Cardinality(L) \in Nat
      /\ \A j : j \in L <=> j \in 1..Len(p) /\ p[j].type \in types
  BY PlacesFinite
<1>3. /\ M \in SUBSET Nat /\ IsFiniteSet(M)
      /\ \A i : i \in M <=> i \in 1..(n + Len(p)) /\ o[i].type \in types
  <2>1. o \in Seq(S) /\ Len(o) = n + Len(p)
    BY <1>1
  <2> HIDE DEF o, n
  <2>2. /\ PlacesOf(o, types) \in SUBSET Nat /\ IsFiniteSet(PlacesOf(o, types))
        /\ \A i : i \in PlacesOf(o, types) <=> i \in 1..Len(o) /\ o[i].type \in types
    BY <2>1, PlacesFinite
  <2> QED
    BY <2>1, <2>2
<1> HIDE DEF K, L, M, n, o
<1>4. \A i : i \in M <=> i \in K \/ \E j \in L : i = n + j
  <2>1. ASSUME NEW i, i \in M
        PROVE  i \in K \/ \E j \in L : i = n + j
    <3>1. i \in 1..(n + Len(p)) /\ o[i].type \in types
      BY <1>3, <2>1
    <3>2. CASE i <= n
      <4>1. i \in 1..n
        BY <1>1, <3>1, <3>2
      <4>2. q[i].type \in types
        BY <1>1, <3>1, <4>1
      <4> QED
        BY <1>2, <4>1, <4>2
    <3>3. CASE ~(i <= n)
      <4>1. i - n \in 1..Len(p) /\ n + (i - n) = i
        BY <1>1, <3>1, <3>3
      <4>2. p[i - n].type \in types
        BY <1>1, <3>1, <4>1
      <4> QED
        BY <1>2, <4>1, <4>2
    <3> QED
      BY <3>2, <3>3
  <2>2. ASSUME NEW i, i \in K
        PROVE  i \in M
    BY <1>1, <1>2, <1>3, <2>2
  <2>3. ASSUME NEW j \in L
        PROVE  n + j \in M
    <3>1. j \in 1..Len(p) /\ o[n + j].type \in types
      BY <1>1, <1>2, <2>3
    <3>2. n + j \in 1..(n + Len(p))
      BY <1>1, <3>1
    <3> QED
      BY <1>3, <3>1, <3>2
  <2>4. ASSUME NEW i, NEW j \in L, i = n + j
        PROVE  i \in M
    BY <2>3, <2>4
  <2> QED
    BY <2>1, <2>2, <2>4
<1>5. \A i \in K : i \in 1..n
  BY <1>2
<1>6. ASSUME NEW T \in SUBSET L
      PROVE  /\ IsFiniteSet(T)
             /\ Cardinality(K \cup {n + j : j \in T}) = Cardinality(K) + Cardinality(T)
  <2>1. IsFiniteSet(T)
    BY <1>2, FS_Subset
  <2>2. T \in SUBSET Nat /\ 0 \notin T
    BY <1>2
  <2> QED
    BY <1>1, <1>2, <1>5, <2>1, <2>2, ShiftedSize
<1>7. M = K \cup {n + j : j \in L}
  BY <1>4
<1>8. ASSUME NEW i \in K
      PROVE  Rank(M, i) = Rank(K, i)
  <2>1. ASSUME NEW j \in M, j <= i
        PROVE  j \in K
    BY <1>1, <1>2, <1>4, <1>5, <2>1
  <2>2. {j \in M : j <= i} = {j \in K : j <= i}
    BY <1>4, <2>1
  <2> QED
    BY <2>2 DEF Rank
<1>9. ASSUME NEW j \in L
      PROVE  Rank(M, n + j) = Cardinality(K) + Rank(L, j)
  <2> DEFINE T == {l \in L : l <= j}
             U == {i \in M : i <= n + j}
  <2>1. \A i : i \in U <=> i \in K \/ \E l \in T : i = n + l
    <3>1. ASSUME NEW i \in K PROVE i \in U
      BY <1>1, <1>2, <1>4, <1>5, <3>1
    <3>2. ASSUME NEW l \in L PROVE n + l <= n + j <=> l <= j
      BY <1>1, <1>2, <3>2
    <3>3. ASSUME NEW i, NEW l \in T, i = n + l PROVE i \in U
      BY <1>4, <3>2, <3>3
    <3>4. ASSUME NEW i \in U PROVE i \in K \/ \E l \in T : i = n + l
      <4>1. CASE i \in K
        BY <4>1
      <4>2. CASE i \notin K
        <5>1. PICK l \in L : i = n + l
          BY <1>4, <4>2
        <5>2. l \in T
          BY <3>2, <5>1
        <5> QED
          BY <5>1, <5>2
      <4> QED
        BY <4>1, <4>2
    <3> QED
      BY <3>1, <3>3, <3>4
  <2> HIDE DEF T, U
  <2>2. U = K \cup {n + l : l \in T}
    BY <2>1
  <2>3. Rank(M, n + j) = Cardinality(U) /\ Rank(L, j) = Cardinality(T)
    BY DEF Rank, T, U
  <2>4. T \in SUBSET L
    BY DEF T
  <2> QED
    BY <1>6, <2>2, <2>3, <2>4
<1>10. Cardinality(M) = Cardinality(K) + Cardinality(L)
  BY <1>6, <1>7
<1>11. /\ r \in Seq(S) /\ Len(r) = Cardinality(K)
       /\ \A i \in K : r[Rank(K, i)] = q[i]
       /\ t \in Seq(S) /\ Len(t) = Cardinality(L)
       /\ \A j \in L : t[Rank(L, j)] = p[j]
  BY SelectedAtRank DEF K, L
<1>12. /\ \A i \in K : Rank(K, i) \in 1..Cardinality(K)
       /\ \A j \in L : Rank(L, j) \in 1..Cardinality(L)
  BY <1>2, RanksCount
<1> HIDE DEF r, t
<1>13. /\ r \o t \in Seq(S) /\ Len(r \o t) = Cardinality(M)
       /\ \A k \in 1..(Len(r) + Len(t)) :
            (r \o t)[k] = IF k <= Len(r) THEN r[k] ELSE t[k - Len(r)]
  BY <1>10, <1>11, ConcatProperties
<1>14. ASSUME NEW i \in M
       PROVE  (r \o t)[Rank(M, i)] = o[i]
  <2>1. CASE i \in K
    <3>1. Rank(M, i) \in 1..(Len(r) + Len(t)) /\ Rank(M, i) <= Len(r)
      BY <1>2, <1>8, <1>11, <1>12, <2>1
    <3>2. (r \o t)[Rank(M, i)] = r[Rank(K, i)]
      BY <1>8, <1>13, <2>1, <3>1
    <3> QED
      BY <1>1, <1>5, <1>11, <2>1, <3>2
  <2>2. CASE i \notin K
    <3>1. PICK j \in L : i = n + j
      BY <1>4, <2>2
    <3>2. /\ Rank(M, i) \in 1..(Len(r) + Len(t)) /\ ~(Rank(M, i) <= Len(r))
          /\ Rank(M, i) - Len(r) = Rank(L, j)
      BY <1>2, <1>9, <1>11, <1>12, <3>1
    <3>3. (r \o t)[Rank(M, i)] = t[Rank(L, j)]
      BY <1>13, <3>2
    <3>4. o[i] = p[j]
      BY <1>1, <1>2, <3>1
    <3> QED
      BY <1>11, <3>3, <3>4
  <2> QED
    BY <2>1, <2>2
<1> DEFINE u == r \o t
<1>15. /\ o \in Seq(S) /\ u \in Seq(S) /\ Len(u) = Cardinality(PlacesOf(o, types))
       /\ \A i \in PlacesOf(o, types) : u[Rank(PlacesOf(o, types), i)] = o[i]
  BY <1>1, <1>13, <1>14 DEF M
<1> HIDE DEF u
<1>16. Selected(o, types) = u
  BY <1>15, SelectedIs
<1> QED
  BY <1>16 DEF o, u, r, t

(* All, or none.                                                           *)
LEMMA SelectedAll ==
  ASSUME NEW S, NEW q \in Seq(S), NEW types, \A i \in 1..Len(q) : q[i].type \in types
  PROVE  Selected(q, types) = q
<1> DEFINE K == PlacesOf(q, types)
           n == Len(q)
<1>1. n \in Nat /\ K = 1..n
  BY PlacesFinite, SequenceFacts
<1> HIDE DEF K, n
<1>2. Cardinality(K) = n
  BY <1>1, FS_Interval
<1>3. ASSUME NEW i \in K
      PROVE  Rank(K, i) = i
  <2>1. {j \in K : j <= i} = 1..i
    BY <1>1
  <2>2. i \in Nat \ {0}
    BY <1>1
  <2>3. Cardinality(1..i) = i
    BY <2>2, FS_Interval
  <2> QED
    BY <2>1, <2>3 DEF Rank
<1> QED
  BY <1>2, <1>3, SelectedIs DEF K, n

LEMMA SelectedNone ==
  ASSUME NEW S, NEW q \in Seq(S), NEW types, \A i \in 1..Len(q) : q[i].type \notin types
  PROVE  Selected(q, types) = <<>>
<1>1. PlacesOf(q, types) = {}
  BY PlacesFinite
<1>2. Len(Selected(q, types)) = 0 /\ Selected(q, types) \in Seq(S)
  BY <1>1, SelectedAtRank, FS_EmptySet
<1> QED
  BY <1>2, EmptySeq

-----------------------------------------------------------------------------
(* Recursion along a sequence: what the rule makes of base with the        *)
(* elements of q, one after the other, exists and is always in S.          *)
Iterates(f, q, base, step) ==
  \A k \in 0..Len(q) : f[k] = IF k = 0 THEN base ELSE step[f[k - 1]][q[k]]

LEMMA IterationExists ==
  ASSUME NEW S, NEW T, NEW q \in Seq(T), NEW base \in S, NEW step \in [S -> [T -> S]]
  PROVE  \E f \in [0..Len(q) -> S] : Iterates(f, q, base, step)
<1> DEFINE n == Len(q)
           good(f, m) == /\ f \in [0..m -> S]
                         /\ \A k \in 0..m : f[k] = IF k = 0 THEN base ELSE step[f[k - 1]][q[k]]
<1>1. n \in Nat /\ \A k \in 1..n : q[k] \in T
  BY SequenceFacts
<1> HIDE DEF n
<1>2. \A m \in 0..n : \E f : good(f, m)
  <2> DEFINE bad == {m \in 0..n : ~\E f : good(f, m)}
  <2> SUFFICES ASSUME bad # {} PROVE FALSE
    OBVIOUS
  <2>1. bad \in SUBSET Nat
    BY <1>1
  <2>2. PICK m \in bad : \A k \in bad : m <= k
    BY <2>1, LeastNumber
  <2>3. m # 0
    <3>1. good([k \in 0..0 |-> base], 0)
      OBVIOUS
    <3> QED
      BY <3>1
  <2>4. PICK f : good(f, m - 1)
    <3>1. m - 1 \in 0..n /\ ~(m <= m - 1)
      BY <1>1, <2>3
    <3> HIDE DEF good
    <3> QED
      BY <2>2, <3>1
  <2>5. m \in 1..n /\ q[m] \in T /\ m - 1 \in 0..(m - 1)
    BY <1>1, <2>3
  <2> DEFINE last == step[f[m - 1]][q[m]]
             g == [k \in 0..m |-> IF k < m THEN f[k] ELSE last]
  <2>6. f[m - 1] \in S
    BY <2>4, <2>5
  <2>7. last \in S
    BY <2>5, <2>6
  <2> HIDE DEF last
  <2>8. g \in [0..m -> S]
    BY <2>4, <2>5, <2>7
  <2>9. ASSUME NEW k \in 0..m
        PROVE  g[k] = IF k = 0 THEN base ELSE step[g[k - 1]][q[k]]
    <3>1. CASE k = m
      BY <2>5, <3>1 DEF last
    <3>2. CASE k # m
      <4>1. k \in 0..(m - 1) /\ (k = 0 \/ k - 1 \in 0..(m - 1))
        BY <2>5, <3>2
      <4>2. g[k] = f[k] /\ (k = 0 \/ g[k - 1] = f[k - 1])
        BY <2>5, <4>1
      <4> QED
        BY <2>4, <4>1, <4>2
    <3> QED
      BY <3>1, <3>2
  <2>10. good(g, m)
    BY <2>8, <2>9
  <2> QED
    BY <2>10
<1>3. n \in 0..n
  BY <1>1
<1>4. PICK f : good(f, n)
  BY <1>2, <1>3
<1> QED
  BY <1>4 DEF n, Iterates

LEMMA IterationType ==
  ASSUME NEW S, NEW n \in Nat, NEW f, f[0] \in S,
         \A k \in 1..n : f[k - 1] \in S => f[k] \in S
  PROVE  f[n] \in S
<1> DEFINE bad == {k \in 0..n : f[k] \notin S}
<1> SUFFICES ASSUME bad # {} PROVE FALSE
  OBVIOUS
<1>1. bad \in SUBSET Nat
  OBVIOUS
<1>2. PICK m \in bad : \A k \in bad : m <= k
  BY <1>1, LeastNumber
<1>3. m \in 1..n /\ m - 1 \in 0..n /\ ~(m <= m - 1)
  BY <1>2
<1>4. f[m - 1] \in S
  BY <1>2, <1>3
<1> QED
  BY <1>2, <1>3, <1>4

=============================================================================
