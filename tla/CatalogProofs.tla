--------------------------- MODULE CatalogProofs ----------------------------
(***************************************************************************)
(* What the catalogue of a build is, for every sequence of records: facts  *)
(* about sorting by rank, about the two halves that the quality boundary   *)
(* leaves, and about the rows that are made of records.                    *)
(***************************************************************************)
EXTENDS Catalog, FiniteSetTheorems, SequenceTheorems, TLAPS

Keyed(S, key) ==
  /\ key \in [S -> Int]
  /\ \A x, y \in S : key[x] = key[y] => x = y

Rank(S, key, x) == Cardinality({y \in S : key[y] <= key[x]})

-----------------------------------------------------------------------------
(* Sorting by rank. *)

LEMMA RankBounds ==
  ASSUME NEW S, IsFiniteSet(S), NEW key, Keyed(S, key), NEW x \in S
  PROVE  Rank(S, key, x) \in 1 .. Cardinality(S)
<1> DEFINE below == {y \in S : key[y] <= key[x]}
<1>1. IsFiniteSet(below) /\ Cardinality(below) <= Cardinality(S)
  BY FS_Subset
<1>2. x \in below
  BY DEF Keyed
<1>3. Cardinality(below) # 0
  BY <1>1, <1>2, FS_EmptySet
<1>4. Cardinality(below) \in Nat /\ Cardinality(S) \in Nat
  BY <1>1, FS_CardinalityType
<1>5. QED  BY <1>1, <1>3, <1>4 DEF Rank

\* A greater key has a greater rank.
LEMMA RankIncreases ==
  ASSUME NEW S, IsFiniteSet(S), NEW key, Keyed(S, key), NEW x \in S, NEW y \in S, key[x] < key[y]
  PROVE  Rank(S, key, x) < Rank(S, key, y)
<1> DEFINE X == {z \in S : key[z] <= key[x]}
           Y == {z \in S : key[z] <= key[y]}
<1>1. IsFiniteSet(Y)
  BY FS_Subset
<1>2. X \subseteq Y /\ y \in Y /\ y \notin X
  BY DEF Keyed
<1>3. Cardinality(X) <= Cardinality(Y) /\ Cardinality(X) # Cardinality(Y) /\ IsFiniteSet(X)
  BY <1>1, <1>2, FS_Subset
<1>4. Cardinality(X) \in Nat /\ Cardinality(Y) \in Nat
  BY <1>1, <1>3, FS_CardinalityType
<1>5. QED  BY <1>3, <1>4 DEF Rank

\* Every place is the rank of one element.
LEMMA RankIsBijective ==
  ASSUME NEW S, IsFiniteSet(S), NEW key, Keyed(S, key), NEW k \in 1 .. Cardinality(S)
  PROVE  \E x \in S : Rank(S, key, x) = k
<1> DEFINE T == 1 .. Cardinality(S)
           rank == [x \in S |-> Rank(S, key, x)]
<1>1. rank \in [S -> T]
  BY RankBounds
<1>2. \A x, y \in S : rank[x] = rank[y] => x = y
  <2>1. SUFFICES ASSUME NEW x \in S, NEW y \in S, x # y PROVE rank[x] # rank[y]
    OBVIOUS
  <2>2. key[x] \in Int /\ key[y] \in Int /\ key[x] # key[y]
    BY <2>1 DEF Keyed
  <2>3. rank[x] \in Int /\ rank[y] \in Int
    BY <1>1
  <2>4. key[x] < key[y] \/ key[y] < key[x]
    BY <2>2
  <2>5. QED  BY <2>3, <2>4, RankIncreases
<1>3. rank \in Injection(S, T)
  BY <1>1, <1>2 DEF Injection, IsInjective
<1>4. Cardinality(S) \in Nat /\ IsFiniteSet(T) /\ Cardinality(T) = Cardinality(S)
  BY FS_CardinalityType, FS_Interval
<1>5. rank \in Surjection(S, T)
  BY <1>3, <1>4, FS_Injection
<1>6. QED  BY <1>5 DEF Surjection

\* The sorted sequence holds the elements of the set, each once, by increasing keys.
LEMMA SortedFacts ==
  ASSUME NEW S, IsFiniteSet(S), NEW key, Keyed(S, key)
  PROVE  /\ Sorted(S, key) \in Seq(S) /\ Len(Sorted(S, key)) = Cardinality(S)
         /\ ToSet(Sorted(S, key)) = S
         /\ \A i, j \in 1 .. Len(Sorted(S, key)) :
              i < j => key[Sorted(S, key)[i]] < key[Sorted(S, key)[j]]
<1> DEFINE n == Cardinality(S)
           s == Sorted(S, key)
<1>0. s = [k \in 1 .. n |-> CHOOSE x \in S : Rank(S, key, x) = k]
  BY Zenon DEF Sorted, Rank
<1>1. n \in Nat
  BY FS_CardinalityType
<1>2. DOMAIN s = 1 .. n /\ s = [k \in 1 .. n |-> s[k]]
  BY <1>0
<1>3. \A k \in 1 .. n : s[k] \in S /\ Rank(S, key, s[k]) = k
  BY <1>0, RankIsBijective
<1>4. s \in Seq(S) /\ Len(s) = n
  <2>1. s \in [1 .. n -> S]
    BY <1>2, <1>3
  <2>2. QED  BY <1>1, <2>1
<1>5. \A i, j \in 1 .. n : i < j => key[s[i]] < key[s[j]]
  <2>1. SUFFICES ASSUME NEW i \in 1 .. n, NEW j \in 1 .. n, i < j, ~(key[s[i]] < key[s[j]])
                 PROVE  FALSE
    OBVIOUS
  <2>2. key[s[i]] \in Int /\ key[s[j]] \in Int
    BY <1>3 DEF Keyed
  <2>3. CASE key[s[j]] = key[s[i]]
    <3>1. s[j] = s[i]
      BY <1>3, <2>3 DEF Keyed
    <3>2. QED  BY <1>3, <2>1, <3>1
  <2>4. CASE key[s[j]] < key[s[i]]
    <3>1. Rank(S, key, s[j]) < Rank(S, key, s[i])
      BY <1>3, <2>4, RankIncreases
    <3>2. QED  BY <1>1, <1>3, <2>1, <3>1
  <2>5. QED  BY <2>1, <2>2, <2>3, <2>4
<1>6. ToSet(s) = S
  <2>1. ToSet(s) = {s[k] : k \in 1 .. n}
    BY <1>2 DEF ToSet
  <2>2. ASSUME NEW x \in S PROVE \E k \in 1 .. n : s[k] = x
    <3>1. Rank(S, key, x) \in 1 .. n
      BY RankBounds
    <3> DEFINE y == s[Rank(S, key, x)]
    <3>2. y \in S /\ Rank(S, key, y) = Rank(S, key, x)
      BY <1>3, <3>1
    <3>3. Rank(S, key, x) \in Int
      BY <1>1, <3>1
    <3>4. ~(key[x] < key[y]) /\ ~(key[y] < key[x])
      <4>1. key[x] < key[y] => Rank(S, key, x) < Rank(S, key, y)
        BY <3>2, RankIncreases
      <4>2. key[y] < key[x] => Rank(S, key, y) < Rank(S, key, x)
        BY <3>2, RankIncreases
      <4>3. QED  BY <3>2, <3>3, <4>1, <4>2
    <3>5. key[x] = key[y]
      BY <3>2, <3>4 DEF Keyed
    <3>6. QED  BY <3>1, <3>2, <3>5 DEF Keyed
  <2>3. QED  BY <1>3, <2>1, <2>2
<1>7. QED  BY <1>4, <1>5, <1>6

LEMMA AscendingFacts ==
  ASSUME NEW S, IsFiniteSet(S), S \subseteq Int
  PROVE  /\ Ascending(S) \in Seq(S) /\ Len(Ascending(S)) = Cardinality(S)
         /\ ToSet(Ascending(S)) = S
         /\ \A i, j \in 1 .. Len(Ascending(S)) : i < j => Ascending(S)[i] < Ascending(S)[j]
<1> DEFINE key == [x \in S |-> x]
<1>1. Keyed(S, key) /\ \A x \in S : key[x] = x
  BY DEF Keyed
<1>2. Ascending(S) = Sorted(S, key)
  BY Zenon DEF Ascending
<1> HIDE DEF key
<1>3. /\ Ascending(S) \in Seq(S) /\ Len(Ascending(S)) = Cardinality(S) /\ ToSet(Ascending(S)) = S
      /\ \A i, j \in 1 .. Len(Ascending(S)) : i < j => key[Ascending(S)[i]] < key[Ascending(S)[j]]
  BY <1>1, <1>2, SortedFacts
<1>4. \A i \in 1 .. Len(Ascending(S)) : Ascending(S)[i] \in S
  BY <1>3
<1>5. QED  BY <1>1, <1>3, <1>4

LEMMA ElementsOfSequence ==
  ASSUME NEW R, NEW s \in Seq(R)
  PROVE  /\ DOMAIN s = 1 .. Len(s) /\ Len(s) \in Nat
         /\ ToSet(s) \subseteq R /\ s \in Seq(ToSet(s))
         /\ ToSet(s) = {s[i] : i \in 1 .. Len(s)}
<1>1. DOMAIN s = 1 .. Len(s) /\ Len(s) \in Nat /\ s = [i \in 1 .. Len(s) |-> s[i]]
  OBVIOUS
<1>2. \A i \in 1 .. Len(s) : s[i] \in ToSet(s) /\ s[i] \in R
  BY <1>1 DEF ToSet
<1>3. ToSet(s) \subseteq R
  BY <1>1, <1>2 DEF ToSet
<1>4. s \in [1 .. Len(s) -> ToSet(s)]
  BY <1>1, <1>2
<1>5. QED  BY <1>1, <1>3, <1>4 DEF ToSet

\* A finite set of integers has a least element.
LEMMA LeastMember ==
  ASSUME NEW S, IsFiniteSet(S), S \subseteq Int, S # {}
  PROVE  \E x \in S : \A y \in S : x <= y
<1> DEFINE s == Ascending(S)
<1>1. /\ s \in Seq(S) /\ ToSet(s) = S
      /\ \A i, j \in 1 .. Len(s) : i < j => s[i] < s[j]
  BY AscendingFacts
<1> HIDE DEF s
<1>2. Len(s) \in Nat /\ DOMAIN s = 1 .. Len(s) /\ \A i \in 1 .. Len(s) : s[i] \in S
  BY <1>1
<1>3. Len(s) # 0
  BY <1>1, <1>2 DEF ToSet
<1>4. \A y \in S : s[1] <= y
  <2>1. SUFFICES ASSUME NEW i \in 1 .. Len(s) PROVE s[1] <= s[i]
    BY <1>1, <1>2 DEF ToSet
  <2>2. 1 \in 1 .. Len(s) /\ s[1] \in S /\ s[i] \in S
    <3>1. 1 \in 1 .. Len(s)
      BY <1>2, <1>3
    <3>2. QED  BY <1>2, <3>1
  <2> DEFINE x == s[1]
             y == s[i]
  <2>6. x \in Int /\ y \in Int
    BY <2>2
  <2> HIDE DEF x, y
  <2>3. CASE i = 1
    BY <2>6, <2>3 DEF x, y
  <2>4. CASE i # 1
    <3>1. 1 < i
      BY <1>2, <2>4
    <3>2. s[1] < s[i]
      BY <1>1, <2>2, <3>1
    <3>3. QED  BY <2>6, <3>2 DEF x, y
  <2>5. QED  BY <2>3, <2>4
<1>5. 1 \in 1 .. Len(s)
  BY <1>2, <1>3
<1>6. QED  BY <1>2, <1>4, <1>5

\* The image of a finite set, and of one by an injective function.
LEMMA Image ==
  ASSUME NEW S, IsFiniteSet(S), NEW f, DOMAIN f = S, f = [x \in S |-> f[x]]
  PROVE  /\ IsFiniteSet({f[x] : x \in S})
         /\ (\A x, y \in S : f[x] = f[y] => x = y) => Cardinality({f[x] : x \in S}) = Cardinality(S)
<1> DEFINE T == {f[x] : x \in S}
<1>1. f \in [S -> T]
  OBVIOUS
<1>2. f \in Surjection(S, T)
  BY <1>1 DEF Surjection
<1>3. IsFiniteSet(T) /\ (Cardinality(T) = Cardinality(S) <=> f \in Injection(S, T))
  BY <1>2, FS_Surjection
<1>4. (\A x, y \in S : f[x] = f[y] => x = y) => f \in Injection(S, T)
  BY <1>1 DEF Injection, IsInjective
<1>5. QED  BY <1>3, <1>4

-----------------------------------------------------------------------------
(* The two halves of an input. *)

\* A sequence t has the elements of s at the places P, each once and in their order;
\* at tells which.
Selects(s, P, t, at) ==
  /\ at \in [1 .. Len(t) -> P]
  /\ \A k \in 1 .. Len(t) : t[k] = s[at[k]]
  /\ \A i, j \in 1 .. Len(t) : at[i] = at[j] => i = j
  /\ \A i, j \in 1 .. Len(t) : i < j => at[i] < at[j]
  /\ \A p \in P : \E k \in 1 .. Len(t) : at[k] = p

LEMMA SubsequenceFacts ==
  ASSUME NEW R, NEW s \in Seq(R), NEW P, P \subseteq DOMAIN s
  PROVE  /\ Subsequence(s, P) \in Seq(R) /\ Len(Subsequence(s, P)) = Cardinality(P)
         /\ \E at : Selects(s, P, Subsequence(s, P), at)
<1> DEFINE at == Ascending(P)
           n == Cardinality(P)
<1>1. DOMAIN s = 1 .. Len(s) /\ Len(s) \in Nat
  OBVIOUS
<1>2. P \subseteq Int /\ IsFiniteSet(P)
  <2>1. IsFiniteSet(1 .. Len(s)) /\ P \in SUBSET (1 .. Len(s))
    BY <1>1, FS_Interval
  <2>2. QED  BY <1>1, <2>1, FS_Subset
<1>3. /\ at \in Seq(P) /\ Len(at) = n /\ ToSet(at) = P
      /\ \A i, j \in 1 .. Len(at) : i < j => at[i] < at[j]
  BY <1>2, AscendingFacts
<1>4. n \in Nat
  BY <1>2, FS_CardinalityType
<1>5. Subsequence(s, P) = [k \in DOMAIN at |-> s[at[k]]]
  BY DEF Subsequence
<1> HIDE DEF at, n
<1>6. at \in [1 .. n -> P] /\ DOMAIN at = 1 .. n
  BY <1>3
<1>7. \A k \in 1 .. n : s[at[k]] \in R
  BY <1>1, <1>6
<1>8. Subsequence(s, P) \in [1 .. n -> R]
  BY <1>5, <1>6, <1>7
<1>9. Subsequence(s, P) \in Seq(R) /\ Len(Subsequence(s, P)) = n
  BY <1>4, <1>8
<1>10. \A i, j \in 1 .. n : at[i] = at[j] => i = j
  <2>1. SUFFICES ASSUME NEW i \in 1 .. n, NEW j \in 1 .. n, at[i] = at[j], i < j PROVE FALSE
    BY <1>4
  <2>2. at[i] \in Int /\ at[i] < at[j]
    BY <1>2, <1>3, <1>6, <2>1
  <2>3. QED  BY <2>1, <2>2
<1>11. \A p \in P : \E k \in 1 .. n : at[k] = p
  BY <1>3, <1>6 DEF ToSet
<1>12. Selects(s, P, Subsequence(s, P), at)
  BY <1>3, <1>5, <1>6, <1>9, <1>10, <1>11 DEF Selects
<1>13. QED  BY <1>9, <1>12 DEF n

\* The quality boundary splits an input: every record is in one half, and the halves
\* share a locator only where the input has it twice.
LEMMA PartitionFacts ==
  ASSUME NEW loaded, Loadable(loaded)
  PROVE  /\ Loadable(Accepted(loaded))
         /\ Locators(loaded) = Locators(Accepted(loaded)) \cup Locators(Rejections(loaded))
         /\ \A i \in DOMAIN Accepted(loaded) : Accepted(loaded)[i].fate # "unusable"
         /\ Distinct(loaded) <=>
              /\ Distinct(Accepted(loaded)) /\ Distinct(Rejections(loaded))
              /\ Locators(Accepted(loaded)) \cap Locators(Rejections(loaded)) = {}
         /\ (\A i \in DOMAIN loaded : loaded[i].fate # "broken") <=>
              \A i \in DOMAIN Accepted(loaded) : Accepted(loaded)[i].fate # "broken"
<1> DEFINE R == ToSet(loaded)
           P == {i \in DOMAIN loaded : loaded[i].fate # "unusable"}
           Q == {i \in DOMAIN loaded : loaded[i].fate = "unusable"}
           A == Accepted(loaded)
           J == Rejections(loaded)
<1>1. loaded \in Seq(R) /\ P \subseteq DOMAIN loaded /\ Q \subseteq DOMAIN loaded
  BY DEF Loadable
<1>2. A = Subsequence(loaded, P) /\ J = Subsequence(loaded, Q)
  BY DEF Accepted, Rejections
<1> HIDE DEF R, P, Q, A, J
<1>3. A \in Seq(R) /\ \E at : Selects(loaded, P, A, at)
  BY <1>1, <1>2, SubsequenceFacts
<1>4. J \in Seq(R) /\ \E at : Selects(loaded, Q, J, at)
  BY <1>1, <1>2, SubsequenceFacts
<1> DEFINE m == Len(A)
           n == Len(J)
<1>20. PICK a : Selects(loaded, P, A, a)
  BY <1>3
<1>21. PICK b : Selects(loaded, Q, J, b)
  BY <1>4
<1>22. /\ a \in [1 .. m -> P]
       /\ \A k \in 1 .. m : A[k] = loaded[a[k]]
       /\ \A i, j \in 1 .. m : a[i] = a[j] => i = j
       /\ \A p \in P : \E k \in 1 .. m : a[k] = p
  BY <1>20 DEF Selects
<1>23. /\ b \in [1 .. n -> Q]
       /\ \A k \in 1 .. n : J[k] = loaded[b[k]]
       /\ \A i, j \in 1 .. n : b[i] = b[j] => i = j
       /\ \A p \in Q : \E k \in 1 .. n : b[k] = p
  BY <1>21 DEF Selects
<1>5. DOMAIN A = 1 .. m /\ DOMAIN J = 1 .. n
  BY <1>3, <1>4
<1>6. DOMAIN loaded = P \cup Q /\ P \cap Q = {}
  BY DEF P, Q
<1> DEFINE D == DOMAIN loaded
<1>7. /\ \A i \in P : loaded[i].fate # "unusable"
      /\ \A i \in Q : loaded[i].fate = "unusable"
  BY DEF P, Q
<1>8. /\ \A i \in D : loaded[i].fate \in Fates /\ loaded[i].locator \in Int /\ loaded[i].id \in Int
      /\ \A i, j \in D : loaded[i].canonical = loaded[j].canonical => loaded[i].id = loaded[j].id
  BY DEF Loadable
<1> HIDE DEF D, m, n
<1>9. \A k \in 1 .. m : a[k] \in P /\ a[k] \in D
  BY <1>6, <1>22 DEF D
<1>10. \A k \in 1 .. n : b[k] \in Q /\ b[k] \in D
  BY <1>6, <1>23 DEF D
<1>11. Loadable(A)
  <2>1. A \in Seq(ToSet(A))
    BY <1>3, ElementsOfSequence
  <2>2. \A i \in 1 .. m : A[i].fate \in Fates /\ A[i].locator \in Int /\ A[i].id \in Int
    BY <1>22, <1>8, <1>9
  <2>3. \A i, j \in 1 .. m : A[i].canonical = A[j].canonical => A[i].id = A[j].id
    BY <1>22, <1>8, <1>9
  <2>4. QED  BY <1>5, <2>1, <2>2, <2>3 DEF Loadable
<1>12. Locators(loaded) = Locators(A) \cup Locators(J)
  <2>1. Locators(loaded) = {loaded[i].locator : i \in P} \cup {loaded[i].locator : i \in Q}
    BY <1>6 DEF Locators
  <2>2. Locators(A) = {loaded[i].locator : i \in P}
    BY <1>22, <1>5, <1>9 DEF Locators
  <2>3. Locators(J) = {loaded[i].locator : i \in Q}
    BY <1>23, <1>5, <1>10 DEF Locators
  <2>4. QED  BY <2>1, <2>2, <2>3
<1>13. \A i \in DOMAIN A : A[i].fate # "unusable"
  BY <1>22, <1>5, <1>7, <1>9
<1>14. Distinct(loaded) => Distinct(A) /\ Distinct(J) /\ Locators(A) \cap Locators(J) = {}
  <2>1. SUFFICES ASSUME \A i, j \in D : loaded[i].locator = loaded[j].locator => i = j
                 PROVE  Distinct(A) /\ Distinct(J) /\ Locators(A) \cap Locators(J) = {}
    BY DEF Distinct, D
  <2>2. Distinct(A)
    BY <2>1, <1>22, <1>5, <1>9 DEF Distinct
  <2>3. Distinct(J)
    BY <2>1, <1>23, <1>5, <1>10 DEF Distinct
  <2>4. ASSUME NEW k \in 1 .. m, NEW l \in 1 .. n, A[k].locator = J[l].locator PROVE FALSE
    <3>1. a[k] = b[l]
      BY <2>1, <2>4, <1>22, <1>23, <1>9, <1>10
    <3>2. QED  BY <3>1, <1>6, <1>9, <1>10
  <2>5. Locators(A) \cap Locators(J) = {}
    BY <2>4, <1>5 DEF Locators
  <2>6. QED  BY <2>2, <2>3, <2>5
<1>15. Distinct(A) /\ Distinct(J) /\ Locators(A) \cap Locators(J) = {} => Distinct(loaded)
  <2> SUFFICES ASSUME Distinct(A), Distinct(J), Locators(A) \cap Locators(J) = {},
                      NEW p \in D, NEW q \in D, loaded[p].locator = loaded[q].locator
               PROVE  p = q
    BY DEF Distinct, D
  <2>1. /\ \A i, j \in 1 .. m : A[i].locator = A[j].locator => i = j
        /\ \A i, j \in 1 .. n : J[i].locator = J[j].locator => i = j
        /\ \A i \in 1 .. m : \A j \in 1 .. n : A[i].locator # J[j].locator
    BY <1>5 DEF Distinct, Locators
  <2>2. ASSUME NEW x \in P, NEW y \in P, loaded[x].locator = loaded[y].locator PROVE x = y
    <3>1. PICK k \in 1 .. m, l \in 1 .. m : a[k] = x /\ a[l] = y
      BY <1>22
    <3>2. A[k].locator = A[l].locator
      BY <1>22, <2>2, <3>1
    <3>3. QED  BY <2>1, <3>1, <3>2
  <2>3. ASSUME NEW x \in Q, NEW y \in Q, loaded[x].locator = loaded[y].locator PROVE x = y
    <3>1. PICK k \in 1 .. n, l \in 1 .. n : b[k] = x /\ b[l] = y
      BY <1>23
    <3>2. J[k].locator = J[l].locator
      BY <1>23, <2>3, <3>1
    <3>3. QED  BY <2>1, <3>1, <3>2
  <2>4. ASSUME NEW x \in P, NEW y \in Q PROVE loaded[x].locator # loaded[y].locator
    <3>1. PICK k \in 1 .. m, l \in 1 .. n : a[k] = x /\ b[l] = y
      BY <1>22, <1>23
    <3>2. A[k].locator = loaded[x].locator /\ J[l].locator = loaded[y].locator
      BY <1>22, <1>23, <3>1
    <3>3. QED  BY <2>1, <3>2
  <2>5. QED  BY <1>6, <2>2, <2>3, <2>4 DEF D
<1>16. (\A i \in D : loaded[i].fate # "broken") <=> \A i \in DOMAIN A : A[i].fate # "broken"
  <2>1. ASSUME \A i \in D : loaded[i].fate # "broken", NEW k \in 1 .. m PROVE A[k].fate # "broken"
    BY <2>1, <1>9, <1>22
  <2>2. ASSUME \A i \in 1 .. m : A[i].fate # "broken", NEW x \in P PROVE loaded[x].fate # "broken"
    <3>1. PICK k \in 1 .. m : a[k] = x
      BY <1>22
    <3>2. QED  BY <1>22, <2>2, <3>1
  <2>3. QED  BY <1>5, <1>6, <1>7, <2>1, <2>2 DEF D
<1>17. QED  BY <1>11, <1>12, <1>13, <1>14, <1>15, <1>16 DEF A, J, D

-----------------------------------------------------------------------------
(* The rows of a catalogue. *)

\* No two records can be told apart by one of the names of their works only.
Consistent(poems) ==
  \A r, s \in ToSet(poems) : ~Disagree(r, s) /\ ~Collide(r, s)

LEMMA ConflictFree ==
  ASSUME NEW poems
  PROVE  ~Conflict(poems) <=> Distinct(poems) /\ Consistent(poems)
BY DEF Conflict, Consistent, ToSet

\* The records as elements, not places.
LEMMA RecordFacts ==
  ASSUME NEW poems, Loadable(poems)
  PROVE  /\ IsFiniteSet(ToSet(poems)) /\ IsFiniteSet(Works(poems))
         /\ \A r \in ToSet(poems) : r.locator \in Int /\ r.id \in Int
         /\ \A r, s \in ToSet(poems) : r.canonical = s.canonical => r.id = s.id
         /\ Works(poems) = {r.canonical : r \in ToSet(poems)}
<1> DEFINE D == DOMAIN poems
           f == [i \in D |-> poems[i]]
           g == [i \in D |-> poems[i].canonical]
<1>1. IsFiniteSet(D)
  <2>1. D = 1 .. Len(poems) /\ Len(poems) \in Nat
    BY ElementsOfSequence DEF Loadable
  <2>2. QED  BY <2>1, FS_Interval
<1>2. ToSet(poems) = {f[i] : i \in D} /\ Works(poems) = {g[i] : i \in D}
  BY DEF ToSet, Works
<1>3. IsFiniteSet({f[i] : i \in D})
  BY <1>1, Image
<1>4. IsFiniteSet({g[i] : i \in D})
  BY <1>1, Image
<1>5. /\ \A r \in ToSet(poems) : r.locator \in Int /\ r.id \in Int
      /\ \A r, s \in ToSet(poems) : r.canonical = s.canonical => r.id = s.id
      /\ Works(poems) = {r.canonical : r \in ToSet(poems)}
  BY DEF Loadable, ToSet, Works
<1>6. QED  BY <1>2, <1>3, <1>4, <1>5

\* A row stands for one work, with all its witnesses in order.
LEMMA RowFacts ==
  ASSUME NEW poems, Loadable(poems), NEW c \in Works(poems)
  PROVE  /\ Row(poems, c).canonical = c
         /\ Row(poems, c).author \in AuthorsOf(poems)
         /\ \A r \in Records(poems, c) : Row(poems, c).id = r.id
         /\ Row(poems, c).id \in Int
         /\ Row(poems, c).witnesses \in Seq(Int)
         /\ ToSet(Row(poems, c).witnesses) = {r.locator : r \in Records(poems, c)}
         /\ \A k, l \in 1 .. Len(Row(poems, c).witnesses) :
              k < l => Row(poems, c).witnesses[k] < Row(poems, c).witnesses[l]
<1> DEFINE R == Records(poems, c)
           L == {r.locator : r \in R}
<1>1. R \subseteq ToSet(poems) /\ R # {} /\ \A r \in R : r.canonical = c
  BY RecordFacts DEF Records
<1>2. IsFiniteSet(R)
  BY <1>1, RecordFacts, FS_Subset
<1>3. L \subseteq Int /\ L # {}
  BY <1>1, RecordFacts
<1>4. IsFiniteSet(L)
  <2> DEFINE f == [r \in R |-> r.locator]
  <2>1. L = {f[r] : r \in R}
    OBVIOUS
  <2>2. IsFiniteSet({f[r] : r \in R})
    BY <1>2, Image
  <2>3. QED  BY <2>1, <2>2
<1>5. \E r \in R : \A s \in R : r.locator <= s.locator
  <2>1. \E x \in L : \A y \in L : x <= y
    <3> HIDE DEF L
    <3>1. QED  BY <1>3, <1>4, LeastMember
  <2>2. QED  BY <2>1
<1>6. Kept(poems, c) \in R
  BY <1>5 DEF Kept
<1>7. Ascending(L) \in Seq(L) /\ ToSet(Ascending(L)) = L
      /\ \A i, j \in 1 .. Len(Ascending(L)) : i < j => Ascending(L)[i] < Ascending(L)[j]
  BY <1>3, <1>4, AscendingFacts
<1>8. /\ Row(poems, c).canonical = c /\ Row(poems, c).id = Kept(poems, c).id
      /\ Row(poems, c).author = Kept(poems, c).author /\ Row(poems, c).witnesses = Ascending(L)
  BY Zenon DEF Row
<1>9. Ascending(L) \in Seq(Int)
  BY <1>3, <1>7
<1>10. Kept(poems, c).author \in AuthorsOf(poems)
  BY <1>1, <1>6 DEF AuthorsOf, ToSet
<1>11. \A r \in R : Kept(poems, c).id = r.id
  BY <1>1, <1>6, RecordFacts
<1>12. Kept(poems, c).id \in Int
  BY <1>1, <1>6, RecordFacts
<1> HIDE DEF L
<1>13. QED  BY <1>7, <1>8, <1>9, <1>10, <1>11, <1>12 DEF L

Made(poems) == {Row(poems, c) : c \in Works(poems)}

\* The catalogue of records without conflict has one row for each work, by
\* increasing public identifiers.
LEMMA PreparedFacts ==
  ASSUME NEW poems, Loadable(poems), Consistent(poems)
  PROVE  /\ Prepared(poems) \in Seq(Made(poems)) /\ ToSet(Prepared(poems)) = Made(poems)
         /\ \A i \in 1 .. Len(Prepared(poems)) : Prepared(poems)[i].id \in Int
         /\ \A i, j \in 1 .. Len(Prepared(poems)) :
              i < j => Prepared(poems)[i].id < Prepared(poems)[j].id
<1> DEFINE M == Made(poems)
           key == [row \in M |-> row.id]
<1>1. IsFiniteSet(M)
  <2> DEFINE f == [c \in Works(poems) |-> Row(poems, c)]
  <2>1. M = {f[c] : c \in Works(poems)}
    BY DEF Made
  <2>2. IsFiniteSet({f[c] : c \in Works(poems)})
    <3>1. IsFiniteSet(Works(poems))
      BY RecordFacts
    <3>2. QED  BY <3>1, Image
  <2>3. QED  BY <2>1, <2>2
<1>2. \A row \in M : row.id \in Int /\ \E r \in ToSet(poems) : row = Row(poems, r.canonical) /\ row.id = r.id
  <2>1. SUFFICES ASSUME NEW c \in Works(poems)
                 PROVE  Row(poems, c).id \in Int /\ \E r \in ToSet(poems) : c = r.canonical /\ Row(poems, c).id = r.id
    BY DEF Made
  <2>2. PICK r \in ToSet(poems) : r.canonical = c
    BY RecordFacts
  <2>3. r \in Records(poems, c)
    BY <2>2 DEF Records
  <2>4. QED  BY <2>2, <2>3, RowFacts
<1>3. \A x, y \in M : x.id = y.id => x = y
  <2>1. SUFFICES ASSUME NEW x \in M, NEW y \in M, x.id = y.id PROVE x = y
    OBVIOUS
  <2>2. PICK r \in ToSet(poems) : x = Row(poems, r.canonical) /\ x.id = r.id
    BY <1>2
  <2>3. PICK s \in ToSet(poems) : y = Row(poems, s.canonical) /\ y.id = s.id
    BY <1>2
  <2>4. r.canonical = s.canonical
    BY <2>1, <2>2, <2>3 DEF Consistent, Collide
  <2>5. QED  BY <2>2, <2>3, <2>4
<1>4. Keyed(M, key) /\ \A x \in M : key[x] = x.id
  BY <1>2, <1>3 DEF Keyed
<1>5. Prepared(poems) = Sorted(M, key)
  BY Zenon DEF Prepared, Made
<1> HIDE DEF M, key
<1> DEFINE P == Sorted(M, key)
<1>6. /\ P \in Seq(M) /\ ToSet(P) = M
      /\ \A i, j \in 1 .. Len(P) : i < j => key[P[i]] < key[P[j]]
  BY <1>1, <1>4, SortedFacts
<1> HIDE DEF P
<1>7. \A i \in 1 .. Len(P) : P[i] \in M /\ key[P[i]] = P[i].id /\ P[i].id \in Int
  BY <1>2, <1>4, <1>6
<1>8. QED  BY <1>5, <1>6, <1>7 DEF M, P

\* The catalogue depends on the records, and not on their order.
LEMMA CatalogOfRecords ==
  ASSUME NEW p, NEW q, ToSet(p) = ToSet(q)
  PROVE  Prepared(p) = Prepared(q)
<1>1. Works(p) = Works(q)
  <2>1. Works(p) = {r.canonical : r \in ToSet(p)} /\ Works(q) = {r.canonical : r \in ToSet(q)}
    BY DEF Works, ToSet
  <2>2. QED  BY <2>1
<1>2. \A c : Records(p, c) = Records(q, c)
  BY DEF Records
<1>3. ASSUME NEW c PROVE Row(p, c) = Row(q, c)
  <2>1. Records(p, c) = Records(q, c)
    BY <1>2
  <2>2. Kept(p, c) = Kept(q, c)
    BY <2>1 DEF Kept
  <2>3. QED  BY <2>1, <2>2 DEF Row
<1>4. {Row(p, c) : c \in Works(p)} = {Row(q, c) : c \in Works(q)}
  BY <1>1, <1>3
<1>5. QED  BY <1>4, Zenon DEF Prepared

\* Where the row of a record is.
LEMMA RowOfRecord ==
  ASSUME NEW poems, Loadable(poems), Consistent(poems), NEW r \in ToSet(poems)
  PROVE  \E i \in 1 .. Len(Prepared(poems)) :
           /\ Prepared(poems)[i] = Row(poems, r.canonical) /\ Prepared(poems)[i].id = r.id
           /\ r.locator \in ToSet(Prepared(poems)[i].witnesses)
<1> DEFINE P == Prepared(poems)
           c == r.canonical
<1>1. c \in Works(poems) /\ r \in Records(poems, c)
  BY RecordFacts DEF Records
<1>2. Row(poems, c) \in Made(poems)
  BY <1>1 DEF Made
<1>3. P \in Seq(Made(poems)) /\ ToSet(P) = Made(poems)
  BY PreparedFacts
<1> HIDE DEF P
<1>4. PICK i \in 1 .. Len(P) : P[i] = Row(poems, c)
  BY <1>2, <1>3, ElementsOfSequence
<1>5. Row(poems, c).id = r.id /\ r.locator \in ToSet(Row(poems, c).witnesses)
  <2>1. /\ \A s \in Records(poems, c) : Row(poems, c).id = s.id
        /\ ToSet(Row(poems, c).witnesses) = {s.locator : s \in Records(poems, c)}
    BY <1>1, RowFacts
  <2>2. QED  BY <1>1, <2>1
<1>6. QED  BY <1>4, <1>5 DEF P

\* Rows of the catalogue have witnesses and authors of its records.
LEMMA PartFacts ==
  ASSUME NEW poems, Loadable(poems), NEW part \in Seq(Made(poems))
  PROVE  WitnessesOf(part) \subseteq Locators(poems) /\ AuthorsOf(part) \subseteq AuthorsOf(poems)
<1>1. \A i \in DOMAIN part : part[i] \in Made(poems)
  BY ElementsOfSequence
<1>2. ASSUME NEW row \in Made(poems)
      PROVE  row.author \in AuthorsOf(poems) /\ ToSet(row.witnesses) \subseteq Locators(poems)
  <2>1. PICK c \in Works(poems) : row = Row(poems, c)
    BY DEF Made
  <2>2. \A r \in Records(poems, c) : r.locator \in Locators(poems)
    BY DEF Records, ToSet, Locators
  <2>3. /\ Row(poems, c).author \in AuthorsOf(poems)
        /\ ToSet(Row(poems, c).witnesses) = {r.locator : r \in Records(poems, c)}
    BY RowFacts
  <2>4. QED  BY <2>1, <2>2, <2>3
<1>3. WitnessesOf(part) \subseteq Locators(poems)
  BY <1>1, <1>2 DEF WitnessesOf
<1>4. AuthorsOf(part) \subseteq AuthorsOf(poems)
  <2>1. AuthorsOf(part) = {part[i].author : i \in DOMAIN part}
    BY DEF AuthorsOf
  <2>2. \A i \in DOMAIN part : part[i].author \in AuthorsOf(poems)
    BY <1>1, <1>2
  <2>3. QED  BY <2>1, <2>2
<1>5. QED  BY <1>3, <1>4

\* The whole catalogue has every witness.
LEMMA CatalogIsComplete ==
  ASSUME NEW poems, Loadable(poems), Consistent(poems)
  PROVE  WitnessesOf(Prepared(poems)) = Locators(poems)
<1> DEFINE P == Prepared(poems)
<1>1. P \in Seq(Made(poems))
  BY PreparedFacts
<1>2. WitnessesOf(P) \subseteq Locators(poems)
  BY <1>1, PartFacts
<1>3. ASSUME NEW r \in ToSet(poems) PROVE r.locator \in WitnessesOf(P)
  <2>1. PICK i \in 1 .. Len(P) : r.locator \in ToSet(P[i].witnesses)
    BY RowOfRecord
  <2>2. i \in DOMAIN P
    BY <1>1, ElementsOfSequence
  <2>3. QED  BY <2>1, <2>2 DEF WitnessesOf
<1>4. Locators(poems) = {r.locator : r \in ToSet(poems)}
  BY DEF Locators, ToSet
<1>5. QED  BY <1>2, <1>3, <1>4

\* Any number of its first rows begins it.
LEMMA PrefixBegins ==
  ASSUME NEW poems, Loadable(poems), Consistent(poems), NEW n \in 0 .. Len(Prepared(poems))
  PROVE  BeginsCatalog(SubSeq(Prepared(poems), 1, n), poems)
<1> DEFINE P == Prepared(poems)
           rows == SubSeq(P, 1, n)
<1>1. P \in Seq(Made(poems)) /\ Len(P) \in Nat
  BY PreparedFacts
<1>2. /\ \A i \in 1 .. Len(P) : P[i].id \in Int
      /\ \A i, j \in 1 .. Len(P) : i < j => P[i].id < P[j].id
  BY PreparedFacts
<1> HIDE DEF P
<1>3. n \in Nat /\ n <= Len(P)
  BY <1>1 DEF P
<1>4. rows \in Seq(Made(poems)) /\ Len(rows) = n /\ \A i \in 1 .. n : rows[i] = P[i]
  BY <1>1, <1>3
<1>5. DOMAIN rows = 1 .. n /\ \A i \in 1 .. n : i \in 1 .. Len(P) /\ rows[i] \in Made(poems)
  BY <1>1, <1>3, <1>4
<1> HIDE DEF rows
<1>6. \A i, j \in DOMAIN rows : i < j => rows[i].id < rows[j].id
  BY <1>2, <1>4, <1>5
<1>7. ASSUME NEW i \in DOMAIN rows
      PROVE  /\ ToSet(rows[i].witnesses) =
                  {r.locator : r \in {s \in ToSet(poems) : s.canonical = rows[i].canonical}}
             /\ \A k, l \in DOMAIN rows[i].witnesses :
                  k < l => rows[i].witnesses[k] < rows[i].witnesses[l]
  <2>1. PICK c \in Works(poems) : rows[i] = Row(poems, c)
    BY <1>5 DEF Made
  <2>2. rows[i].canonical = c /\ DOMAIN rows[i].witnesses = 1 .. Len(rows[i].witnesses)
    BY <2>1, RowFacts, ElementsOfSequence
  <2>3. Records(poems, c) = {s \in ToSet(poems) : s.canonical = rows[i].canonical}
    BY <2>2 DEF Records
  <2>4. ToSet(rows[i].witnesses) = {r.locator : r \in Records(poems, c)}
    BY <2>1, RowFacts
  <2>5. \A k, l \in 1 .. Len(rows[i].witnesses) : k < l => rows[i].witnesses[k] < rows[i].witnesses[l]
    BY <2>1, RowFacts
  <2>6. QED  BY <2>2, <2>3, <2>4, <2>5
<1>8. ASSUME NEW r \in ToSet(poems), NEW i \in DOMAIN rows, r.id < rows[i].id
      PROVE  r.locator \in WitnessesOf(rows)
  <2>1. PICK j \in 1 .. Len(P) : P[j].id = r.id /\ r.locator \in ToSet(P[j].witnesses)
    BY RowOfRecord DEF P
  <2>2. j < i
    <3>1. i \in 1 .. Len(P) /\ rows[i] = P[i]
      BY <1>4, <1>5
    <3>2. P[i].id \in Int /\ P[j].id \in Int /\ P[j].id < P[i].id
      BY <1>2, <1>8, <2>1, <3>1
    <3>3. ~(i < j) /\ i # j
      BY <1>2, <2>1, <3>1, <3>2
    <3>4. QED  BY <1>1, <2>1, <3>1, <3>3
  <2>3. j \in DOMAIN rows /\ rows[j] = P[j]
    BY <1>3, <1>4, <1>5, <2>1, <2>2
  <2>4. QED  BY <2>1, <2>3 DEF WitnessesOf
<1>9. QED  BY <1>6, <1>7, <1>8 DEF BeginsCatalog, rows, P

-----------------------------------------------------------------------------
(* Counting the rows of the witness table. *)

Bijects(f, S, T) ==
  /\ f \in [S -> T]
  /\ \A x, y \in S : f[x] = f[y] => x = y
  /\ \A y \in T : \E x \in S : f[x] = y

LEMMA SameNumber ==
  ASSUME NEW S, NEW T, NEW f, Bijects(f, S, T), IsFiniteSet(T)
  PROVE  IsFiniteSet(S) /\ Cardinality(S) = Cardinality(T)
<1>1. f \in Injection(S, T) /\ f \in Surjection(S, T)
  BY DEF Bijects, Injection, IsInjective, Surjection
<1>2. QED  BY <1>1, FS_Injection

\* Records with different locators have as many locators as there are records.
LEMMA LocatorCount ==
  ASSUME NEW poems, Loadable(poems), Distinct(poems)
  PROVE  IsFiniteSet(Locators(poems)) /\ Cardinality(Locators(poems)) = Len(poems)
<1> DEFINE D == DOMAIN poems
           f == [i \in D |-> poems[i].locator]
<1>1. D = 1 .. Len(poems) /\ Len(poems) \in Nat
  BY ElementsOfSequence DEF Loadable
<1>2. IsFiniteSet(D) /\ Cardinality(D) = Len(poems)
  <2> DEFINE n == Len(poems)
  <2>1. n \in Nat
    BY <1>1
  <2> HIDE DEF n
  <2>2. IsFiniteSet(1 .. n) /\ Cardinality(1 .. n) = n
    BY <2>1, FS_Interval
  <2>3. QED  BY <1>1, <2>2 DEF n
<1>3. \A i, j \in D : f[i] = f[j] => i = j
  BY DEF Distinct
<1>4. Locators(poems) = {f[i] : i \in D}
  BY DEF Locators
<1> HIDE DEF D
<1>5. IsFiniteSet({f[i] : i \in D}) /\ Cardinality({f[i] : i \in D}) = Cardinality(D)
  <2>1. DOMAIN f = D /\ f = [i \in D |-> f[i]]
    OBVIOUS
  <2> HIDE DEF f
  <2>2. QED  BY <1>2, <1>3, <2>1, Image
<1>6. QED  BY <1>2, <1>4, <1>5

\* The authors of a sequence of records are finitely many.
LEMMA AuthorCount ==
  ASSUME NEW poems, Loadable(poems)
  PROVE  IsFiniteSet(AuthorsOf(poems))
<1> DEFINE D == DOMAIN poems
           f == [i \in D |-> poems[i].author]
<1>1. IsFiniteSet(D)
  <2>1. D = 1 .. Len(poems) /\ Len(poems) \in Nat
    BY ElementsOfSequence DEF Loadable
  <2>2. QED  BY <2>1, FS_Interval
<1>2. AuthorsOf(poems) = {f[i] : i \in D}
  BY DEF AuthorsOf
<1>3. IsFiniteSet({f[i] : i \in D})
  BY <1>1, Image
<1>4. QED  BY <1>2, <1>3

\* The catalogue of a sound input has one witness row for every record.
LEMMA WitnessCount ==
  ASSUME NEW poems, Loadable(poems), ~Conflict(poems)
  PROVE  /\ IsFiniteSet(WitnessRows(Prepared(poems)))
         /\ Cardinality(WitnessRows(Prepared(poems))) = Len(poems)
<1> DEFINE P == Prepared(poems)
           W == WitnessRows(P)
           L == Locators(poems)
           f == [e \in W |-> P[e[1]].witnesses[e[2]]]
<1>1. Distinct(poems) /\ Consistent(poems)
  BY ConflictFree
<1>2. /\ P \in Seq(Made(poems)) /\ DOMAIN P = 1 .. Len(P) /\ Len(P) \in Nat
      /\ \A i \in 1 .. Len(P) : P[i].id \in Int /\ P[i] \in Made(poems)
      /\ \A i, j \in 1 .. Len(P) : i < j => P[i].id < P[j].id
  BY <1>1, PreparedFacts
<1>3. \A e \in W : /\ e[1] \in 1 .. Len(P) /\ e[2] \in DOMAIN P[e[1]].witnesses
                   /\ e = <<e[1], e[2]>>
  BY <1>2 DEF WitnessRows
<1>4. \A i \in 1 .. Len(P) : \A k \in DOMAIN P[i].witnesses : <<i, k>> \in W
  BY <1>2 DEF WitnessRows
<1>5. ASSUME NEW i \in 1 .. Len(P)
      PROVE  \E c \in Works(poems) :
               /\ P[i] = Row(poems, c)
               /\ DOMAIN P[i].witnesses = 1 .. Len(P[i].witnesses)
               /\ \A k \in DOMAIN P[i].witnesses : P[i].witnesses[k] \in Int
               /\ \A k, l \in DOMAIN P[i].witnesses : P[i].witnesses[k] = P[i].witnesses[l] => k = l
               /\ \A k \in DOMAIN P[i].witnesses :
                    \E r \in ToSet(poems) : r.canonical = c /\ r.locator = P[i].witnesses[k]
  <2>1. PICK c \in Works(poems) : P[i] = Row(poems, c)
    BY <1>2 DEF Made
  <2> DEFINE v == P[i].witnesses
  <2>2. /\ v \in Seq(Int) /\ ToSet(v) = {r.locator : r \in Records(poems, c)}
        /\ \A k, l \in 1 .. Len(v) : k < l => v[k] < v[l]
    BY <2>1, RowFacts
  <2> HIDE DEF v
  <2>3. DOMAIN v = 1 .. Len(v) /\ Len(v) \in Nat /\ \A k \in 1 .. Len(v) : v[k] \in Int /\ v[k] \in ToSet(v)
    <3>1. v \in Seq(Int)
      BY <2>2
    <3>2. DOMAIN v = 1 .. Len(v) /\ Len(v) \in Nat /\ ToSet(v) = {v[k] : k \in 1 .. Len(v)}
      BY <3>1, ElementsOfSequence
    <3>3. QED  BY <3>1, <3>2
  <2>4. \A k, l \in 1 .. Len(v) : v[k] = v[l] => k = l
    <3>1. SUFFICES ASSUME NEW k \in 1 .. Len(v), NEW l \in 1 .. Len(v), v[k] = v[l], k < l PROVE FALSE
      BY <2>3
    <3>2. v[k] \in Int /\ v[k] < v[l]
      BY <2>2, <2>3, <3>1
    <3>3. QED  BY <3>1, <3>2
  <2>5. \A k \in 1 .. Len(v) : \E r \in ToSet(poems) : r.canonical = c /\ r.locator = v[k]
    BY <2>2, <2>3 DEF Records
  <2>6. QED  BY <2>1, <2>3, <2>4, <2>5 DEF v
<1>6. \A r, s \in ToSet(poems) : r.locator = s.locator => r = s
  BY <1>1 DEF Distinct, ToSet
<1>7. Locators(poems) = {r.locator : r \in ToSet(poems)}
  BY DEF Locators, ToSet
<1> HIDE DEF P, W
<1>8. f \in [W -> L]
  BY <1>3, <1>5, <1>7
<1>9. ASSUME NEW d \in W, NEW e \in W, f[d] = f[e] PROVE d = e
  <2> DEFINE i == d[1]  j == e[1]  k == d[2]  l == e[2]
  <2>1. i \in 1 .. Len(P) /\ j \in 1 .. Len(P) /\ k \in DOMAIN P[i].witnesses /\ l \in DOMAIN P[j].witnesses
    BY <1>3
  <2>2. P[i].witnesses[k] = P[j].witnesses[l] /\ d = <<i, k>> /\ e = <<j, l>>
    BY <1>3, <1>9
  <2> HIDE DEF i, j, k, l
  <2>3. PICK r \in ToSet(poems) : P[i] = Row(poems, r.canonical) /\ r.locator = P[i].witnesses[k]
    BY <1>5, <2>1
  <2>4. PICK s \in ToSet(poems) : P[j] = Row(poems, s.canonical) /\ s.locator = P[j].witnesses[l]
    BY <1>5, <2>1
  <2>5. P[i] = P[j]
    BY <1>6, <2>2, <2>3, <2>4
  <2>6. i = j
    <3>1. P[i].id \in Int /\ ~(P[i].id < P[j].id) /\ ~(P[j].id < P[i].id)
      BY <1>2, <2>1, <2>5
    <3>2. QED  BY <1>2, <2>1, <3>1
  <2>7. k = l
    BY <1>5, <2>1, <2>2, <2>6
  <2>8. QED  BY <2>2, <2>6, <2>7
<1>10. ASSUME NEW y \in L PROVE \E e \in W : f[e] = y
  <2>1. PICK r \in ToSet(poems) : r.locator = y
    BY <1>7
  <2>2. PICK i \in 1 .. Len(P) : y \in ToSet(P[i].witnesses)
    BY <1>1, <2>1, RowOfRecord DEF P
  <2>3. PICK k \in DOMAIN P[i].witnesses : P[i].witnesses[k] = y
    BY <2>2 DEF ToSet
  <2>4. <<i, k>> \in W /\ f[<<i, k>>] = y
    BY <1>4, <2>3
  <2>5. QED  BY <2>4
<1>11. Bijects(f, W, L)
  <2> HIDE DEF f
  <2>1. QED  BY <1>8, <1>9, <1>10 DEF Bijects
<1>12. IsFiniteSet(L) /\ Cardinality(L) = Len(poems)
  BY <1>1, LocatorCount
<1> HIDE DEF f, L
<1>13. IsFiniteSet(W) /\ Cardinality(W) = Cardinality(L)
  BY <1>11, <1>12, SameNumber
<1>14. QED  BY <1>12, <1>13 DEF W, P

LEMMA NoRows == WitnessRows(<<>>) = {} /\ Cardinality(WitnessRows(<<>>)) = 0
<1>1. WitnessRows(<<>>) = {}
  BY DEF WitnessRows
<1>2. QED  BY <1>1, FS_EmptySet

\* The witness rows of some consecutive rows are those of the whole, counted anew.
LEMMA PartCount ==
  ASSUME NEW R, NEW P \in Seq(R), IsFiniteSet(WitnessRows(P)),
         NEW a \in Nat \ {0}, NEW b \in Nat, b <= Len(P)
  PROVE  /\ IsFiniteSet(WitnessRows(SubSeq(P, a, b)))
         /\ Cardinality(WitnessRows(SubSeq(P, a, b))) =
              Cardinality({e \in WitnessRows(P) : a <= e[1] /\ e[1] <= b})
<1> DEFINE Q == SubSeq(P, a, b)
           V == WitnessRows(Q)
           T == {e \in WitnessRows(P) : a <= e[1] /\ e[1] <= b}
           f == [e \in V |-> <<e[1] + a - 1, e[2]>>]
<1>1. DOMAIN P = 1 .. Len(P) /\ Len(P) \in Nat
  BY ElementsOfSequence
<1>2. /\ DOMAIN Q = 1 .. b - a + 1
      /\ \A i \in 1 .. b - a + 1 : Q[i] = P[i + a - 1] /\ i + a - 1 \in a .. b /\ i + a - 1 \in 1 .. Len(P)
  <2>1. \A i \in a .. b : P[i] \in R
    BY <1>1
  <2>2. /\ Q \in Seq(R) /\ Len(Q) = IF a <= b THEN b - a + 1 ELSE 0
        /\ \A i \in 1 .. b - a + 1 : Q[i] = P[a + i - 1]
    BY <2>1, SubSeqProperties
  <2> HIDE DEF Q
  <2>3. DOMAIN Q = 1 .. Len(Q)
    BY <2>2
  <2>4. 1 .. Len(Q) = 1 .. b - a + 1
    BY <2>2
  <2>5. \A i \in 1 .. b - a + 1 : a + i - 1 = i + a - 1 /\ i + a - 1 \in a .. b /\ i + a - 1 \in 1 .. Len(P)
    BY <1>1
  <2>6. QED  BY <2>2, <2>3, <2>4, <2>5
<1> HIDE DEF Q
<1>3. /\ \A e \in V : e[1] \in 1 .. b - a + 1 /\ e[2] \in DOMAIN Q[e[1]].witnesses /\ e = <<e[1], e[2]>>
      /\ \A i \in 1 .. b - a + 1 : \A k \in DOMAIN Q[i].witnesses : <<i, k>> \in V
  BY <1>2 DEF WitnessRows
<1>4. /\ \A e \in WitnessRows(P) : e[1] \in 1 .. Len(P) /\ e[2] \in DOMAIN P[e[1]].witnesses /\ e = <<e[1], e[2]>>
      /\ \A i \in 1 .. Len(P) : \A k \in DOMAIN P[i].witnesses : <<i, k>> \in WitnessRows(P)
  BY <1>1 DEF WitnessRows
<1> HIDE DEF V
<1>5. f \in [V -> T]
  <2>1. SUFFICES ASSUME NEW e \in V PROVE <<e[1] + a - 1, e[2]>> \in T
    OBVIOUS
  <2>2. e[1] \in 1 .. b - a + 1 /\ e[2] \in DOMAIN P[e[1] + a - 1].witnesses
    BY <1>2, <1>3
  <2>3. e[1] + a - 1 \in 1 .. Len(P) /\ a <= e[1] + a - 1 /\ e[1] + a - 1 <= b
    BY <1>2, <2>2
  <2>4. <<e[1] + a - 1, e[2]>> \in WitnessRows(P)
    BY <1>4, <2>2, <2>3
  <2>5. QED  BY <2>3, <2>4
<1>6. ASSUME NEW d \in V, NEW e \in V, f[d] = f[e] PROVE d = e
  <2>1. d[1] + a - 1 = e[1] + a - 1 /\ d[2] = e[2]
    BY <1>6
  <2>2. d[1] \in Int /\ e[1] \in Int
    BY <1>3
  <2>3. d[1] = e[1]
    BY <2>1, <2>2
  <2>4. QED  BY <1>3, <2>1, <2>3
<1>7. ASSUME NEW y \in T PROVE \E e \in V : f[e] = y
  <2> DEFINE i == y[1] - a + 1  k == y[2]
  <2>1. y \in WitnessRows(P) /\ a <= y[1] /\ y[1] <= b
    OBVIOUS
  <2>2. y[1] \in 1 .. Len(P) /\ k \in DOMAIN P[y[1]].witnesses /\ y = <<y[1], k>>
    BY <1>4, <2>1
  <2>3. i \in 1 .. b - a + 1 /\ i + a - 1 = y[1]
    BY <2>1, <2>2
  <2>4. Q[i] = P[y[1]]
    BY <1>2, <2>3
  <2> HIDE DEF i, k
  <2>5. <<i, k>> \in V
    BY <1>3, <2>2, <2>3, <2>4
  <2>6. f[<<i, k>>] = y
    BY <2>2, <2>3, <2>5
  <2>7. QED  BY <2>5, <2>6
<1>8. Bijects(f, V, T)
  <2> HIDE DEF f, T
  <2>1. QED  BY <1>5, <1>6, <1>7 DEF Bijects
<1>9. IsFiniteSet(T)
  BY FS_Subset
<1> HIDE DEF f, T
<1>10. IsFiniteSet(V) /\ Cardinality(V) = Cardinality(T)
  BY <1>8, <1>9, SameNumber
<1>11. QED  BY <1>10 DEF V, Q, T

\* A transaction and what is left after it have the witness rows of what was left before.
LEMMA CountsAdd ==
  ASSUME NEW R, NEW P \in Seq(R), IsFiniteSet(WitnessRows(P)), NEW n \in 0 .. Len(P)
  PROVE  /\ Cardinality(WitnessRows(SubSeq(P, 1, n))) \in Nat
         /\ Cardinality(WitnessRows(SubSeq(P, n + 1, Len(P)))) \in Nat
         /\ IsFiniteSet(WitnessRows(SubSeq(P, n + 1, Len(P))))
         /\ Cardinality(WitnessRows(P)) =
              Cardinality(WitnessRows(SubSeq(P, 1, n))) + Cardinality(WitnessRows(SubSeq(P, n + 1, Len(P))))
<1> DEFINE W == WitnessRows(P)
           A == {e \in W : 1 <= e[1] /\ e[1] <= n}
           B == {e \in W : n + 1 <= e[1] /\ e[1] <= Len(P)}
<1>1. DOMAIN P = 1 .. Len(P) /\ Len(P) \in Nat /\ n \in Nat /\ n <= Len(P)
  BY ElementsOfSequence
<1>2. \A e \in W : e[1] \in 1 .. Len(P)
  BY <1>1 DEF WitnessRows
<1>3. W = A \cup B /\ A \cap B = {}
  <2> HIDE DEF W
  <2>1. QED  BY <1>1, <1>2
<1>4. IsFiniteSet(A) /\ IsFiniteSet(B)
  BY FS_Subset
<1>5. Cardinality(A) \in Nat /\ Cardinality(B) \in Nat
  BY <1>4, FS_CardinalityType
<1>6. Cardinality(W) = Cardinality(A) + Cardinality(B)
  <2> HIDE DEF W, A, B
  <2>1. Cardinality(A \cap B) = 0
    BY <1>3, FS_EmptySet
  <2>2. Cardinality(A \cup B) = Cardinality(A) + Cardinality(B) - Cardinality(A \cap B)
    BY <1>4, FS_Union
  <2>3. QED  BY <1>3, <1>5, <2>1, <2>2
<1>7. Cardinality(WitnessRows(SubSeq(P, 1, n))) = Cardinality(A)
  BY <1>1, PartCount
<1>8. /\ Cardinality(WitnessRows(SubSeq(P, n + 1, Len(P)))) = Cardinality(B)
      /\ IsFiniteSet(WitnessRows(SubSeq(P, n + 1, Len(P))))
  <2>1. n + 1 \in Nat \ {0} /\ Len(P) <= Len(P)
    BY <1>1
  <2>2. QED  BY <1>1, <2>1, PartCount
<1>9. QED  BY <1>5, <1>6, <1>7, <1>8

-----------------------------------------------------------------------------
(* Writing a catalogue piece by piece. *)

LEMMA Part ==
  ASSUME NEW R, NEW s \in Seq(R), NEW a \in Nat \ {0}, NEW b \in Nat, b <= Len(s), a <= b + 1
  PROVE  /\ SubSeq(s, a, b) \in Seq(R) /\ Len(SubSeq(s, a, b)) = b - a + 1
         /\ \A i \in 1 .. b - a + 1 : SubSeq(s, a, b)[i] = s[i + a - 1]
<1>1. \A i \in a .. b : s[i] \in R
  BY ElementsOfSequence
<1>2. /\ SubSeq(s, a, b) \in Seq(R) /\ Len(SubSeq(s, a, b)) = IF a <= b THEN b - a + 1 ELSE 0
      /\ \A i \in 1 .. b - a + 1 : SubSeq(s, a, b)[i] = s[a + i - 1]
  BY <1>1, SubSeqProperties
<1>3. \A i \in 1 .. b - a + 1 : a + i - 1 = i + a - 1
  OBVIOUS
<1>4. QED  BY <1>2, <1>3

\* What is written and what is left, before and after a transaction of m rows.
LEMMA Advance ==
  ASSUME NEW R, NEW C \in Seq(R), NEW n \in 0 .. Len(C),
         NEW plan, plan = SubSeq(C, n + 1, Len(C)), NEW m \in 0 .. Len(plan)
  PROVE  /\ plan \in Seq(R) /\ Len(plan) = Len(C) - n /\ n + m \in 0 .. Len(C)
         /\ SubSeq(plan, 1, m) \in Seq(R) /\ Len(SubSeq(plan, 1, m)) = m
         /\ SubSeq(plan, m + 1, Len(plan)) = SubSeq(C, n + m + 1, Len(C))
         /\ SubSeq(C, 1, n) \o SubSeq(plan, 1, m) = SubSeq(C, 1, n + m)
         /\ Len(SubSeq(C, 1, n + m)) = n + m
<1>1. Len(C) \in Nat /\ \A i \in 1 .. Len(C) : C[i] \in R
  BY ElementsOfSequence
<1> DEFINE N == Len(C)
<1>2. n \in Nat /\ n <= N /\ N \in Nat
  BY <1>1
<1> HIDE DEF N
<1>3. plan \in Seq(R) /\ Len(plan) = N - n /\ \A i \in 1 .. N - n : plan[i] = C[n + i]
  <2>1. /\ SubSeq(C, n + 1, N) \in Seq(R) /\ Len(SubSeq(C, n + 1, N)) = N - (n + 1) + 1
        /\ \A i \in 1 .. N - (n + 1) + 1 : SubSeq(C, n + 1, N)[i] = C[i + (n + 1) - 1]
    BY <1>2, Part DEF N
  <2>2. N - (n + 1) + 1 = N - n /\ \A i \in 1 .. N - n : i + (n + 1) - 1 = n + i
    BY <1>2
  <2>3. plan = SubSeq(C, n + 1, N)
    BY DEF N
  <2>4. QED  BY <2>1, <2>2, <2>3
<1>4. m \in Nat /\ m <= N - n
  BY <1>2, <1>3
<1>5. n + m \in 0 .. N
  BY <1>2, <1>4
<1>6. /\ SubSeq(plan, 1, m) \in Seq(R) /\ Len(SubSeq(plan, 1, m)) = m
      /\ \A i \in 1 .. m : SubSeq(plan, 1, m)[i] = C[n + i]
  BY <1>2, <1>3, <1>4
<1>7. SubSeq(plan, 1, m) = SubSeq(C, n + 1, n + m)
  <2>1. \A i \in n + 1 .. n + m : C[i] \in R
    BY <1>1, <1>2, <1>4 DEF N
  <2>2. /\ SubSeq(C, n + 1, n + m) \in Seq(R)
        /\ Len(SubSeq(C, n + 1, n + m)) = IF n + 1 <= n + m THEN n + m - (n + 1) + 1 ELSE 0
        /\ \A i \in 1 .. n + m - (n + 1) + 1 : SubSeq(C, n + 1, n + m)[i] = C[n + 1 + i - 1]
    BY <1>2, <1>4, <2>1, SubSeqProperties
  <2>3. n + m - (n + 1) + 1 = m /\ \A i \in 1 .. m : n + 1 + i - 1 = n + i
    BY <1>2, <1>4
  <2>4. Len(SubSeq(C, n + 1, n + m)) = m /\ \A i \in 1 .. m : SubSeq(C, n + 1, n + m)[i] = C[n + i]
    BY <1>2, <1>4, <2>2, <2>3
  <2> DEFINE s == SubSeq(plan, 1, m)
             t == SubSeq(C, n + 1, n + m)
  <2>5. s \in Seq(R) /\ t \in Seq(R) /\ Len(s) = Len(t) /\ \A i \in 1 .. Len(s) : s[i] = t[i]
    BY <1>6, <2>2, <2>4
  <2> HIDE DEF s, t
  <2>6. s = t
    BY <2>5, SeqEqual
  <2>7. QED  BY <2>6 DEF s, t
<1>8. SubSeq(plan, m + 1, Len(plan)) = SubSeq(C, n + m + 1, N)
  <2> DEFINE s == SubSeq(plan, m + 1, N - n)
             t == SubSeq(C, n + m + 1, N)
             k == N - n - m
  <2>1. k \in Nat /\ N - n - (m + 1) + 1 = k /\ N - (n + m + 1) + 1 = k
    BY <1>2, <1>4
  <2>2. /\ \A i \in m + 1 .. N - n : plan[i] \in R
        /\ \A i \in n + m + 1 .. N : C[i] \in R
    BY <1>1, <1>2, <1>3, <1>4 DEF N
  <2>3. /\ s \in Seq(R) /\ Len(s) = N - n - (m + 1) + 1
        /\ \A i \in 1 .. N - n - (m + 1) + 1 : s[i] = plan[i + (m + 1) - 1]
    BY <1>2, <1>3, <1>4, Part
  <2>4. /\ t \in Seq(R) /\ Len(t) = IF n + m + 1 <= N THEN N - (n + m + 1) + 1 ELSE 0
        /\ \A i \in 1 .. N - (n + m + 1) + 1 : t[i] = C[n + m + 1 + i - 1]
    BY <1>2, <1>4, <2>2, SubSeqProperties
  <2> HIDE DEF s, t
  <2>5. Len(s) = k /\ Len(t) = k
    BY <1>2, <1>4, <2>1, <2>3, <2>4
  <2>6. \A i \in 1 .. k : s[i] = t[i]
    <3>1. SUFFICES ASSUME NEW i \in 1 .. k PROVE s[i] = t[i]
      OBVIOUS
    <3>2. i + (m + 1) - 1 \in 1 .. N - n /\ n + (i + (m + 1) - 1) = n + m + 1 + i - 1
      BY <1>2, <1>4, <2>1
    <3>3. QED  BY <1>3, <2>1, <2>3, <2>4, <3>2
  <2>7. s = t
    BY <2>3, <2>4, <2>5, <2>6, SeqEqual
  <2>8. QED  BY <1>3, <2>7 DEF s, t
<1>9. SubSeq(C, 1, n) \o SubSeq(C, n + 1, n + m) = SubSeq(C, 1, n + m)
  <2>1. 1 \in 1 .. Len(C) + 1 /\ n \in 1 - 1 .. Len(C) /\ n + m \in n .. Len(C)
    BY <1>2, <1>4 DEF N
  <2>2. QED  BY <2>1, ConcatAdjacentSubSeq
<1>10. Len(SubSeq(C, 1, n + m)) = n + m
  <2>1. \A i \in 1 .. n + m : C[i] \in R
    BY <1>1, <1>2, <1>5 DEF N
  <2>2. Len(SubSeq(C, 1, n + m)) = IF 1 <= n + m THEN n + m - 1 + 1 ELSE 0
    BY <1>2, <1>4, <2>1, SubSeqProperties
  <2>3. QED  BY <1>2, <1>4, <2>2
<1>11. QED  BY <1>3, <1>5, <1>6, <1>7, <1>8, <1>9, <1>10 DEF N

LEMMA WitnessesOfConcat ==
  ASSUME NEW R, NEW s \in Seq(R), NEW t \in Seq(R)
  PROVE  WitnessesOf(s \o t) = WitnessesOf(s) \cup WitnessesOf(t)
<1>1. /\ DOMAIN s = 1 .. Len(s) /\ Len(s) \in Nat /\ DOMAIN t = 1 .. Len(t) /\ Len(t) \in Nat
      /\ DOMAIN (s \o t) = 1 .. Len(s) + Len(t)
      /\ \A i \in 1 .. Len(s) + Len(t) : (s \o t)[i] = IF i <= Len(s) THEN s[i] ELSE t[i - Len(s)]
  BY ConcatProperties, ElementsOfSequence
<1> DEFINE u == s \o t
           m == Len(s)
           n == Len(t)
<1> HIDE DEF u, m, n
<1>2. /\ DOMAIN s = 1 .. m /\ m \in Nat /\ DOMAIN t = 1 .. n /\ n \in Nat /\ DOMAIN u = 1 .. m + n
      /\ \A i \in 1 .. m + n : u[i] = IF i <= m THEN s[i] ELSE t[i - m]
  BY <1>1 DEF u, m, n
<1>3. ASSUME NEW i \in DOMAIN u PROVE (\E k \in DOMAIN s : u[i] = s[k]) \/ (\E k \in DOMAIN t : u[i] = t[k])
  <2>1. CASE i <= m
    <3>1. i \in DOMAIN s /\ u[i] = s[i]
      BY <1>2, <2>1
    <3>2. QED  BY <3>1
  <2>2. CASE ~(i <= m)
    <3>1. i - m \in DOMAIN t /\ u[i] = t[i - m]
      BY <1>2, <2>2
    <3>2. QED  BY <3>1
  <2>3. QED  BY <2>1, <2>2
<1>4. ASSUME NEW k \in DOMAIN s PROVE \E i \in DOMAIN u : u[i] = s[k]
  <2>1. k \in DOMAIN u /\ u[k] = s[k]
    BY <1>2
  <2>2. QED  BY <2>1
<1>5. ASSUME NEW k \in DOMAIN t PROVE \E i \in DOMAIN u : u[i] = t[k]
  <2>1. k + m \in DOMAIN u /\ u[k + m] = t[k]
    <3>1. k + m \in 1 .. m + n /\ ~(k + m <= m) /\ (k + m) - m = k
      BY <1>2
    <3>2. QED  BY <1>2, <3>1
  <2>2. QED  BY <2>1
<1>6. WitnessesOf(u) \subseteq WitnessesOf(s) \cup WitnessesOf(t)
  BY <1>3 DEF WitnessesOf
<1>7. WitnessesOf(s) \subseteq WitnessesOf(u) /\ WitnessesOf(t) \subseteq WitnessesOf(u)
  BY <1>4, <1>5 DEF WitnessesOf
<1>8. QED  BY <1>6, <1>7 DEF u

-----------------------------------------------------------------------------
(* Sound inputs. *)

LEMMA SoundFacts ==
  ASSUME NEW loaded, Loadable(loaded)
  PROVE  Sound(loaded) <=>
           /\ Distinct(loaded) /\ Consistent(Accepted(loaded))
           /\ \A i \in DOMAIN Accepted(loaded) : Accepted(loaded)[i].fate = "good"
           /\ \A a, b \in AuthorsOf(Accepted(loaded)) : ~Clash(a, b)
<1> DEFINE A == Accepted(loaded)
<1>1. Loadable(A) /\ \A i \in DOMAIN A : A[i].fate # "unusable"
  BY PartitionFacts
<1>2. (\A i \in DOMAIN loaded : loaded[i].fate # "broken") <=> \A i \in DOMAIN A : A[i].fate # "broken"
  BY PartitionFacts
<1> HIDE DEF A
<1>3. (\A i \in DOMAIN A : A[i].fate # "broken") <=> \A i \in DOMAIN A : A[i].fate = "good"
  BY <1>1 DEF Loadable, Fates
<1>4. Consistent(A) <=>
        \A i, j \in DOMAIN A : /\ A[i].canonical = A[j].canonical <=> A[i].id = A[j].id
                               /\ A[i].canonical = A[j].canonical => A[i].product = A[j].product
  <2>1. Consistent(A) <=> \A i, j \in DOMAIN A : ~Disagree(A[i], A[j]) /\ ~Collide(A[i], A[j])
    BY DEF Consistent, ToSet
  <2>2. \A i, j \in DOMAIN A : A[i].canonical = A[j].canonical => A[i].id = A[j].id
    BY <1>1 DEF Loadable
  <2>3. QED  BY <2>1, <2>2 DEF Disagree, Collide
<1>5. (\A a, b \in AuthorsOf(A) : ~Clash(a, b)) <=> \A i, j \in DOMAIN A : ~Clash(A[i].author, A[j].author)
  BY DEF AuthorsOf
<1>6. QED  BY <1>2, <1>3, <1>4, <1>5 DEF Sound, A
=============================================================================
