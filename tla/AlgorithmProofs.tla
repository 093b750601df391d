---------------------------- MODULE AlgorithmProofs ----------------------------
(***************************************************************************)
(* Theorems about the algorithms that have no state: sorting, nearest-rank *)
(* percentiles, sums and dates, for inputs of any size.                    *)
(*                                                                         *)
(* An induction over data needs a property to be a set: of the natural     *)
(* numbers, or of the subsets of a finite set, that have it.               *)
(***************************************************************************)
EXTENDS Stats, Calendar, FiniteSetTheorems, FunctionTheorems, TLAPS

-------------------------------------------------------------------------------
(* Induction, and finite sets of numbers. *)

\* A set of natural numbers that is not empty has a least element.
LEMMA Least == ASSUME NEW T, T \subseteq Nat, T # {} PROVE \E x \in T : \A y \in T : x <= y
<1>1. PICK x \in T : \A y \in T : <<y, x>> \notin OpToRel(<, Nat)
  BY NatLessThanWellFounded, WFMin
<1>2. ASSUME NEW y \in T PROVE x <= y
  <2>1. x \in Nat /\ y \in Nat
    OBVIOUS
  <2>2. ~(y < x)
    BY <1>1, <2>1, Zenon DEF OpToRel
  <2>3. QED
    BY <2>1, <2>2
<1>3. QED
  BY <1>2

\* Induction over the natural numbers; the property is the set T.
LEMMA NatSetInduction ==
    ASSUME NEW T, 0 \in T, \A n \in Nat : n \in T => n + 1 \in T
    PROVE  Nat \subseteq T
<1> DEFINE Bad == {n \in Nat : n \notin T}
<1> SUFFICES ASSUME Bad # {} PROVE FALSE
  OBVIOUS
<1>1. PICK n \in Bad : \A m \in Bad : n <= m
  BY Least
<1>2. n \in Nat /\ n # 0
  OBVIOUS
<1>3. n - 1 \in Nat /\ n - 1 + 1 = n /\ ~(n <= n - 1)
  BY <1>2
<1>4. n - 1 \in T
  BY <1>1, <1>3
<1>5. QED
  BY <1>3, <1>4

\* Induction over the subsets of a finite set; the property is the set Good.
LEMMA SubsetInduction ==
    ASSUME NEW D, IsFiniteSet(D), NEW Good,
           \A s \in SUBSET D : (\A x \in s : s \ {x} \in Good) => s \in Good
    PROVE  \A s \in SUBSET D : s \in Good
<1> DEFINE T == {n \in Nat : \A s \in SUBSET D : Cardinality(s) = n => s \in Good}
<1>1. \A s \in SUBSET D : IsFiniteSet(s) /\ Cardinality(s) \in Nat
  BY FS_Subset, FS_CardinalityType
<1>2. 0 \in T
  <2>1. \A s \in SUBSET D : Cardinality(s) = 0 => s = {}
    BY <1>1, FS_EmptySet
  <2>2. \A s \in SUBSET D : s = {} => s \in Good
    OBVIOUS
  <2>3. QED
    BY <2>1, <2>2
<1>3. ASSUME NEW n \in Nat, n \in T PROVE n + 1 \in T
  <2> SUFFICES ASSUME NEW s \in SUBSET D, Cardinality(s) = n + 1 PROVE s \in Good
    OBVIOUS
  <2>1. ASSUME NEW x \in s PROVE s \ {x} \in Good
    <3>1. Cardinality(s \ {x}) = n
      BY <1>1, FS_RemoveElement
    <3>2. QED
      BY <1>3, <3>1
  <2>2. QED
    BY <2>1
<1>4. Nat \subseteq T
  <2> HIDE DEF T
  <2>1. QED
    BY <1>2, <1>3, NatSetInduction
<1>5. QED
  BY <1>1, <1>4

\* A finite set of integers has a greatest element.
LEMMA MaxFacts ==
    ASSUME NEW S \in SUBSET Int, IsFiniteSet(S), S # {}
    PROVE  Max(S) \in S /\ \A y \in S : Max(S) >= y
<1> DEFINE Good == {s \in SUBSET S : s # {} => \E x \in s : \A y \in s : x >= y}
<1>1. ASSUME NEW s \in SUBSET S, \A x \in s : s \ {x} \in Good PROVE s \in Good
  <2> SUFFICES ASSUME s # {} PROVE \E x \in s : \A y \in s : x >= y
    OBVIOUS
  <2>1. PICK x \in s : TRUE
    OBVIOUS
  <2>2. CASE s \ {x} = {}
    <3>1. \A y \in s : x >= y
      BY <2>1, <2>2
    <3>2. QED
      BY <2>1, <3>1
  <2>3. CASE s \ {x} # {}
    <3>1. PICK m \in s \ {x} : \A y \in s \ {x} : m >= y
      BY <1>1, <2>1, <2>3
    <3>2. m \in Int /\ x \in Int /\ \A y \in s : y \in Int
      BY <2>1
    <3>3. CASE x >= m
      <4>1. \A y \in s : x >= y
        BY <3>1, <3>2, <3>3
      <4>2. QED
        BY <4>1
    <3>4. CASE ~(x >= m)
      <4>1. \A y \in s : m >= y
        BY <3>1, <3>2, <3>4
      <4>2. QED
        BY <4>1
    <3>5. QED
      BY <3>3, <3>4
  <2>4. QED
    BY <2>2, <2>3
<1> HIDE DEF Good
<1>2. S \in Good
  BY <1>1, SubsetInduction
<1>3. \E x \in S : \A y \in S : x >= y
  BY <1>2 DEF Good
<1>4. QED
  BY <1>3 DEF Max

\* Min finds the least element.
LEMMA MinFacts ==
    ASSUME NEW S \in SUBSET Nat, S # {}
    PROVE  Min(S) \in S /\ \A y \in S : Min(S) <= y
<1>1. \E x \in S : \A y \in S : x <= y
  BY Least
<1>2. QED
  BY <1>1 DEF Min

\* The first n numbers are finitely many, n of them.
LEMMA Interval == \A n \in Nat : IsFiniteSet(1..n) /\ Cardinality(1..n) = n
<1>1. ASSUME NEW n \in Nat PROVE IsFiniteSet(1..n) /\ Cardinality(1..n) = n
  <2>1. /\ IsFiniteSet(1..n)
        /\ Cardinality(1..n) = IF 1 > n THEN 0 ELSE n - 1 + 1
    <3>1. 1 \in Int /\ n \in Int
      OBVIOUS
    <3>2. QED
      BY <3>1, FS_Interval, Zenon
  <2>2. QED
    BY <2>1
<1>2. QED
  BY <1>1

-------------------------------------------------------------------------------
(* Sorting *)

\* A place is a position, and a smaller key, or an equal one earlier, has a smaller place.
LEMMA PlaceFacts ==
    ASSUME NEW n \in Nat, NEW key \in [1..n -> Int]
    PROVE  /\ \A i \in 1..n : Place(key, i) \in 1..n
           /\ \A i, j \in 1..n : key[i] < key[j] \/ (key[i] = key[j] /\ i < j)
                                   => Place(key, i) < Place(key, j)
<1> DEFINE upto(i) == {j \in 1..n : key[j] < key[i] \/ (key[j] = key[i] /\ j <= i)}
<1>1. \A i : Place(key, i) = Cardinality(upto(i))
  BY DEF Place
<1>2. \A i \in 1..n : key[i] \in Int
  OBVIOUS
<1>3. ASSUME NEW i \in 1..n
      PROVE  /\ upto(i) \subseteq 1..n /\ i \in upto(i)
             /\ IsFiniteSet(upto(i)) /\ Cardinality(upto(i)) \in 1..n
  <2>1. upto(i) \subseteq 1..n /\ i \in upto(i)
    BY <1>2
  <2> HIDE DEF upto
  <2>2. IsFiniteSet(upto(i)) /\ Cardinality(upto(i)) <= n
    BY <2>1, Interval, FS_Subset
  <2>3. Cardinality(upto(i)) \in Nat
    BY <2>2, FS_CardinalityType
  <2>4. Cardinality(upto(i)) # 0
    BY <2>1, <2>2, FS_EmptySet
  <2>5. QED
    BY <2>1, <2>2, <2>3, <2>4
<1>4. ASSUME NEW i \in 1..n, NEW j \in 1..n,
             key[i] < key[j] \/ (key[i] = key[j] /\ i < j)
      PROVE  Cardinality(upto(i)) < Cardinality(upto(j))
  <2>1. j \notin upto(i)
    BY <1>2, <1>4
  <2>2. upto(i) \subseteq upto(j)
    <3>1. ASSUME NEW k \in 1..n, key[k] < key[i] \/ (key[k] = key[i] /\ k <= i)
          PROVE  key[k] < key[j] \/ (key[k] = key[j] /\ k <= j)
      <4>1. key[i] \in Int /\ key[j] \in Int /\ key[k] \in Int
        BY <1>2
      <4>2. QED
        BY <1>4, <3>1, <4>1
    <3>2. QED
      BY <3>1
  <2> HIDE DEF upto
  <2>3. j \in upto(j) /\ IsFiniteSet(upto(j))
    BY <1>3
  <2>4. Cardinality(upto(i)) \in Nat /\ Cardinality(upto(j)) \in Nat
    BY <1>3
  <2>5. /\ Cardinality(upto(i)) <= Cardinality(upto(j))
        /\ Cardinality(upto(i)) # Cardinality(upto(j))
    BY <2>1, <2>2, <2>3, FS_Subset
  <2>6. QED
    BY <2>4, <2>5
<1> HIDE DEF upto
<1>5. QED
  BY <1>1, <1>3, <1>4

\* Every position is the place of one element: places differ, and there are as many
\* of them as positions.
LEMMA PlaceIsOnto ==
    ASSUME NEW n \in Nat, NEW key \in [1..n -> Int]
    PROVE  /\ \A k \in 1..n : \E i \in 1..n : Place(key, i) = k
           /\ \A i, j \in 1..n : Place(key, i) = Place(key, j) => i = j
<1> DEFINE f == [i \in 1..n |-> Place(key, i)]
<1>1. f \in [1..n -> 1..n]
  BY PlaceFacts
<1>2. ASSUME NEW i \in 1..n, NEW j \in 1..n, i # j PROVE Place(key, i) # Place(key, j)
  <2>1. Place(key, i) \in Int /\ Place(key, j) \in Int
    BY PlaceFacts
  <2>2. key[i] \in Int /\ key[j] \in Int /\ i \in Int /\ j \in Int
    OBVIOUS
  <2>3. \/ key[i] < key[j] \/ (key[i] = key[j] /\ i < j)
        \/ key[j] < key[i] \/ (key[j] = key[i] /\ j < i)
    BY <1>2, <2>2
  <2>4. Place(key, i) < Place(key, j) \/ Place(key, j) < Place(key, i)
    BY <2>3, PlaceFacts
  <2>5. QED
    BY <2>1, <2>4
<1>3. f \in Injection(1..n, 1..n)
  BY <1>1, <1>2, Fun_IsInj
<1> HIDE DEF f
<1>4. f \in Surjection(1..n, 1..n)
  <2>1. IsFiniteSet(1..n)
    BY Interval
  <2>2. QED
    BY <1>3, <2>1, FS_Injection
<1>5. \A k \in 1..n : \E i \in 1..n : f[i] = k
  BY <1>4 DEF Surjection
<1>6. QED
  BY <1>2, <1>5 DEF f

\* Sorting n elements of s by key takes them in the order p.
Sorts(p, n, s, key) ==
    /\ SortBy(s, key) = [k \in 1..n |-> s[p[k]]]
    /\ \A i, j \in 1..n : i <= j => key[p[i]] <= key[p[j]]

\* The sort permutes its input and orders the keys.
LEMMA SortByOrders ==
    ASSUME NEW n \in Nat, NEW key \in [1..n -> Int], NEW V, NEW s \in [1..n -> V]
    PROVE  \E p \in Bijection(1..n, 1..n) : Sorts(p, n, s, key)
<1> DEFINE at(k) == CHOOSE i \in 1..n : Place(key, i) = k
           p     == [k \in 1..n |-> at(k)]
<1>1. \A k \in 1..n : at(k) \in 1..n /\ Place(key, at(k)) = k
  BY PlaceIsOnto
<1>2. p \in [1..n -> 1..n] /\ \A k \in 1..n : p[k] = at(k)
  BY <1>1
<1> HIDE DEF at
<1>3. p \in Bijection(1..n, 1..n)
  <2>1. \A i, j \in 1..n : p[i] = p[j] => i = j
    BY <1>1, <1>2
  <2>2. \A k \in 1..n : p[Place(key, k)] = k /\ Place(key, k) \in 1..n
    <3>1. ASSUME NEW k \in 1..n PROVE Place(key, k) \in 1..n /\ at(Place(key, k)) = k
      <4>1. Place(key, k) \in 1..n
        BY PlaceFacts
      <4>2. at(Place(key, k)) \in 1..n /\ Place(key, at(Place(key, k))) = Place(key, k)
        BY <1>1, <4>1
      <4>3. QED
        BY <4>1, <4>2, PlaceIsOnto
    <3>2. QED
      BY <1>2, <3>1
  <2>3. p \in Surjection(1..n, 1..n)
    <3>1. \A k \in 1..n : \E i \in 1..n : p[i] = k
      BY <2>2
    <3>2. QED
      BY <1>2, <3>1, Fun_IsSurj
  <2>4. p \in Injection(1..n, 1..n)
    BY <1>2, <2>1, Fun_IsInj
  <2>5. QED
    BY <2>3, <2>4 DEF Bijection
<1>4. ASSUME NEW i \in 1..n, NEW j \in 1..n, i <= j PROVE key[p[i]] <= key[p[j]]
  <2>1. p[i] \in 1..n /\ p[j] \in 1..n /\ key[p[i]] \in Int /\ key[p[j]] \in Int
    BY <1>2
  <2>2. Place(key, p[i]) = i /\ Place(key, p[j]) = j
    BY <1>1, <1>2
  <2>3. ~(j < i)
    BY <1>4
  <2>4. ~(key[p[j]] < key[p[i]])
    BY <2>1, <2>2, <2>3, PlaceFacts
  <2>5. QED
    BY <2>1, <2>4
<1>5. SortBy(s, key) = [k \in 1..n |-> s[p[k]]]
  <2>0. DOMAIN s = 1..n
    OBVIOUS
  <2>1. SortBy(s, key) = [k \in 1..n |-> s[at(k)]]
    BY <2>0 DEF SortBy, at
  <2>2. QED
    BY <1>2, <2>1
<1> HIDE DEF p
<1>6. Sorts(p, n, s, key)
  BY <1>4, <1>5 DEF Sorts
<1>7. QED
  BY <1>3, <1>6

\* Sorting numbers permutes them into ascending order.
LEMMA AscendingFacts ==
    ASSUME NEW n \in Nat, NEW d \in [1..n -> Int]
    PROVE  \E p \in Bijection(1..n, 1..n) :
              /\ Ascending(d) = [k \in 1..n |-> d[p[k]]]
              /\ \A i, j \in 1..n : i <= j => d[p[i]] <= d[p[j]]
<1>1. PICK p \in Bijection(1..n, 1..n) : Sorts(p, n, d, d)
  BY SortByOrders
<1>2. QED
  BY <1>1 DEF Sorts, Ascending

\* A bijection finds as many elements before it as after it.
LEMMA Preimage ==
    ASSUME NEW S, NEW T, NEW g \in Bijection(S, T), IsFiniteSet(T), NEW U \in SUBSET T
    PROVE  /\ IsFiniteSet({x \in S : g[x] \in U})
           /\ Cardinality({x \in S : g[x] \in U}) = Cardinality(U)
<1> DEFINE V == {x \in S : g[x] \in U}
           h == [x \in V |-> g[x]]
<1>1. /\ g \in [S -> T] /\ \A x, y \in S : g[x] = g[y] => x = y
      /\ \A t \in T : \E x \in S : g[x] = t
  BY DEF Bijection, Injection, Surjection, IsInjective
<1>2. IsFiniteSet(S)
  <2>1. g \in Injection(S, T)
    BY DEF Bijection
  <2>2. QED
    BY <2>1, FS_Injection
<1>3. IsFiniteSet(V)
  <2>1. V \in SUBSET S
    OBVIOUS
  <2>2. QED
    BY <1>2, <2>1, FS_Subset
<1>4. h \in Bijection(V, U)
  BY <1>1 DEF Bijection, Injection, Surjection, IsInjective
<1> HIDE DEF V, h
<1>5. Cardinality(U) = Cardinality(V)
  <2>1. ExistsBijection(V, U)
    BY <1>4 DEF ExistsBijection
  <2>2. QED
    BY <1>3, <2>1, FS_Bijection
<1>6. QED
  BY <1>3, <1>5 DEF V

\* Listing a finite set names each element once.
LEMMA SetToSeqIsBijection ==
    ASSUME NEW S, IsFiniteSet(S)
    PROVE  SetToSeq(S) \in Bijection(1..Cardinality(S), S)
<1> DEFINE n == Cardinality(S)
           g == SetToSeq(S)
<1>1. n \in Nat /\ ExistsBijection(1..n, S)
  BY FS_CardinalityType
<1>2. \E f \in [1..n -> S] : IsInjective(f)
  BY <1>1 DEF ExistsBijection, Bijection, Injection
<1>3. g \in [1..n -> S] /\ IsInjective(g)
  BY <1>2 DEF SetToSeq
<1> HIDE DEF g
<1>4. g \in Injection(1..n, S)
  BY <1>3 DEF Injection
<1>5. Cardinality(1..n) = n
  BY <1>1, Interval
<1>6. g \in Surjection(1..n, S)
  <2> HIDE DEF n
  <2>1. Cardinality(1..n) = Cardinality(S)
    BY <1>5 DEF n
  <2>2. QED
    BY <1>4, <2>1, FS_Injection
<1>7. QED
  BY <1>4, <1>6 DEF Bijection, g

\* The composition of two bijections is one.
LEMMA Compose ==
    ASSUME NEW S, NEW T, NEW U, NEW p \in Bijection(S, T), NEW g \in Bijection(T, U),
           NEW h \in [S -> U], \A x \in S : h[x] = g[p[x]]
    PROVE  h \in Bijection(S, U)
<1>1. /\ p \in [S -> T] /\ \A x, y \in S : p[x] = p[y] => x = y
      /\ \A t \in T : \E x \in S : p[x] = t
  BY DEF Bijection, Injection, Surjection, IsInjective
<1>2. /\ g \in [T -> U] /\ \A x, y \in T : g[x] = g[y] => x = y
      /\ \A t \in U : \E x \in T : g[x] = t
  BY DEF Bijection, Injection, Surjection, IsInjective
<1>3. \A x, y \in S : h[x] = h[y] => x = y
  BY <1>1, <1>2
<1>4. \A u \in U : \E x \in S : h[x] = u
  BY <1>1, <1>2
<1>5. QED
  BY <1>3, <1>4 DEF Bijection, Injection, Surjection, IsInjective

\* Values collected from a finite set and sorted are the values of all its elements,
\* in ascending order.
LEMMA SortedValues ==
    ASSUME NEW D, IsFiniteSet(D), NEW f \in [D -> Int]
    PROVE  LET keys == SetToSeq(D)
               n    == Cardinality(D)
           IN  /\ n \in Nat
               /\ \E p \in Bijection(1..n, D) :
                     /\ Ascending([i \in DOMAIN keys |-> f[keys[i]]]) = [k \in 1..n |-> f[p[k]]]
                     /\ \A i, j \in 1..n : i <= j => f[p[i]] <= f[p[j]]
<1> DEFINE keys == SetToSeq(D)
           n    == Cardinality(D)
           d    == [i \in DOMAIN keys |-> f[keys[i]]]
<1>1. n \in Nat
  BY FS_CardinalityType
<1>2. keys \in Bijection(1..n, D)
  BY SetToSeqIsBijection
<1> HIDE DEF keys, n
<1>3. keys \in [1..n -> D] /\ DOMAIN keys = 1..n
  BY <1>2 DEF Bijection, Injection
<1>4. d \in [1..n -> Int] /\ \A i \in 1..n : d[i] = f[keys[i]]
  BY <1>3
<1> HIDE DEF d
<1>5. PICK p \in Bijection(1..n, 1..n) :
             /\ Ascending(d) = [k \in 1..n |-> d[p[k]]]
             /\ \A i, j \in 1..n : i <= j => d[p[i]] <= d[p[j]]
  BY <1>1, <1>4, AscendingFacts
<1> DEFINE g == [k \in 1..n |-> keys[p[k]]]
<1>6. \A k \in 1..n : p[k] \in 1..n
  BY <1>5 DEF Bijection, Injection
<1>7. g \in [1..n -> D] /\ \A k \in 1..n : g[k] = keys[p[k]]
  BY <1>3, <1>6
<1> HIDE DEF g
<1>8. g \in Bijection(1..n, D)
  <2>1. PICK I : I = 1..n
    OBVIOUS
  <2>2. p \in Bijection(I, I) /\ keys \in Bijection(I, D) /\ g \in [I -> D]
        /\ \A k \in I : g[k] = keys[p[k]]
    BY <1>2, <1>5, <1>7, <2>1
  <2>3. g \in Bijection(I, D)
    BY <2>2, Compose
  <2>4. QED
    BY <2>1, <2>3
<1>9. \A k \in 1..n : d[p[k]] = f[g[k]]
  BY <1>4, <1>6, <1>7
<1>10. Ascending(d) = [k \in 1..n |-> f[g[k]]]
  BY <1>5, <1>9
<1>11. \A i, j \in 1..n : i <= j => f[g[i]] <= f[g[j]]
  BY <1>5, <1>9
<1>12. QED
  BY <1>1, <1>8, <1>10, <1>11 DEF d, keys, n

-------------------------------------------------------------------------------
(* Percentiles *)

\* Rounding up, without a division.
LEMMA CeilingFacts ==
    ASSUME NEW a \in Nat, NEW b \in Nat, b > 0
    PROVE  /\ Ceiling(a, b) \in Nat
           /\ Ceiling(a, b) * b >= a /\ (Ceiling(a, b) - 1) * b < a
<1> DEFINE x == a + b - 1
           c == x \div b
<1>1. x \in Nat /\ x = a + b - 1
  OBVIOUS
<1> HIDE DEF x
<1>2. c \in Int /\ c >= 0
  BY <1>1
<1>3. b * c <= x /\ x < b * c + b
  BY <1>1, Z3
<1>4. QED
  BY <1>1, <1>2, <1>3 DEF Ceiling

\* Multiplying by a natural number does not reverse an order.
LEMMA Monotone ==
    ASSUME NEW x \in Nat, NEW y \in Nat, NEW z \in Nat, x <= y
    PROVE  x * z <= y * z
<1> PICK w \in Nat : y = x + w
  <2>1. y - x \in Nat /\ y = x + (y - x)
    OBVIOUS
  <2>2. QED
    BY <2>1
<1>1. y * z = x * z + w * z /\ w * z >= 0 /\ x * z \in Int
  BY Z3
<1>2. QED
  BY <1>1

\* A product of whole numbers is one.
LEMMA Product == \A x, y \in Int : x * y \in Int
OBVIOUS

\* A division does not reverse an order.
LEMMA DivisionIsMonotone ==
    ASSUME NEW x \in Nat, NEW y \in Nat, NEW b \in Nat, b > 0, x <= y
    PROVE  x \div b \in Nat /\ y \div b \in Nat /\ x \div b <= y \div b
<1>1. PICK q \in Nat : q = x \div b /\ b * q <= x
  <2>1. x \div b \in Int /\ x \div b >= 0 /\ b * (x \div b) <= x
    BY Z3
  <2>2. QED
    BY <2>1
<1>2. PICK r \in Nat : r = y \div b /\ y < b * r + b
  <2>1. y \div b \in Int /\ y \div b >= 0 /\ y < b * (y \div b) + b
    BY Z3
  <2>2. QED
    BY <2>1
<1>3. q <= r
  <2> SUFFICES ASSUME r + 1 <= q PROVE FALSE
    OBVIOUS
  <2>1. (r + 1) * b <= q * b
    BY Monotone
  <2>2. b * r + b <= b * q
    BY <2>1, Z3
  <2>3. b * r \in Int /\ b * q \in Int
    BY Product
  <2>4. QED
    BY <1>1, <1>2, <2>2, <2>3
<1>4. QED
  BY <1>1, <1>2, <1>3

\* Comparisons follow one another.
LEMMA Ordered == \A x, y, z \in Int : /\ x >= y /\ y >= z => x >= z
                                      /\ x <= y /\ y < z => x < z
OBVIOUS

\* The rank is a position of the samples; it is the least that covers the share q.
LEMMA RankFacts ==
    ASSUME NEW n \in Nat, n >= 1, NEW q, q.num \in Nat, q.den \in Nat,
           0 < q.num, q.num <= q.den
    PROVE  /\ Rank(q, n) \in 1..n
           /\ Rank(q, n) * q.den >= q.num * n /\ (Rank(q, n) - 1) * q.den < q.num * n
<1> PICK k, d \in Nat : k = q.num /\ d = q.den /\ 0 < k /\ k <= d
  OBVIOUS
<1>1. k * n \in Nat /\ k * n > 0 /\ k * n <= d * n
  BY Z3
<1> PICK a \in Nat : a = k * n
  BY <1>1
<1> DEFINE c == Ceiling(a, d)
<1>2. c \in Nat /\ c * d >= a /\ (c - 1) * d < a
  <2>1. d > 0
    OBVIOUS
  <2>2. QED
    BY <2>1, CeilingFacts
<1>3. c >= 1
  BY <1>1, <1>2
<1>4. c <= n
  <2>1. SUFFICES ASSUME c >= n + 1 PROVE FALSE
    BY <1>2
  <2>2. (c - 1) * d >= n * d
    BY <1>2, <2>1, Z3
  <2>3. QED
    BY <1>1, <1>2, <2>2
<1>5. Rank(q, n) = c
  BY <1>2, <1>3, <1>4 DEF Rank
<1>6. QED
  BY <1>2, <1>3, <1>4, <1>5

\* Of sorted samples, the value percentile_nearest_rank() returns (stats.rs) is what
\* a percentile means: the share q lies at or below it, and less than q below.
THEOREM NearestRankIsQuantile ==
    ASSUME NEW s \in Seq(Int), Len(s) >= 1,
           \A i, j \in 1..Len(s) : i <= j => s[i] <= s[j],
           NEW q, q.num \in Nat, q.den \in Nat, 0 < q.num, q.num <= q.den
    PROVE  IsQuantile(NearestRank(s, q), s, q)
<1> PICK n \in Nat : n = Len(s) /\ n >= 1
  OBVIOUS
<1>1. /\ Rank(q, n) \in 1..n
      /\ Rank(q, n) * q.den >= q.num * n /\ (Rank(q, n) - 1) * q.den < q.num * n
  BY RankFacts
<1> PICK r \in 1..n : r = Rank(q, n)
  BY <1>1
<1>2. s # <<>> /\ NearestRank(s, q) = s[r]
  BY DEF NearestRank
<1>3. DOMAIN s = 1..n /\ \A i \in 1..n : s[i] \in Int
  OBVIOUS
<1> DEFINE AtOrBelow == {i \in 1..n : s[i] <= s[r]}
           Below     == {i \in 1..n : s[i] < s[r]}
<1>4. /\ IsFiniteSet(1..n) /\ Cardinality(1..n) = n
      /\ IsFiniteSet(1..r) /\ Cardinality(1..r) = r
      /\ IsFiniteSet(1..(r - 1)) /\ Cardinality(1..(r - 1)) = r - 1
  <2>1. \A k \in Nat : IsFiniteSet(1..k) /\ Cardinality(1..k) = k
    <3>1. ASSUME NEW k \in Nat PROVE IsFiniteSet(1..k) /\ Cardinality(1..k) = k
      <4>1. /\ IsFiniteSet(1..k)
            /\ Cardinality(1..k) = IF 1 > k THEN 0 ELSE k - 1 + 1
        <5>1. 1 \in Int /\ k \in Int
          OBVIOUS
        <5>2. QED
          BY <5>1, FS_Interval, Zenon
      <4>2. QED
        BY <4>1
    <3>2. QED
      BY <3>1
  <2>2. r \in Nat /\ r - 1 \in Nat
    OBVIOUS
  <2>3. QED
    BY <2>1, <2>2
<1>5. 1..r \subseteq AtOrBelow /\ AtOrBelow \subseteq 1..n
  BY <1>3
<1>6. Below \subseteq 1..(r - 1)
  BY <1>3
<1> HIDE DEF AtOrBelow, Below
<1>7. Cardinality(AtOrBelow) \in Nat /\ Cardinality(AtOrBelow) >= r
  <2>1. IsFiniteSet(AtOrBelow)
    BY <1>4, <1>5, FS_Subset
  <2>2. Cardinality(1..r) <= Cardinality(AtOrBelow)
    BY <1>5, <2>1, FS_Subset
  <2>3. Cardinality(AtOrBelow) \in Nat
    BY <2>1, FS_CardinalityType
  <2>4. QED
    BY <1>4, <2>2, <2>3
<1>8. Cardinality(Below) \in Nat /\ Cardinality(Below) <= r - 1
  <2>1. IsFiniteSet(Below) /\ Cardinality(Below) <= Cardinality(1..(r - 1))
    BY <1>4, <1>6, FS_Subset
  <2>2. Cardinality(Below) \in Nat
    BY <2>1, FS_CardinalityType
  <2>3. QED
    BY <1>4, <2>1, <2>2
<1> PICK a, b \in Nat : a = Cardinality(AtOrBelow) /\ b = Cardinality(Below)
  BY <1>7, <1>8
<1>9. a * q.den >= r * q.den /\ b * q.den <= (r - 1) * q.den
  <2> PICK d \in Nat : d = q.den
    OBVIOUS
  <2>1. r \in Nat /\ a >= r /\ b <= r - 1
    BY <1>7, <1>8
  <2>2. a * d >= r * d
    BY <2>1, Monotone
  <2>3. b * d <= (r - 1) * d
    <3>1. r - 1 \in Nat
      BY <2>1
    <3>2. QED
      BY <2>1, <3>1, Monotone
  <2>4. QED
    BY <2>2, <2>3
<1>10. a * q.den >= q.num * n /\ b * q.den < q.num * n
  <2>1. q.num \in Int /\ q.den \in Int /\ n \in Int /\ a \in Int /\ b \in Int
        /\ r \in Int /\ r - 1 \in Int
    OBVIOUS
  <2>2. /\ a * q.den \in Int /\ b * q.den \in Int /\ r * q.den \in Int
        /\ (r - 1) * q.den \in Int /\ q.num * n \in Int
    BY <2>1, Product
  <2>3. /\ r * q.den >= q.num * n /\ (r - 1) * q.den < q.num * n
        /\ a * q.den >= r * q.den /\ b * q.den <= (r - 1) * q.den
    BY <1>1, <1>9
  <2>4. a * q.den >= q.num * n
    BY <2>2, <2>3, Ordered, Zenon
  <2>5. b * q.den < q.num * n
    <3> DEFINE x == b * q.den
               y == (r - 1) * q.den
               z == q.num * n
    <3>1. x \in Int /\ y \in Int /\ z \in Int /\ x <= y /\ y < z
      BY <2>2, <2>3
    <3> HIDE DEF x, y, z
    <3>2. x < z
      BY <3>1, Ordered
    <3>3. QED
      BY <3>2 DEF x, z
  <2>6. QED
    BY <2>4, <2>5
<1>11. QED
  BY <1>2, <1>3, <1>4, <1>10 DEF IsQuantile, AtOrBelow, Below

\* A quantile does not depend on how the samples are numbered.
LEMMA QuantileMoves ==
    ASSUME NEW S, NEW T, NEW g \in Bijection(S, T), IsFiniteSet(T),
           NEW f, DOMAIN f = T, NEW x, NEW q
    PROVE  IsQuantile(x, [i \in S |-> f[g[i]]], q) <=> IsQuantile(x, f, q)
<1> DEFINE h == [i \in S |-> f[g[i]]]
<1>1. \A i \in S : g[i] \in T /\ h[i] = f[g[i]]
  BY DEF Bijection, Injection
<1>2. Cardinality(DOMAIN h) = Cardinality(DOMAIN f)
  <2>1. DOMAIN h = {i \in S : g[i] \in T}
    BY <1>1
  <2>2. QED
    BY <2>1, Preimage
<1>3. Cardinality({i \in DOMAIN h : h[i] <= x}) = Cardinality({i \in DOMAIN f : f[i] <= x})
  <2> DEFINE U == {t \in T : f[t] <= x}
  <2>1. {i \in DOMAIN h : h[i] <= x} = {i \in S : g[i] \in U}
    BY <1>1
  <2>2. Cardinality({i \in S : g[i] \in U}) = Cardinality(U)
    <3>1. U \in SUBSET T
      OBVIOUS
    <3> HIDE DEF U
    <3>2. QED
      BY <3>1, Preimage
  <2>3. QED
    BY <2>1, <2>2
<1>4. Cardinality({i \in DOMAIN h : h[i] < x}) = Cardinality({i \in DOMAIN f : f[i] < x})
  <2> DEFINE U == {t \in T : f[t] < x}
  <2>1. {i \in DOMAIN h : h[i] < x} = {i \in S : g[i] \in U}
    BY <1>1
  <2>2. Cardinality({i \in S : g[i] \in U}) = Cardinality(U)
    <3>1. U \in SUBSET T
      OBVIOUS
    <3> HIDE DEF U
    <3>2. QED
      BY <3>1, Preimage
  <2>3. QED
    BY <2>1, <2>2
<1> HIDE DEF h
<1>5. IsQuantile(x, h, q) <=> IsQuantile(x, f, q)
  BY <1>2, <1>3, <1>4, Zenon DEF IsQuantile
<1>6. QED
  BY <1>5 DEF h

\* The nearest rank of sorted samples is a quantile of the unsorted ones.
LEMMA RankOfSorted ==
    ASSUME NEW n \in Nat, n >= 1, NEW D, IsFiniteSet(D), NEW f \in [D -> Int],
           NEW p \in Bijection(1..n, D),
           \A i, j \in 1..n : i <= j => f[p[i]] <= f[p[j]],
           NEW q, q.num \in Nat, q.den \in Nat, 0 < q.num, q.num <= q.den
    PROVE  IsQuantile(NearestRank([k \in 1..n |-> f[p[k]]], q), f, q)
<1> DEFINE s == [k \in 1..n |-> f[p[k]]]
<1>1. \A k \in 1..n : p[k] \in D /\ f[p[k]] \in Int
  BY DEF Bijection, Injection
<1>2. s \in Seq(Int) /\ Len(s) = n /\ DOMAIN s = 1..n
  BY <1>1
<1>3. \A i, j \in 1..Len(s) : i <= j => s[i] <= s[j]
  BY <1>2
<1>4. IsQuantile(NearestRank(s, q), s, q)
  <2> HIDE DEF s
  <2>1. QED
    BY <1>2, <1>3, NearestRankIsQuantile
<1>5. DOMAIN f = D
  OBVIOUS
<1> DEFINE x == NearestRank(s, q)
<1> HIDE DEF x
<1>6. IsQuantile(x, s, q) <=> IsQuantile(x, f, q)
  BY <1>5, QuantileMoves
<1>7. QED
  BY <1>4, <1>6 DEF x

\* Of samples in any order, sorted as LatencyRecorder::summary() does (stats.rs), the
\* value it shows for a percentile is that percentile of the samples.
THEOREM PercentileOfSamples ==
    ASSUME NEW n \in Nat, n >= 1, NEW d \in [1..n -> Int],
           NEW q, q.num \in Nat, q.den \in Nat, 0 < q.num, q.num <= q.den
    PROVE  IsQuantile(NearestRank(Ascending(d), q), d, q)
<1>1. PICK p \in Bijection(1..n, 1..n) :
             /\ Ascending(d) = [k \in 1..n |-> d[p[k]]]
             /\ \A i, j \in 1..n : i <= j => d[p[i]] <= d[p[j]]
  BY AscendingFacts
<1>2. PICK I : I = 1..n
  OBVIOUS
<1>3. /\ IsFiniteSet(I) /\ d \in [I -> Int] /\ p \in Bijection(1..n, I)
      /\ \A i, j \in 1..n : i <= j => d[p[i]] <= d[p[j]]
  BY <1>1, <1>2, Interval
<1> DEFINE s == [k \in 1..n |-> d[p[k]]]
<1>4. IsQuantile(NearestRank(s, q), d, q)
  BY <1>3, RankOfSorted
<1>5. QED
  BY <1>1, <1>4

-------------------------------------------------------------------------------
(* Sums.  SumFunctionOnSet is a recursive function of the subsets, which     *)
(* takes its elements in an order of its own; that it exists and that any    *)
(* element may be taken first is what makes it a sum.                        *)

IsSum(f, D, g) ==
    g = [s \in SUBSET D |-> IF s = {} THEN 0
                            ELSE f[CHOOSE x \in s : TRUE] + g[s \ {CHOOSE x \in s : TRUE}]]

\* The recursion over the subsets of a finite set has a solution.
LEMMA SumExists ==
    ASSUME NEW f, NEW D, IsFiniteSet(D)
    PROVE  \E g : IsSum(f, D, g)
<1> DEFINE at(s)   == CHOOSE x \in s : TRUE
           step(g, s) == IF s = {} THEN 0 ELSE f[at(s)] + g[s \ {at(s)}]
           upto(n) == {s \in SUBSET D : Cardinality(s) <= n}
           T == {n \in Nat : \E g : DOMAIN g = SUBSET D /\ \A s \in upto(n) : g[s] = step(g, s)}
<1>1. \A s \in SUBSET D : IsFiniteSet(s) /\ Cardinality(s) \in Nat
  BY FS_Subset, FS_CardinalityType
<1>2. \A s : s # {} => at(s) \in s
  OBVIOUS
<1>3. 0 \in T
  <2> DEFINE g == [s \in SUBSET D |-> 0]
  <2>1. \A s \in upto(0) : s = {}
    <3>1. ASSUME NEW s \in upto(0) PROVE s = {}
      <4>1. IsFiniteSet(s) /\ Cardinality(s) = 0
        BY <1>1
      <4>2. QED
        BY <4>1, FS_EmptySet
    <3>2. QED
      BY <3>1
  <2>2. \A s \in upto(0) : g[s] = step(g, s)
    BY <2>1
  <2>3. DOMAIN g = SUBSET D
    OBVIOUS
  <2> HIDE DEF g, step, upto
  <2>4. QED
    BY <2>2, <2>3
<1>4. ASSUME NEW n \in Nat, n \in T PROVE n + 1 \in T
  <2> PICK g : DOMAIN g = SUBSET D /\ \A s \in upto(n) : g[s] = step(g, s)
    BY <1>4
  <2> DEFINE h == [s \in SUBSET D |-> IF s \in upto(n) THEN g[s] ELSE step(g, s)]
  <2>1. \A s \in SUBSET D : h[s] = step(g, s)
    OBVIOUS
  <2>2. ASSUME NEW s \in upto(n + 1), s # {} PROVE s \ {at(s)} \in upto(n)
    <3>1. /\ IsFiniteSet(s) /\ Cardinality(s) \in Nat /\ Cardinality(s) <= n + 1
          /\ at(s) \in s
      BY <1>1, <1>2, <2>2
    <3> HIDE DEF at
    <3>2. Cardinality(s \ {at(s)}) = Cardinality(s) - 1
      BY <3>1, FS_RemoveElement, ZenonT(30)
    <3>3. QED
      BY <3>1, <3>2
  <2>3. ASSUME NEW s \in upto(n + 1) PROVE h[s] = step(h, s)
    <3>1. s \in SUBSET D
      OBVIOUS
    <3>2. CASE s = {}
      BY <2>1, <3>1, <3>2
    <3>3. CASE s # {}
      <4> DEFINE r == s \ {at(s)}
      <4>1. r \in upto(n)
        BY <2>2, <3>3
      <4> HIDE DEF r
      <4>2. h[r] = g[r]
        BY <4>1
      <4>3. h[s] = f[at(s)] + g[r]
        BY <2>1, <3>1, <3>3 DEF r
      <4>4. QED
        BY <3>3, <4>2, <4>3 DEF r
    <3>4. QED
      BY <3>2, <3>3
  <2>4. DOMAIN h = SUBSET D
    OBVIOUS
  <2> HIDE DEF h, step, upto
  <2>5. QED
    BY <2>3, <2>4
<1>5. Nat \subseteq T
  <2> HIDE DEF T
  <2>1. QED
    BY <1>3, <1>4, NatSetInduction
<1>6. Cardinality(D) \in Nat
  BY FS_CardinalityType
<1> PICK g : DOMAIN g = SUBSET D /\ \A s \in upto(Cardinality(D)) : g[s] = step(g, s)
  BY <1>5, <1>6
<1>7. \A s \in SUBSET D : s \in upto(Cardinality(D))
  BY FS_Subset
<1> DEFINE h == [s \in SUBSET D |-> g[s]]
<1>8. \A s \in SUBSET D : h[s] = step(h, s)
  <2>1. ASSUME NEW s \in SUBSET D PROVE h[s] = step(h, s)
    <3>1. s \ {at(s)} \in SUBSET D
      OBVIOUS
    <3>2. h[s] = g[s] /\ h[s \ {at(s)}] = g[s \ {at(s)}]
      BY <3>1
    <3> HIDE DEF h, at
    <3>3. QED
      BY <1>7, <3>2
  <2> QED
    BY <2>1
<1>9. h = [s \in SUBSET D |-> step(h, s)]
  BY <1>8
<1> HIDE DEF h
<1>10. QED
  BY <1>9 DEF IsSum

\* Two solutions, the second over a subset, agree where both are defined.
LEMMA SumUnique ==
    ASSUME NEW f, NEW D, IsFiniteSet(D), NEW g, IsSum(f, D, g), NEW E \in SUBSET D,
           NEW h, IsSum(f, E, h)
    PROVE  g[E] = h[E]
<1> DEFINE Good == {s \in SUBSET E : g[s] = h[s]}
<1>1. IsFiniteSet(E)
  BY FS_Subset
<1>2. ASSUME NEW s \in SUBSET E, \A x \in s : s \ {x} \in Good PROVE s \in Good
  <2>1. CASE s = {}
    <3>1. g[s] = 0 /\ h[s] = 0
      BY <2>1 DEF IsSum
    <3>2. QED
      BY <3>1
  <2>2. CASE s # {}
    <3> DEFINE x == CHOOSE x \in s : TRUE
    <3>1. x \in s
      BY <2>2
    <3>2. g[s] = f[x] + g[s \ {x}]
      BY <2>2 DEF IsSum
    <3>3. h[s] = f[x] + h[s \ {x}]
      BY <2>2 DEF IsSum
    <3> HIDE DEF x
    <3>4. g[s \ {x}] = h[s \ {x}]
      BY <1>2, <3>1
    <3>5. QED
      BY <3>2, <3>3, <3>4
  <2>3. QED
    BY <2>1, <2>2
<1> HIDE DEF Good
<1>3. E \in Good
  BY <1>1, <1>2, SubsetInduction
<1>4. QED
  BY <1>3 DEF Good

\* A sum of integers is an integer.
LEMMA SumType ==
    ASSUME NEW f, NEW D, IsFiniteSet(D), \A x \in D : f[x] \in Int, NEW g, IsSum(f, D, g)
    PROVE  \A s \in SUBSET D : g[s] \in Int
<1> DEFINE Good == {s \in SUBSET D : g[s] \in Int}
<1>1. ASSUME NEW s \in SUBSET D, \A x \in s : s \ {x} \in Good PROVE s \in Good
  <2>1. CASE s = {}
    BY <2>1 DEF IsSum
  <2>2. CASE s # {}
    <3> DEFINE c == CHOOSE x \in s : TRUE
    <3>1. c \in s
      BY <2>2
    <3>2. g[s] = f[c] + g[s \ {c}]
      BY <2>2 DEF IsSum
    <3> HIDE DEF c
    <3>3. f[c] \in Int /\ g[s \ {c}] \in Int
      BY <1>1, <3>1
    <3>4. QED
      BY <3>2, <3>3
  <2>3. QED
    BY <2>1, <2>2
<1> HIDE DEF Good
<1>2. \A s \in SUBSET D : s \in Good
  BY <1>1, SubsetInduction
<1>3. QED
  BY <1>2 DEF Good

\* A sum does not depend on which element is taken first.
LEMMA SumAnyFirst ==
    ASSUME NEW f, NEW D, IsFiniteSet(D), \A x \in D : f[x] \in Int, NEW g, IsSum(f, D, g)
    PROVE  \A x \in D : g[D] = f[x] + g[D \ {x}]
<1> DEFINE Good == {s \in SUBSET D : \A x \in s : g[s] = f[x] + g[s \ {x}]}
<1>0. \A s \in SUBSET D : g[s] \in Int
  BY SumType
<1>1. ASSUME NEW s \in SUBSET D, \A x \in s : s \ {x} \in Good PROVE s \in Good
  <2> SUFFICES ASSUME NEW x \in s PROVE g[s] = f[x] + g[s \ {x}]
    OBVIOUS
  <2> DEFINE c == CHOOSE y \in s : TRUE
  <2>1. c \in s
    OBVIOUS
  <2>2. g[s] = f[c] + g[s \ {c}]
    BY DEF IsSum
  <2> HIDE DEF c
  <2>3. CASE x = c
    BY <2>2, <2>3
  <2>4. CASE x # c
    <3> DEFINE r == (s \ {c}) \ {x}
    <3>1. x \in s \ {c} /\ c \in s \ {x} /\ r = (s \ {x}) \ {c}
      BY <2>1, <2>4
    <3>2. g[s \ {c}] = f[x] + g[r]
      BY <1>1, <2>1, <3>1
    <3>3. g[s \ {x}] = f[c] + g[r]
      BY <1>1, <3>1
    <3>4. f[x] \in Int /\ f[c] \in Int /\ g[r] \in Int
      BY <1>0, <2>1
    <3> HIDE DEF r
    <3>5. QED
      BY <2>2, <3>2, <3>3, <3>4
  <2>5. QED
    BY <2>3, <2>4
<1> HIDE DEF Good
<1>2. \A s \in SUBSET D : s \in Good
  BY <1>1, SubsetInduction
<1>3. D \in Good
  BY <1>2
<1>4. QED
  BY <1>3 DEF Good

\* SumFunctionOnSet is the value of a solution.
LEMMA SumIs ==
    ASSUME NEW f, NEW D, IsFiniteSet(D)
    PROVE  \E g : IsSum(f, D, g) /\ SumFunctionOnSet(f, D) = g[D]
<1> DEFINE g == CHOOSE g : IsSum(f, D, g)
<1>1. IsSum(f, D, g)
  BY SumExists
<1>2. SumFunctionOnSet(f, D) = g[D]
  BY DEF SumFunctionOnSet, FoldFunctionOnSet, MapThenFoldSet, IsSum
<1> HIDE DEF g
<1>3. QED
  BY <1>1, <1>2

\* A sum is what any one element adds to the sum of the others.
LEMMA SumFacts ==
    ASSUME NEW f, NEW D, IsFiniteSet(D), \A x \in D : f[x] \in Int
    PROVE  /\ SumFunctionOnSet(f, D) \in Int
           /\ D = {} => SumFunctionOnSet(f, D) = 0
           /\ \A x \in D : SumFunctionOnSet(f, D) = f[x] + SumFunctionOnSet(f, D \ {x})
<1>1. PICK g : IsSum(f, D, g) /\ SumFunctionOnSet(f, D) = g[D]
  BY SumIs
<1>2. g[D] \in Int
  BY <1>1, SumType
<1>3. D = {} => g[D] = 0
  BY <1>1 DEF IsSum
<1>4. ASSUME NEW x \in D PROVE SumFunctionOnSet(f, D) = f[x] + SumFunctionOnSet(f, D \ {x})
  <2> DEFINE E == D \ {x}
  <2>1. E \in SUBSET D /\ IsFiniteSet(E)
    BY FS_RemoveElement
  <2>2. g[D] = f[x] + g[E]
    BY <1>1, SumAnyFirst
  <2> HIDE DEF E
  <2>3. PICK h : IsSum(f, E, h) /\ SumFunctionOnSet(f, E) = h[E]
    BY <2>1, SumIs
  <2>4. g[E] = h[E]
    BY <1>1, <2>1, <2>3, SumUnique
  <2>5. QED
    BY <1>1, <2>2, <2>3, <2>4 DEF E
<1>5. QED
  BY <1>1, <1>2, <1>3, <1>4

\* SumFacts for the subsets of a set.
LEMMA SumOver ==
    ASSUME NEW f, NEW D, IsFiniteSet(D), \A x \in D : f[x] \in Int
    PROVE  \A s \in SUBSET D :
              /\ SumFunctionOnSet(f, s) \in Int
              /\ s = {} => SumFunctionOnSet(f, s) = 0
              /\ \A x \in s : SumFunctionOnSet(f, s) = f[x] + SumFunctionOnSet(f, s \ {x})
<1> TAKE s \in SUBSET D
<1>1. IsFiniteSet(s) /\ \A x \in s : f[x] \in Int
  BY FS_Subset
<1>2. QED
  BY <1>1, SumFacts

\* The sum of the sums is the sum of both.
LEMMA SumAdd ==
    ASSUME NEW D, IsFiniteSet(D), NEW f, NEW g, NEW h,
           \A x \in D : f[x] \in Int /\ g[x] \in Int /\ h[x] = f[x] + g[x]
    PROVE  SumFunctionOnSet(h, D) = SumFunctionOnSet(f, D) + SumFunctionOnSet(g, D)
<1> DEFINE F(s) == SumFunctionOnSet(f, s)
           G(s) == SumFunctionOnSet(g, s)
           H(s) == SumFunctionOnSet(h, s)
           Good == {s \in SUBSET D : H(s) = F(s) + G(s)}
<1>1. \A s \in SUBSET D : F(s) \in Int /\ (s = {} => F(s) = 0)
                          /\ \A x \in s : F(s) = f[x] + F(s \ {x})
  BY SumOver, SMTT(20)
<1>2. \A s \in SUBSET D : G(s) \in Int /\ (s = {} => G(s) = 0)
                          /\ \A x \in s : G(s) = g[x] + G(s \ {x})
  BY SumOver
<1>3. \A s \in SUBSET D : H(s) \in Int /\ (s = {} => H(s) = 0)
                          /\ \A x \in s : H(s) = h[x] + H(s \ {x})
  <2>1. \A x \in D : h[x] \in Int
    OBVIOUS
  <2>2. QED
    BY <2>1, SumOver
<1> HIDE DEF F, G, H
<1>4. ASSUME NEW s \in SUBSET D, \A x \in s : s \ {x} \in Good PROVE s \in Good
  <2>1. CASE s = {}
    BY <1>1, <1>2, <1>3, <2>1
  <2>2. CASE s # {}
    <3>1. PICK x \in s : TRUE
      BY <2>2
    <3> DEFINE r == s \ {x}
    <3>2. r \in SUBSET D /\ r \in Good
      BY <1>4, <3>1
    <3>3. H(s) = h[x] + H(r) /\ F(s) = f[x] + F(r) /\ G(s) = g[x] + G(r)
      BY <1>1, <1>2, <1>3, <3>1
    <3> HIDE DEF r
    <3>4. H(r) = F(r) + G(r) /\ F(r) \in Int /\ G(r) \in Int
      BY <1>1, <1>2, <3>2
    <3>5. f[x] \in Int /\ g[x] \in Int /\ h[x] = f[x] + g[x]
      BY <3>1
    <3>6. QED
      BY <3>3, <3>4, <3>5
  <2>3. QED
    BY <2>1, <2>2
<1> HIDE DEF Good
<1>5. \A s \in SUBSET D : s \in Good
  BY <1>4, SubsetInduction
<1>6. D \in Good
  BY <1>5
<1>7. QED
  BY <1>6 DEF Good, F, G, H

\* A sum does not depend on how its terms are named.
LEMMA SumMoves ==
    ASSUME NEW S, NEW T, NEW p \in Bijection(S, T), IsFiniteSet(S), IsFiniteSet(T),
           NEW f, NEW h, \A x \in S : h[p[x]] \in Int /\ f[x] = h[p[x]]
    PROVE  SumFunctionOnSet(f, S) = SumFunctionOnSet(h, T)
<1> DEFINE F(s)  == SumFunctionOnSet(f, s)
           H(t)  == SumFunctionOnSet(h, t)
           at(s) == {p[x] : x \in s}
           Good  == {s \in SUBSET S : F(s) = H(at(s))}
<1>1. /\ p \in [S -> T] /\ \A x, y \in S : p[x] = p[y] => x = y
      /\ \A t \in T : \E x \in S : p[x] = t
  BY DEF Bijection, Injection, Surjection, IsInjective
<1>2. \A s \in SUBSET S : F(s) \in Int /\ (s = {} => F(s) = 0)
                          /\ \A x \in s : F(s) = f[x] + F(s \ {x})
  BY SumOver
<1>3. \A t \in SUBSET T : H(t) \in Int /\ (t = {} => H(t) = 0)
                          /\ \A y \in t : H(t) = h[y] + H(t \ {y})
  <2>1. \A y \in T : h[y] \in Int
    BY <1>1
  <2>2. QED
    BY <2>1, SumOver
<1> HIDE DEF F, H
<1>4. ASSUME NEW s \in SUBSET S, \A x \in s : s \ {x} \in Good PROVE s \in Good
  <2>0. at(s) \in SUBSET T
    BY <1>1
  <2>1. CASE s = {}
    <3>1. at(s) = {}
      BY <2>1
    <3>2. QED
      BY <1>2, <1>3, <2>0, <2>1, <3>1
  <2>2. CASE s # {}
    <3>1. PICK x \in s : TRUE
      BY <2>2
    <3>2. p[x] \in at(s) /\ at(s \ {x}) = at(s) \ {p[x]}
      BY <1>1, <3>1
    <3>3. F(s) = f[x] + F(s \ {x}) /\ F(s \ {x}) = H(at(s \ {x}))
      BY <1>2, <1>4, <3>1
    <3> HIDE DEF at
    <3>4. H(at(s)) = h[p[x]] + H(at(s) \ {p[x]})
      BY <1>3, <2>0, <3>2
    <3>5. f[x] = h[p[x]]
      BY <3>1
    <3>6. QED
      BY <3>2, <3>3, <3>4, <3>5
  <2>3. QED
    BY <2>1, <2>2
<1> HIDE DEF Good
<1>5. \A s \in SUBSET S : s \in Good
  BY <1>4, SubsetInduction
<1>6. S \in Good
  BY <1>5
<1>7. at(S) = T
  BY <1>1
<1>8. QED
  BY <1>6, <1>7 DEF Good, F, H

\* A sum is at most its greatest term times the number of terms.
LEMMA SumBound ==
    ASSUME NEW D, IsFiniteSet(D), NEW m \in Int, NEW f,
           \A x \in D : f[x] \in Int /\ f[x] <= m
    PROVE  SumFunctionOnSet(f, D) <= m * Cardinality(D)
<1> DEFINE F(s) == SumFunctionOnSet(f, s)
           Good == {s \in SUBSET D : F(s) <= m * Cardinality(s)}
<1>1. \A s \in SUBSET D : F(s) \in Int /\ (s = {} => F(s) = 0)
                          /\ \A x \in s : F(s) = f[x] + F(s \ {x})
  BY SumOver
<1> HIDE DEF F
<1>2. \A s \in SUBSET D : IsFiniteSet(s) /\ Cardinality(s) \in Nat
  BY FS_Subset, FS_CardinalityType
<1>3. ASSUME NEW s \in SUBSET D, \A x \in s : s \ {x} \in Good PROVE s \in Good
  <2>1. CASE s = {}
    <3>1. Cardinality(s) = 0 /\ F(s) = 0 /\ m * 0 = 0
      BY <1>1, <2>1, FS_EmptySet
    <3>2. QED
      BY <3>1
  <2>2. CASE s # {}
    <3>1. PICK x \in s : TRUE
      BY <2>2
    <3> DEFINE r == s \ {x}
    <3>2. r \in SUBSET D /\ r \in Good /\ F(s) = f[x] + F(r)
      BY <1>1, <1>3, <3>1
    <3>3. Cardinality(r) = Cardinality(s) - 1
      BY <1>2, <3>1, FS_RemoveElement
    <3> HIDE DEF r
    <3>4. PICK c \in Nat : c = Cardinality(r)
      BY <1>2, <3>2
    <3>5. Cardinality(s) = c + 1
      BY <1>2, <3>3, <3>4
    <3>6. m * (c + 1) = m * c + m /\ m * c \in Int
      BY <3>4
    <3>7. F(r) \in Int /\ F(r) <= m * c /\ f[x] \in Int /\ f[x] <= m
      BY <1>1, <3>1, <3>2, <3>4
    <3>8. F(s) <= m * (c + 1)
      BY <3>2, <3>6, <3>7
    <3>9. QED
      BY <3>5, <3>8
  <2>3. QED
    BY <2>1, <2>2
<1> HIDE DEF Good
<1>4. \A s \in SUBSET D : s \in Good
  BY <1>3, SubsetInduction
<1>5. D \in Good
  BY <1>4
<1>6. QED
  BY <1>5 DEF Good, F

\* A sum of natural numbers is one.
LEMMA SumIsNatural ==
    ASSUME NEW D, IsFiniteSet(D), NEW f \in [D -> Nat]
    PROVE  SumFunctionOnSet(f, D) \in Nat
<1> DEFINE F(s) == SumFunctionOnSet(f, s)
           Good == {s \in SUBSET D : F(s) \in Nat}
<1>1. \A s \in SUBSET D : (s = {} => F(s) = 0) /\ \A x \in s : F(s) = f[x] + F(s \ {x})
  <2>1. \A x \in D : f[x] \in Int
    OBVIOUS
  <2>2. QED
    BY <2>1, SumOver
<1> HIDE DEF F
<1>2. ASSUME NEW s \in SUBSET D, \A x \in s : s \ {x} \in Good PROVE s \in Good
  <2>1. CASE s = {}
    BY <1>1, <2>1
  <2>2. CASE s # {}
    <3>1. PICK x \in s : TRUE
      BY <2>2
    <3>2. f[x] \in Nat /\ F(s \ {x}) \in Nat /\ F(s) = f[x] + F(s \ {x})
      BY <1>1, <1>2, <3>1
    <3>3. QED
      BY <3>2
  <2>3. QED
    BY <2>1, <2>2
<1> HIDE DEF Good
<1>3. \A s \in SUBSET D : s \in Good
  BY <1>2, SubsetInduction
<1>4. D \in Good
  BY <1>3
<1>5. QED
  BY <1>4 DEF Good, F

\* When every element of X is counted under one key, the counts add up to the size of X.
LEMMA SumOfCounts ==
    ASSUME NEW X, IsFiniteSet(X), NEW D, IsFiniteSet(D), NEW g \in [X -> D],
           NEW f, \A d \in D : f[d] = Cardinality({x \in X : g[x] = d})
    PROVE  SumFunctionOnSet(f, D) = Cardinality(X)
<1> DEFINE F(s)  == SumFunctionOnSet(f, s)
           on(s) == {x \in X : g[x] \in s}
           Good  == {s \in SUBSET D : F(s) = Cardinality(on(s))}
<1>1. \A s : on(s) \in SUBSET X /\ IsFiniteSet(on(s)) /\ Cardinality(on(s)) \in Nat
  <2>1. \A s : on(s) \in SUBSET X
    OBVIOUS
  <2> HIDE DEF on
  <2>2. QED
    BY <2>1, FS_Subset, FS_CardinalityType
<1>2. \A d \in D : f[d] = Cardinality(on({d})) /\ f[d] \in Int
  <2>1. ASSUME NEW d \in D PROVE f[d] = Cardinality(on({d}))
    <3>1. on({d}) = {x \in X : g[x] = d}
      OBVIOUS
    <3> HIDE DEF on
    <3>2. QED
      BY <3>1
  <2> HIDE DEF on
  <2>2. QED
    BY <1>1, <2>1
<1>3. \A s \in SUBSET D : F(s) \in Int /\ (s = {} => F(s) = 0)
                          /\ \A x \in s : F(s) = f[x] + F(s \ {x})
  BY <1>2, SumOver, ZenonT(30)
<1> HIDE DEF F
<1>4. ASSUME NEW s \in SUBSET D, \A d \in s : s \ {d} \in Good PROVE s \in Good
  <2>1. CASE s = {}
    <3>1. on(s) = {}
      BY <2>1
    <3> HIDE DEF on
    <3>2. QED
      BY <1>3, <2>1, <3>1, FS_EmptySet
  <2>2. CASE s # {}
    <3>1. PICK d \in s : TRUE
      BY <2>2
    <3>2. on(s) = on({d}) \cup on(s \ {d}) /\ on({d}) \cap on(s \ {d}) = {}
      BY <3>1
    <3>3. F(s) = f[d] + F(s \ {d}) /\ F(s \ {d}) = Cardinality(on(s \ {d}))
      BY <1>3, <1>4, <3>1
    <3> HIDE DEF on
    <3>4. Cardinality(on(s)) = Cardinality(on({d})) + Cardinality(on(s \ {d}))
      <4>1. PICK u, v : u = on({d}) /\ v = on(s \ {d})
        OBVIOUS
      <4>2. IsFiniteSet(u) /\ IsFiniteSet(v) /\ u \cap v = {} /\ on(s) = u \cup v
            /\ Cardinality(u) \in Nat /\ Cardinality(v) \in Nat
        BY <1>1, <3>2, <4>1
      <4>3. Cardinality(u \cup v) = Cardinality(u) + Cardinality(v) - Cardinality({})
        BY <4>2, FS_Union
      <4>4. Cardinality({}) = 0
        BY FS_EmptySet
      <4>5. Cardinality(u \cup v) = Cardinality(u) + Cardinality(v)
        BY <4>2, <4>3, <4>4
      <4>6. QED
        BY <4>1, <4>2, <4>5, Zenon
    <3>5. f[d] = Cardinality(on({d}))
      BY <1>2, <3>1
    <3>6. QED
      BY <3>3, <3>4, <3>5
  <2>3. QED
    BY <2>1, <2>2
<1> HIDE DEF Good
<1>5. \A s \in SUBSET D : s \in Good
  BY <1>4, SubsetInduction
<1>6. D \in Good
  BY <1>5
<1>7. on(D) = X
  OBVIOUS
<1>8. QED
  BY <1>6, <1>7 DEF Good, F

-------------------------------------------------------------------------------
(* Dates *)

\* The days of the y years of an era that come before year y.
Before(y) == 365 * y + y \div 4 - y \div 100

\* What the integer quotient of the code promises.
LEMMA Division == ASSUME NEW a \in Int, NEW b \in Nat, b > 0
                  PROVE  /\ a \div b \in Int
                         /\ b * (a \div b) <= a
                         /\ a < b * (a \div b) + b
  BY SMT

\* YearOfEra names a year of the era that the day is in, the last day included.
LEMMA YearBounds == ASSUME NEW doe \in Int, 0 <= doe, doe <= 146096
   PROVE LET y == YearOfEra(doe) IN
      /\ y \in Int /\ 0 <= y /\ y <= 399
      /\ Before(y) <= doe
      /\ doe < Before(y+1) \/ doe = 146096
<1>1. PICK q \in Int : q = doe \div 1460 /\ 1460*q <= doe /\ doe < 1460*q + 1460
   BY Division
<1>2. PICK c \in Int : c = doe \div 36524 /\ 36524*c <= doe /\ doe < 36524*c + 36524
   BY Division
<1>3. PICK e \in Int : e = doe \div 146096 /\ 146096*e <= doe /\ doe < 146096*e + 146096
   BY Division
<1>4. PICK y \in Int : y = YearOfEra(doe) /\ 365 * y <= doe - q + c - e /\ doe - q + c - e < 365*y+365
   BY <1>1, <1>2, <1>3, Division DEF YearOfEra
<1>5. PICK y4 \in Int : y4 = y \div 4 /\ 4*y4 <= y /\ y < 4*y4+4
   BY Division
<1>6. PICK y100 \in Int : y100 = y \div 100 /\ 100*y100 <= y /\ y < 100*y100+100
   BY Division
<1>7. PICK n4 \in Int : n4 = (y+1) \div 4 /\ 4*n4 <= y+1 /\ y+1 < 4*n4+4
   BY Division
<1>8. PICK n100 \in Int : n100 = (y+1) \div 100 /\ 100*n100 <= y+1 /\ y+1 < 100*n100+100
   BY Division
<1>9. /\ 1460*q <= doe /\ doe < 1460*q + 1460
      /\ 36524*c <= doe /\ doe < 36524*c + 36524
      /\ 146096*e <= doe /\ doe < 146096*e + 146096
      /\ 365 * y <= doe - q + c - e /\ doe - q + c - e < 365*y+365
      /\ 4*y4 <= y /\ y < 4*y4+4
      /\ 100*y100 <= y /\ y < 100*y100+100
      /\ 4*n4 <= y+1 /\ y+1 < 4*n4+4
      /\ 100*n100 <= y+1 /\ y+1 < 100*n100+100
   BY <1>1, <1>2, <1>3, <1>4, <1>5, <1>6, <1>7, <1>8
<1>10. /\ 0 <= y /\ y <= 399
       /\ 365*y + y4 - y100 <= doe 
       /\ doe < 365*(y+1) + n4 - n100 \/ doe = 146096
   BY <1>9, SMTT(60)
<1> QED BY <1>4, <1>5, <1>6, <1>7, <1>8, <1>10 DEF Before

\* Years are disjoint: none is empty.
LEMMA BeforeGrows == ASSUME NEW a \in Int, NEW b \in Int, a < b PROVE Before(a) < Before(b)
  BY SMTT(60) DEF Before

\* A day has one year only, so the year that contains it is the one YearOfEra names.
LEMMA YearIsUnique == ASSUME NEW doe \in Int, 0 <= doe, doe <= 146096, NEW y \in Int,
      Before(y) <= doe, doe < Before(y+1)
   PROVE doe # 146096 => YearOfEra(doe) = y
<1> SUFFICES ASSUME doe # 146096 PROVE YearOfEra(doe) = y OBVIOUS
<1> DEFINE x == YearOfEra(doe)
<1>1. x \in Int /\ Before(x) <= doe /\ doe < Before(x+1)
   BY YearBounds
<1>2. Before(y) \in Int /\ Before(x) \in Int /\ Before(x+1) \in Int /\ Before(y+1) \in Int
   BY <1>1, Division DEF Before
<1>3. ~(x < y)
  <2> SUFFICES ASSUME x < y PROVE FALSE OBVIOUS
  <2>1. x + 1 = y \/ x + 1 < y BY <1>1
  <2>2. Before(x+1) <= Before(y) BY <1>1, <1>2, <2>1, BeforeGrows
  <2> QED BY <1>1, <1>2, <2>2
<1>4. ~(y < x)
  <2> SUFFICES ASSUME y < x PROVE FALSE OBVIOUS
  <2>1. y + 1 = x \/ y + 1 < x BY <1>1
  <2>2. Before(y+1) <= Before(x) BY <1>1, <1>2, <2>1, BeforeGrows
  <2> QED BY <1>1, <1>2, <2>2
<1> QED BY <1>1, <1>3, <1>4

\* The days of the m months that follow March 1st.
Step(m) == (153 * m + 2) \div 5

\* The month the code computes contains the day.
LEMMA MonthOf == ASSUME NEW doy \in 0..365
   PROVE  LET mp == (5 * doy + 2) \div 153
          IN  mp \in 0..11 /\ Step(mp) <= doy /\ doy < Step(mp + 1)
<1>1. PICK mp \in Int : mp = (5 * doy + 2) \div 153 /\ 153*mp <= 5*doy+2 /\ 5*doy+2 < 153*mp+153
  BY Division
<1>2. mp \in 0..11 BY <1>1
<1>3. PICK s \in Int : s = Step(mp) /\ 5*s <= 153*mp+2 /\ 153*mp+2 < 5*s+5
  BY Division DEF Step
<1>4. PICK t \in Int : t = Step(mp+1) /\ 5*t <= 153*(mp+1)+2 /\ 153*(mp+1)+2 < 5*t+5
  BY Division DEF Step
<1>5. s <= doy /\ doy < t
   BY <1>1, <1>3, <1>4
<1> QED BY <1>1, <1>2, <1>3, <1>4, <1>5

\* The thirteen values of Step, which are the month lengths from March on.
LEMMA Steps == /\ Step(0) = 0 /\ Step(1) = 31 /\ Step(2) = 61 /\ Step(3) = 92
               /\ Step(4) = 122 /\ Step(5) = 153 /\ Step(6) = 184 /\ Step(7) = 214
               /\ Step(8) = 245 /\ Step(9) = 275 /\ Step(10) = 306 /\ Step(11) = 337
               /\ Step(12) = 367
  BY DEF Step

\* Two days of a year that begins on March 1st, up to February 28th, follow each other.
LEMMA MonthStep == ASSUME NEW era \in Int, NEW y \in Int, NEW doy \in 0..363
   PROVE  Civil(era, y, doy + 1) = Tomorrow(Civil(era, y, doy))
<1>1. PICK mp \in 0..11 : mp = (5 * doy + 2) \div 153 /\ Step(mp) <= doy /\ doy < Step(mp + 1)
  BY MonthOf
<1>2. PICK np \in 0..11 : np = (5 * (doy+1) + 2) \div 153 /\ Step(np) <= doy+1 /\ doy+1 < Step(np + 1)
  <2>1. doy + 1 \in 0..365 OBVIOUS
  <2> QED BY <2>1, MonthOf
<1> DEFINE Month(k) == IF k < 10 THEN k + 3 ELSE k - 9
           Year(k) == y + era * 400 + (IF Month(k) <= 2 THEN 1 ELSE 0)
<1>3. Civil(era, y, doy) = [y |-> Year(mp), m |-> Month(mp), d |-> doy - Step(mp) + 1]
  BY <1>1 DEF Civil, Step
<1>4. Civil(era, y, doy + 1) = [y |-> Year(np), m |-> Month(np), d |-> doy + 1 - Step(np) + 1]
  BY <1>2 DEF Civil, Step
<1>5. \/ np = mp /\ doy + 1 < Step(mp+1)
      \/ np = mp + 1 /\ doy + 1 = Step(mp+1)
  BY <1>1, <1>2, Steps
<1>6. mp # 11 => MonthLength(Year(mp), Month(mp)) = Step(mp+1) - Step(mp)
  BY Steps DEF MonthLength
<1>6a. mp = 11 => Month(mp) = 2 /\ np = 11 /\ Step(mp) = 337
  BY <1>5, Steps
<1>6b. MonthLength(Year(mp), 2) \in {28, 29}
  BY DEF MonthLength
<1>7. Step(mp) \in Int /\ Step(mp+1) \in Int /\ Year(mp) \in Int /\ Month(mp) \in 1..12
  BY Steps
<1>8. mp # 11 => doy - Step(mp) + 1 < MonthLength(Year(mp), Month(mp)) <=> np = mp
  BY <1>5, <1>6, <1>7
<1>9. CASE np = mp
  <2>1. doy - Step(mp) + 1 < MonthLength(Year(mp), Month(mp))
     BY <1>9, <1>8, <1>6a, <1>6b, <1>7
  <2> HIDE DEF Year, Month
  <2> QED BY <2>1, <1>3, <1>4, <1>9, <1>7 DEF Tomorrow
<1>10. CASE np = mp + 1
  <2>1. ~(doy - Step(mp) + 1 < MonthLength(Year(mp), Month(mp)))
     BY <1>10, <1>8, <1>6a, <1>7
  <2>2. doy + 1 - Step(np) + 1 = 1
     BY <1>5, <1>10, <1>7
  <2>3. Tomorrow(Civil(era, y, doy)) = IF Month(mp) < 12 THEN [y |-> Year(mp), m |-> Month(mp) + 1, d |-> 1]
    ELSE [y |-> Year(mp) + 1, m |-> 1, d |-> 1]
     <3> HIDE DEF Year, Month
     <3> QED BY <2>1, <1>3 DEF Tomorrow
  <2>4. IF Month(mp) < 12 THEN Month(np) = Month(mp) + 1 /\ Year(np) = Year(mp)
        ELSE Month(np) = 1 /\ Year(np) = Year(mp) + 1
    BY <1>10
  <2> HIDE DEF Year, Month
  <2> QED BY <2>2, <2>3, <2>4, <1>4
<1> QED BY <1>5, <1>9, <1>10

\* The last two days and the first day of such a year.
LEMMA February == ASSUME NEW era \in Int, NEW y \in Int
  PROVE /\ Civil(era, y, 364) = [y |-> y + era*400 + 1, m |-> 2, d |-> 28]
        /\ Civil(era, y, 365) = [y |-> y + era*400 + 1, m |-> 2, d |-> 29]
        /\ Civil(era, y, 0) = [y |-> y + era*400, m |-> 3, d |-> 1]
  BY DEF Civil

\* A year of the era has 366 days when the February it ends with is a leap one.
LEMMA YearLength == ASSUME NEW era \in Int, NEW y \in Int, 0 <= y, y < 399
  PROVE Before(y+1) - Before(y) = IF Leap(y + era * 400 + 1) THEN 366 ELSE 365
<1>5. PICK y4 \in Int : y4 = y \div 4 /\ 4*y4 <= y /\ y < 4*y4+4
   BY Division
<1>6. PICK y100 \in Int : y100 = y \div 100 /\ 100*y100 <= y /\ y < 100*y100+100
   BY Division
<1>7. PICK n4 \in Int : n4 = (y+1) \div 4 /\ 4*n4 <= y+1 /\ y+1 < 4*n4+4
   BY Division
<1>8. PICK n100 \in Int : n100 = (y+1) \div 100 /\ 100*n100 <= y+1 /\ y+1 < 100*n100+100
   BY Division
<1>1. (y + era*400 + 1) % 4 = (y + 1) - 4 * n4
   BY <1>7
<1>2. (y + era*400 + 1) % 100 = (y + 1) - 100 * n100
   BY <1>8
<1>3. (y + era*400 + 1) % 400 = y + 1
   OBVIOUS
<1>4. n4 - y4 = IF (y + 1) - 4 * n4 = 0 THEN 1 ELSE 0
   BY <1>5, <1>7
<1>9. n100 - y100 = IF (y + 1) - 100 * n100 = 0 THEN 1 ELSE 0
   BY <1>6, <1>8
<1>10. (y + 1) - 100 * n100 = 0 => (y + 1) - 4 * n4 = 0
   BY <1>7, <1>8
<1>11. Leap(y + era*400 + 1) <=> (y + 1) - 4 * n4 = 0 /\ (y + 1) - 100 * n100 # 0
   BY <1>1, <1>2, <1>3 DEF Leap
<1>12. Before(y+1) - Before(y) = 365 + (n4 - y4) - (n100 - y100)
   BY <1>5, <1>6, <1>7, <1>8 DEF Before
<1> QED BY <1>4, <1>9, <1>10, <1>11, <1>12

\* The day after is of the same year or the first of the next one.
LEMMA DayStep == ASSUME NEW doe \in Int, 0 <= doe, doe < 146096
  PROVE  LET y == YearOfEra(doe)  n == YearOfEra(doe + 1)
         IN  \/ /\ n = y
                /\ doe + 1 < Before(y+1) \/ doe = 146095
             \/ /\ n = y + 1 /\ y < 399 /\ doe + 1 = Before(y+1)
<1>1. PICK y \in Int : /\ y = YearOfEra(doe) /\ 0 <= y /\ y <= 399
                       /\ Before(y) <= doe /\ doe < Before(y+1)
  BY YearBounds
<1>2. PICK n \in Int : n = YearOfEra(doe + 1) /\ n <= 399
  BY YearBounds
<1>3. Before(y) \in Int /\ Before(y+1) \in Int /\ Before(y+1+1) \in Int
  BY Division DEF Before
<1>4. \A k \in Int : Before(k) <= doe + 1 /\ doe + 1 < Before(k+1) /\ doe + 1 # 146096 => n = k
  BY <1>2, YearIsUnique
<1>5. CASE doe = 146095
  BY <1>5 DEF YearOfEra
<1>6. CASE doe # 146095 /\ doe + 1 < Before(y+1)
  <2>1. n = y BY <1>1, <1>3, <1>4, <1>6
  <2> QED BY <2>1, <1>1, <1>2, <1>6
<1>7. CASE doe # 146095 /\ doe + 1 = Before(y+1)
  <2>1. Before(y+1) < Before(y+1+1)
    BY BeforeGrows
  <2>2. n = y + 1
    BY <1>3, <1>4, <1>7, <2>1
  <2> QED BY <2>2, <1>1, <1>2, <1>7
<1>8. doe + 1 < Before(y+1) \/ doe + 1 = Before(y+1)
  BY <1>1, <1>3
<1> QED BY <1>5, <1>6, <1>7, <1>8

\* What follows February 28th and 29th, by the calendar's rule.
LEMMA LastOfFebruary == ASSUME NEW era \in Int, NEW y \in Int
  PROVE  /\ Leap(y + era * 400 + 1) => Tomorrow(Civil(era, y, 364)) = Civil(era, y, 365)
         /\ ~Leap(y + era * 400 + 1) =>
              Tomorrow(Civil(era, y, 364)) = [y |-> y + era * 400 + 1, m |-> 3, d |-> 1]
         /\ Leap(y + era * 400 + 1) =>
              Tomorrow(Civil(era, y, 365)) = [y |-> y + era * 400 + 1, m |-> 3, d |-> 1]
<1> DEFINE c == y + era * 400 + 1
<1>1. /\ Civil(era, y, 364) = [y |-> c, m |-> 2, d |-> 28]
      /\ Civil(era, y, 365) = [y |-> c, m |-> 2, d |-> 29]
  BY February
<1>2. MonthLength(c, 2) = IF Leap(c) THEN 29 ELSE 28
  BY DEF MonthLength
<1> HIDE DEF c
<1>3. /\ Leap(c) => Tomorrow([y |-> c, m |-> 2, d |-> 28]) = [y |-> c, m |-> 2, d |-> 29]
      /\ ~Leap(c) => Tomorrow([y |-> c, m |-> 2, d |-> 28]) = [y |-> c, m |-> 3, d |-> 1]
      /\ Leap(c) => Tomorrow([y |-> c, m |-> 2, d |-> 29]) = [y |-> c, m |-> 3, d |-> 1]
  BY <1>2 DEF Tomorrow
<1> QED BY <1>1, <1>3 DEF c

\* The era of a day and the day's number in it, as CivilFromDays computes them.
EraOf(day) == (day + 719468) \div 146097
DayOfEra(day) == day + 719468 - EraOf(day) * 146097
LeapRule(era, y) ==
    y < 399 => Before(y+1) - Before(y) = IF Leap(y + era * 400 + 1) THEN 366 ELSE 365

\* YearLength as one quantified fact.
LEMMA LeapRules == \A era, y \in Int : 0 <= y => LeapRule(era, y)
  BY YearLength DEF LeapRule

\* The number of a day in its era is below 146,097.
LEMMA EraFacts == ASSUME NEW day \in Int
  PROVE  EraOf(day) \in Int /\ DayOfEra(day) \in Int /\ 0 <= DayOfEra(day) /\ DayOfEra(day) <= 146096
<1>1. PICK era \in Int : /\ era = EraOf(day)
                         /\ 146097 * era <= day + 719468
                         /\ day + 719468 < 146097 * era + 146097
  BY Division, SMT DEF EraOf
<1> QED BY <1>1, SMT DEF DayOfEra

\* The day after is of the same era or the first of the next one.
LEMMA EraStep == ASSUME NEW day \in Int
  PROVE  /\ DayOfEra(day) < 146096 => EraOf(day + 1) = EraOf(day) /\ DayOfEra(day + 1) = DayOfEra(day) + 1
         /\ DayOfEra(day) = 146096 => EraOf(day + 1) = EraOf(day) + 1 /\ DayOfEra(day + 1) = 0
<1>1. PICK era \in Int : era = EraOf(day) /\ DayOfEra(day) = day + 719468 - era * 146097
  BY EraFacts, SMT DEF DayOfEra
<1>2. PICK next \in Int : next = EraOf(day + 1) /\ DayOfEra(day + 1) = day + 1 + 719468 - next * 146097
  BY EraFacts, SMT DEF DayOfEra
<1>3. /\ 0 <= day + 719468 - era * 146097
      /\ day + 719468 - era * 146097 <= 146096
      /\ 0 <= day + 1 + 719468 - next * 146097
      /\ day + 1 + 719468 - next * 146097 <= 146096
  BY <1>1, <1>2, EraFacts, SMT
<1>4. CASE day + 719468 - era * 146097 < 146096
  <2>1. next = era BY <1>3, <1>4, SMT
  <2>2. DayOfEra(day + 1) = DayOfEra(day) + 1 BY <1>1, <1>2, <2>1, SMT
  <2> QED BY <1>1, <1>2, <1>4, <2>1, <2>2, SMT
<1>5. CASE day + 719468 - era * 146097 = 146096
  <2>1. next = era + 1 BY <1>3, <1>5, SMT
  <2>2. DayOfEra(day + 1) = 0 BY <1>1, <1>2, <1>5, <2>1, SMT
  <2> QED BY <1>1, <1>2, <1>5, <2>1, <2>2, SMT
<1> QED BY <1>1, <1>3, <1>4, <1>5, SMT

\* CivilFromDays from a day's era, year and number in the year.
LEMMA CivilBy == ASSUME NEW day \in Int, NEW e \in Int, NEW n \in Int, NEW k \in Int,
                        e = EraOf(day), n = YearOfEra(DayOfEra(day)),
                        k = DayOfEra(day) - Before(n)
  PROVE  CivilFromDays(day) = Civil(e, n, k)
<1>1. \A x, j \in Int : DayOfYear(x, j) = x - Before(j)
  BY Division, SMT DEF DayOfYear, Before
<1>2. DayOfEra(day) \in Int
  BY EraFacts, SMT
<1> QED BY <1>1, <1>2 DEF CivilFromDays, EraOf, DayOfEra

Within(era, y, k) == Civil(era, y, k + 1) = Tomorrow(Civil(era, y, k))

\* MonthStep as one quantified fact.
LEMMA WithinYear == \A era, y, k \in Int : 0 <= k /\ k <= 363 => Within(era, y, k)
<1> SUFFICES ASSUME NEW era \in Int, NEW y \in Int, NEW k \in Int, 0 <= k, k <= 363
             PROVE  Within(era, y, k)
  OBVIOUS
<1>1. k \in 0..363 OBVIOUS
<1> QED BY <1>1, MonthStep, ZenonT(30) DEF Within

\* civil_from_days gives every next day the next Gregorian date: no day of any year,
\* century or era is skipped, repeated or misnamed, leap days included.
THEOREM DatesFollow == \A day \in Int : CivilFromDays(day + 1) = Tomorrow(CivilFromDays(day))
<1> SUFFICES ASSUME NEW day \in Int PROVE CivilFromDays(day + 1) = Tomorrow(CivilFromDays(day))
  OBVIOUS
<1>1. PICK era, doe \in Int : era = EraOf(day) /\ doe = DayOfEra(day) /\ 0 <= doe /\ doe <= 146096
  BY EraFacts, SMT
<1>2. PICK y \in Int : /\ y = YearOfEra(doe) /\ 0 <= y /\ y <= 399
                       /\ Before(y) <= doe
                       /\ doe < Before(y+1) \/ doe = 146096
  BY <1>1, YearBounds, SMT
<1>3. Before(y) \in Int /\ Before(y+1) \in Int
  BY Division, SMT DEF Before
<1>4. CivilFromDays(day) = Civil(era, y, doe - Before(y))
  <2>1. PICK k \in Int : k = doe - Before(y) BY <1>1, <1>3, SMT
  <2>2. CivilFromDays(day) = Civil(era, y, k) BY <1>1, <1>2, <2>1, CivilBy
  <2> QED BY <2>1, <2>2
<1>5. LeapRule(era, y)
  BY <1>1, <1>2, LeapRules, SMT
<1>6. Before(399) = 145731 /\ Before(400) = 146096 /\ Before(0) = 0
  BY SMT DEF Before
<1>7. CASE doe < 146096
  <2>1. PICK n \in Int : n = YearOfEra(doe + 1)
    BY YearBounds, <1>7, <1>1, SMT
  <2>2. CivilFromDays(day + 1) = Civil(era, n, doe + 1 - Before(n))
    <3>1. PICK next \in Int : next = day + 1 OBVIOUS
    <3>2. EraOf(next) = era /\ DayOfEra(next) = doe + 1
      BY <1>1, <1>7, <3>1, EraStep, SMT
    <3>3. PICK k \in Int : k = doe + 1 - Before(n) /\ Before(n) \in Int
      BY Division, SMT DEF Before
    <3>4. CivilFromDays(next) = Civil(era, n, k)
      <4>1. n = YearOfEra(DayOfEra(next)) /\ k = DayOfEra(next) - Before(n)
        <5>1. PICK x \in Int : x = doe + 1 OBVIOUS
        <5>2. DayOfEra(next) = x BY <3>2, <5>1
        <5>3. n = YearOfEra(x) BY <2>1, <5>1
        <5>4. k = x - Before(n) BY <3>3, <5>1, SMT
        <5> QED BY <5>2, <5>3, <5>4, Zenon
      <4> QED BY <4>1, <3>2, CivilBy
    <3> QED BY <3>1, <3>3, <3>4
  <2>3. \/ n = y /\ (doe + 1 < Before(y+1) \/ doe = 146095)
        \/ n = y + 1 /\ y < 399 /\ doe + 1 = Before(y+1)
    BY <1>1, <1>2, <1>7, <2>1, DayStep, SMT
  <2>4. CASE n = y /\ (doe + 1 < Before(y+1) \/ doe = 146095)
    <3>1. CivilFromDays(day + 1) = Civil(era, y, (doe - Before(y)) + 1)
      BY <2>2, <2>4, <1>1, <1>3, SMT
    <3>2. CASE doe - Before(y) <= 363
      <4>1. doe - Before(y) \in 0..363 BY <1>1, <1>2, <1>3, <3>2, <1>7, SMT
      <4>2. PICK k \in Int : k = doe - Before(y) /\ 0 <= k /\ k <= 363
        BY <4>1, SMT
      <4>3. Civil(era, y, k + 1) = Tomorrow(Civil(era, y, k))
        BY <4>2, WithinYear DEF Within
      <4> QED BY <4>2, <4>3, <3>1, <1>4, Zenon
    <3>3. CASE doe - Before(y) > 363
      <4>1. doe - Before(y) = 364 /\ Leap(y + era * 400 + 1)
        <5>1. CASE y < 399
          <6>1. Before(y + 1) <= Before(399)
            <7>1. y + 1 = 399 \/ y + 1 < 399 BY <5>1, <1>2, SMT
            <7> QED BY <7>1, <1>2, <1>3, <1>6, BeforeGrows, SMT
          <6>2. doe + 1 < Before(y + 1)
            BY <6>1, <1>2, <1>3, <1>6, <1>7, <2>4, <1>1, SMT
          <6>3. Before(y+1) - Before(y) = IF Leap(y + era * 400 + 1) THEN 366 ELSE 365
            BY <1>5, <5>1, SMT DEF LeapRule
          <6> QED BY <6>2, <6>3, <3>3, <1>1, <1>3, SMT
        <5>2. CASE y = 399
          <6>1. doe - Before(y) = 364 BY <5>2, <1>6, <3>3, <1>1, <1>7, SMT
          <6>2. Leap(399 + era * 400 + 1) BY SMT DEF Leap
          <6> QED BY <6>1, <6>2, <5>2, SMT
        <5> QED BY <5>1, <5>2, <1>2, SMT
      <4>2. Tomorrow(Civil(era, y, 364)) = Civil(era, y, 365)
        BY <4>1, LastOfFebruary, SMT
      <4> QED BY <4>1, <4>2, <3>1, <1>4, SMT
    <3> QED BY <3>2, <3>3, <1>1, <1>3, SMT
  <2>5. CASE n = y + 1 /\ y < 399 /\ doe + 1 = Before(y+1)
    <3>1. CivilFromDays(day + 1) = Civil(era, y + 1, 0)
      BY <2>2, <2>5, <1>1, <1>3, SMT
    <3>2. \/ doe - Before(y) = 364 /\ ~Leap(y + era * 400 + 1)
          \/ doe - Before(y) = 365 /\ Leap(y + era * 400 + 1)
      BY <1>1, <1>3, <1>5, <2>5, SMT DEF LeapRule
    <3>3. Tomorrow(CivilFromDays(day)) = [y |-> y + era * 400 + 1, m |-> 3, d |-> 1]
      BY <3>2, <1>4, LastOfFebruary, SMT
    <3>4. Civil(era, y + 1, 0) = [y |-> (y + 1) + era * 400, m |-> 3, d |-> 1]
      BY February, SMT
    <3> QED BY <3>1, <3>3, <3>4, SMT
  <2> QED BY <2>3, <2>4, <2>5
<1>8. CASE doe = 146096
  <2>1. y = 399 /\ YearOfEra(0) = 0
    BY <1>2, <1>8, SMT DEF YearOfEra
  <2>2. CivilFromDays(day) = Civil(era, 399, 365)
    BY <2>1, <1>4, <1>6, <1>8, SMT
  <2>3. CivilFromDays(day + 1) = Civil(era + 1, 0, 0)
    <3>1. PICK next \in Int : next = day + 1 OBVIOUS
    <3>2. PICK e \in Int : e = era + 1 OBVIOUS
    <3>3. EraOf(next) = e /\ DayOfEra(next) = 0
      <4>1. DayOfEra(day) = 146096 BY <1>1, <1>8, SMT
      <4>2. EraOf(day + 1) = EraOf(day) + 1 /\ DayOfEra(day + 1) = 0
        BY <4>1, EraStep, SMT
      <4> QED BY <4>2, <1>1, <3>1, <3>2
    <3>4. CivilFromDays(next) = Civil(e, 0, 0)
      BY <1>6, <2>1, <3>3, CivilBy
    <3> QED BY <3>1, <3>2, <3>4
  <2>4. Leap(399 + era * 400 + 1)
    BY SMT DEF Leap
  <2>5. Tomorrow(CivilFromDays(day)) = [y |-> 399 + era * 400 + 1, m |-> 3, d |-> 1]
    BY <2>2, <2>4, LastOfFebruary, SMT
  <2>6. Civil(era + 1, 0, 0) = [y |-> 0 + (era + 1) * 400, m |-> 3, d |-> 1]
    BY February, SMT
  <2> QED BY <2>3, <2>5, <2>6, SMT
<1> QED BY <1>1, <1>7, <1>8, SMT

\* And it counts from the Unix epoch, so with DatesFollow every date is the right one.
THEOREM Epoch == CivilFromDays(0) = [y |-> 1970, m |-> 1, d |-> 1]
  BY SMT DEF CivilFromDays, YearOfEra, DayOfYear, Civil
================================================================================
