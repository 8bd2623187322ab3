--------------------------- MODULE ShardingProofs ---------------------------
(***************************************************************************)
(* What the index arithmetic of module Sharding computes, for every        *)
(* sharding.                                                               *)
(*                                                                         *)
(* Induction is over sets of numbers: the numbers that have the property   *)
(* contain 0 and the successor of each (NatInd), so they are all.          *)
(* A recursive function is first shown to exist, level by level; only then *)
(* do its equations hold.                                                  *)
(***************************************************************************)
EXTENDS Sharding, FiniteSetTheorems, WellFoundedInduction, NaturalsInduction, TLAPS

-----------------------------------------------------------------------------
\* A nonempty set of natural numbers has a least element.
LEMMA LeastNat ==
  ASSUME NEW S, S \subseteq Nat, S # {}
  PROVE  \E l \in S : \A j \in S : l <= j
<1> DEFINE R == OpToRel(<, Nat)
<1>1. IsWellFoundedOn(R, Nat) BY NatLessThanWellFounded
<1>2. \A x, y \in Nat : x < y => <<x, y>> \in R BY DEF OpToRel
<1> HIDE DEF R
<1>3. PICK l \in S : \A j \in S : ~(<<j, l>> \in R) BY <1>1, WFMin
<1>4. \A j \in S : ~(j < l) BY <1>2, <1>3
<1> QED BY <1>4

\* A set with 0 and the successor of each of its numbers has them all.
LEMMA NatInd ==
  ASSUME NEW S, 0 \in S, \A n \in Nat : n \in S => n + 1 \in S
  PROVE  Nat \subseteq S
<1> SUFFICES ASSUME Nat \ S # {} PROVE FALSE OBVIOUS
<1>1. PICK l \in Nat \ S : \A j \in Nat \ S : l <= j BY LeastNat
<1>2. l # 0 /\ l - 1 \in Nat BY <1>1
<1>3. l - 1 \in S BY <1>1, <1>2
<1> QED BY <1>1, <1>2, <1>3

\* The same up to a bound.
LEMMA UptoInd ==
  ASSUME NEW m \in Nat, NEW S, 0 \in S, \A n \in 0 .. m - 1 : n \in S => n + 1 \in S
  PROVE  0 .. m \subseteq S
<1> DEFINE A == {n \in Nat : n <= m => n \in S}
<1>1. 0 \in A OBVIOUS
<1>2. \A n \in Nat : n \in A => n + 1 \in A OBVIOUS
<1> HIDE DEF A
<1>3. Nat \subseteq A BY <1>1, <1>2, NatInd
<1> QED BY <1>3 DEF A

\* And downwards.
LEMMA DownInd ==
  ASSUME NEW m \in Nat, NEW S, m \in S, \A n \in 0 .. m - 1 : n + 1 \in S => n \in S
  PROVE  0 .. m \subseteq S
<1> DEFINE A == {n \in 0 .. m : m - n \in S}
<1>1. 0 \in A OBVIOUS
<1>2. ASSUME NEW n \in 0 .. m - 1, n \in A PROVE n + 1 \in A
  <2>1. m - (n + 1) \in 0 .. m - 1 /\ (m - (n + 1)) + 1 = m - n OBVIOUS
  <2>2. (m - (n + 1)) + 1 \in S BY <1>2, <2>1
  <2>3. m - (n + 1) \in S BY <2>1, <2>2
  <2> QED BY <2>3
<1> HIDE DEF A
<1>3. 0 .. m \subseteq A BY <1>1, <1>2, UptoInd
<1>4. ASSUME NEW n \in 0 .. m PROVE n \in S
  <2>1. m - n \in A BY <1>3
  <2>2. m - (m - n) = n OBVIOUS
  <2> QED BY <2>1, <2>2 DEF A
<1> QED BY <1>4

-----------------------------------------------------------------------------
\* Division with remainder.
LEMMA DivMod ==
  ASSUME NEW a \in Int, NEW b \in Nat, b > 0
  PROVE  /\ a \div b \in Int /\ a % b \in Int /\ a = b * (a \div b) + (a % b)
         /\ 0 <= a % b /\ a % b < b
OBVIOUS

\* Quotient and remainder are unique.
LEMMA DivUnique ==
  ASSUME NEW b \in Nat, b > 0, NEW q \in Int, NEW r \in Int, 0 <= r, r < b
  PROVE  (b * q + r) \div b = q /\ (b * q + r) % b = r
OBVIOUS

\* Products of natural numbers.
LEMMA Times ==
  ASSUME NEW a \in Nat, NEW b \in Nat
  PROVE  /\ a * b \in Nat /\ a * b = b * a
         /\ a > 0 /\ b > 0 => a * b > 0
         /\ a * b = 1 => a = 1 /\ b = 1
OBVIOUS

\* A quotient of a natural number is one.
LEMMA DivNat ==
  ASSUME NEW a \in Nat, NEW b \in Nat, b > 0
  PROVE  /\ a \div b \in Nat /\ a % b \in 0 .. b - 1
         /\ a = b * (a \div b) + (a % b)
         /\ a < b => a \div b = 0 /\ a % b = a
         /\ a \div b = 0 => a < b
<1>1. a = b * (a \div b) + (a % b) /\ 0 <= a % b /\ a % b < b /\ a \div b \in Int /\ a % b \in Int BY DivMod
<1> DEFINE q == a \div b
           r == a % b
<1> HIDE DEF q, r
<1>2. q \in Int /\ r \in Int /\ a = b * q + r /\ 0 <= r /\ r < b BY <1>1 DEF q, r
<1>3. q >= 0 BY <1>2
<1>4. a < b => q = 0 BY <1>2, <1>3
<1>5. q = 0 => a = r BY <1>2
<1> QED BY <1>2, <1>3, <1>4, <1>5 DEF q, r

\* Dividing twice is dividing by the product.
LEMMA DivDiv ==
  ASSUME NEW i \in Nat, NEW a \in Nat, a > 0, NEW b \in Nat, b > 0
  PROVE  (i \div a) \div b = i \div (b * a)
<1> DEFINE q == i \div a
           r == i % a
           u == q \div b
           v == q % b
<1> HIDE DEF q, r, u, v
<1>1. q \in Nat /\ r \in 0 .. a - 1 /\ i = a * q + r BY DivNat DEF q, r
<1>2. u \in Nat /\ v \in 0 .. b - 1 /\ q = b * u + v BY <1>1, DivNat DEF u, v
<1>3. i = (b * a) * u + (a * v + r)
  <2>1. a * q = a * (b * u + v) BY <1>2
  <2>2. a * (b * u + v) = (b * a) * u + a * v BY <1>2
  <2> QED BY <1>1, <1>2, <2>1, <2>2
<1>4. a * v + r \in Nat /\ a * v + r < b * a
  <2>1. v <= b - 1 BY <1>2
  <2>2. a * v <= a * (b - 1) BY <1>2, <2>1
  <2>3. a * (b - 1) = b * a - a OBVIOUS
  <2> QED BY <1>1, <1>2, <2>2, <2>3
<1>5. b * a \in Nat /\ b * a > 0 BY Times
<1> DEFINE w == a * v + r
           c == b * a
<1> HIDE DEF w, c
<1>6. i = c * u + w /\ c \in Nat /\ c > 0 /\ w \in Nat /\ w < c BY <1>3, <1>4, <1>5 DEF w, c
<1>7. i \div c = u BY <1>2, <1>6, DivUnique
<1> QED BY <1>7 DEF c, u, q

-----------------------------------------------------------------------------
\* The element that a fold over a set takes first.
Taken(S) == CHOOSE x \in S : TRUE

\* g computes the products of the values of f over the subsets of D with at most n elements.
IsProductFold(f, D, n, g) ==
  /\ DOMAIN g = {s \in SUBSET D : Cardinality(s) <= n}
  /\ \A s \in DOMAIN g :
       /\ g[s] \in Nat \ {0}
       /\ g[s] = IF s = {} THEN 1 ELSE f[Taken(s)] * g[s \ {Taken(s)}]

\* The subsets of a finite set: one element less, or none.
LEMMA SmallerSet ==
  ASSUME NEW D, IsFiniteSet(D), NEW s \in SUBSET D
  PROVE  /\ IsFiniteSet(s) /\ Cardinality(s) \in Nat
         /\ Cardinality(s) = 0 <=> s = {}
         /\ \A x \in s : /\ s \ {x} \in SUBSET D
                         /\ Cardinality(s \ {x}) = Cardinality(s) - 1
<1>1. IsFiniteSet(s) BY FS_Subset
<1>2. Cardinality(s) \in Nat BY <1>1, FS_CardinalityType
<1>3. Cardinality(s) = 0 <=> s = {} BY <1>1, FS_EmptySet
<1>4. \A x \in s : Cardinality(s \ {x}) = Cardinality(s) - 1 BY <1>1, FS_RemoveElement
<1> QED BY <1>1, <1>2, <1>3, <1>4

\* Such a function exists for every number of elements.
LEMMA FoldExists ==
  ASSUME NEW D, IsFiniteSet(D), NEW f, \A d \in D : f[d] \in Nat \ {0}
  PROVE  \A n \in Nat : \E g : IsProductFold(f, D, n, g)
<1> DEFINE A == {n \in Nat : \E g : IsProductFold(f, D, n, g)}
<1>1. 0 \in A
  <2> DEFINE g == [s \in {s \in SUBSET D : Cardinality(s) <= 0} |-> 1]
  <2>1. \A s \in DOMAIN g : s = {} BY SmallerSet
  <2>2. IsProductFold(f, D, 0, g) BY <2>1 DEF IsProductFold
  <2> QED BY <2>2
<1>2. ASSUME NEW n \in Nat, n \in A PROVE n + 1 \in A
  <2>1. PICK g : IsProductFold(f, D, n, g) BY <1>2
  <2> DEFINE h == [s \in {s \in SUBSET D : Cardinality(s) <= n + 1} |->
                     IF s = {} THEN 1 ELSE f[Taken(s)] * g[s \ {Taken(s)}]]
  <2>2. ASSUME NEW s \in DOMAIN h, s # {}
        PROVE  Taken(s) \in s /\ s \ {Taken(s)} \in DOMAIN g /\ s \ {Taken(s)} \in DOMAIN h
    <3>1. Taken(s) \in s BY <2>2 DEF Taken
    <3>2. s \in SUBSET D /\ Cardinality(s) <= n + 1 OBVIOUS
    <3>3. Cardinality(s) \in Nat /\ s \ {Taken(s)} \in SUBSET D /\ Cardinality(s \ {Taken(s)}) = Cardinality(s) - 1
      BY <3>1, <3>2, SmallerSet
    <3> QED BY <2>1, <3>1, <3>2, <3>3 DEF IsProductFold
  <2>3. ASSUME NEW s \in DOMAIN g PROVE s \in DOMAIN h /\ h[s] = g[s]
    <3>1. s \in DOMAIN h
      <4>1. s \in SUBSET D /\ Cardinality(s) <= n BY <2>1 DEF IsProductFold
      <4>2. Cardinality(s) \in Nat BY <4>1, SmallerSet
      <4> QED BY <4>1, <4>2
    <3> QED BY <2>1, <3>1 DEF IsProductFold
  <2>4. ASSUME NEW s \in DOMAIN h
        PROVE  /\ h[s] \in Nat \ {0}
               /\ h[s] = IF s = {} THEN 1 ELSE f[Taken(s)] * h[s \ {Taken(s)}]
    <3>1. CASE s = {} BY <3>1
    <3>2. CASE s # {}
      <4>1. h[s] = f[Taken(s)] * g[s \ {Taken(s)}] BY <3>2
      <4>2. h[s \ {Taken(s)}] = g[s \ {Taken(s)}] BY <2>2, <2>3, <3>2
      <4>3. f[Taken(s)] \in Nat \ {0} /\ g[s \ {Taken(s)}] \in Nat \ {0} BY <2>1, <2>2, <3>2 DEF IsProductFold
      <4>4. f[Taken(s)] * g[s \ {Taken(s)}] \in Nat \ {0} BY <4>3, Times
      <4> QED BY <3>2, <4>1, <4>2, <4>4
    <3> QED BY <3>1, <3>2
  <2>5. IsProductFold(f, D, n + 1, h) BY <2>4 DEF IsProductFold
  <2> QED BY <2>5
<1> HIDE DEF A
<1>3. Nat \subseteq A BY <1>1, <1>2, NatInd
<1> QED BY <1>3 DEF A

\* What FoldFunctionOnSet computes with * from 1.
LEMMA ProductFold ==
  ASSUME NEW f, NEW S
  PROVE  Product(f, S) =
           LET it == CHOOSE it : it = [s \in SUBSET S |-> IF s = {} THEN 1 ELSE f[CHOOSE x \in s : TRUE] * it[s \ {CHOOSE x \in s : TRUE}]]
           IN it[S]
BY DEF Product, FoldFunctionOnSet, MapThenFoldSet

\* The product over a part of D is the value of any such function there.
LEMMA ProductIsFold ==
  ASSUME NEW D, IsFiniteSet(D), NEW f, \A d \in D : f[d] \in Nat \ {0},
         NEW g, IsProductFold(f, D, Cardinality(D), g), NEW S \in SUBSET D
  PROVE  S \in DOMAIN g /\ Product(f, S) = g[S]
<1>1. ASSUME NEW s \in SUBSET D PROVE s \in DOMAIN g
  <2>1. Cardinality(s) <= Cardinality(D) BY FS_Subset
  <2> QED BY <2>1 DEF IsProductFold
<1> DEFINE F(it) == [s \in SUBSET S |-> IF s = {} THEN 1 ELSE f[Taken(s)] * it[s \ {Taken(s)}]]
           h == [s \in SUBSET S |-> g[s]]
           it == CHOOSE it : it = F(it)
<1>2. h = F(h)
  <2>1. ASSUME NEW s \in SUBSET S PROVE h[s] = IF s = {} THEN 1 ELSE f[Taken(s)] * h[s \ {Taken(s)}]
    <3>1. h[s] = g[s] /\ h[s \ {Taken(s)}] = g[s \ {Taken(s)}] OBVIOUS
    <3>2. s \in DOMAIN g BY <1>1
    <3> QED BY <3>1, <3>2 DEF IsProductFold
  <2> QED BY <2>1
<1>3. it = F(it) BY <1>2
<1>4. Product(f, S) = it[S] BY ProductFold DEF Taken
<1> HIDE DEF it
<1> DEFINE Bad == {Cardinality(s) : s \in {s \in SUBSET S : it[s] # g[s]}}
<1>5. Bad = {}
  <2> SUFFICES ASSUME Bad # {} PROVE FALSE OBVIOUS
  <2>1. Bad \subseteq Nat BY SmallerSet
  <2> HIDE DEF Bad
  <2>2. PICK l \in Bad : \A j \in Bad : l <= j BY <2>1, LeastNat
  <2>3. PICK s \in SUBSET S : it[s] # g[s] /\ l = Cardinality(s) BY <2>2 DEF Bad
  <2>4. it[s] = (IF s = {} THEN 1 ELSE f[Taken(s)] * it[s \ {Taken(s)}]) BY <1>3
  <2>5. g[s] = (IF s = {} THEN 1 ELSE f[Taken(s)] * g[s \ {Taken(s)}]) BY <1>1 DEF IsProductFold
  <2>6. s # {} /\ it[s \ {Taken(s)}] # g[s \ {Taken(s)}] BY <2>3, <2>4, <2>5
  <2>7. Taken(s) \in s BY <2>6 DEF Taken
  <2>8. Cardinality(s) \in Nat /\ Cardinality(s \ {Taken(s)}) = Cardinality(s) - 1 BY <2>7, SmallerSet
  <2>9. Cardinality(s \ {Taken(s)}) \in Bad BY <2>6 DEF Bad
  <2> QED BY <2>2, <2>3, <2>8, <2>9
<1>6. it[S] = g[S] BY <1>5
<1> QED BY <1>1, <1>4, <1>6

\* The product over a finite set of positive numbers is positive, and 1 over none.
LEMMA ProductType ==
  ASSUME NEW D, IsFiniteSet(D), NEW f, \A d \in D : f[d] \in Nat \ {0}
  PROVE  Product(f, D) \in Nat \ {0} /\ Product(f, {}) = 1
<1>1. Cardinality(D) \in Nat BY FS_CardinalityType
<1>2. PICK g : IsProductFold(f, D, Cardinality(D), g) BY <1>1, FoldExists
<1>3. D \in DOMAIN g /\ Product(f, D) = g[D] BY <1>2, ProductIsFold
<1>4. {} \in DOMAIN g /\ Product(f, {}) = g[{}] BY <1>2, ProductIsFold
<1> QED BY <1>2, <1>3, <1>4 DEF IsProductFold

\* Any element can be taken out of a product.
LEMMA ProductStep ==
  ASSUME NEW D, IsFiniteSet(D), NEW f, \A d \in D : f[d] \in Nat \ {0}, NEW x \in D
  PROVE  Product(f, D) = f[x] * Product(f, D \ {x})
<1>1. Cardinality(D) \in Nat BY FS_CardinalityType
<1>2. PICK g : IsProductFold(f, D, Cardinality(D), g) BY <1>1, FoldExists
<1>3. \A S \in SUBSET D : S \in DOMAIN g /\ Product(f, S) = g[S] BY <1>2, ProductIsFold
<1> DEFINE Wrong(s) == \E y \in s : g[s] # f[y] * g[s \ {y}]
           Bad == {Cardinality(s) : s \in {s \in SUBSET D : Wrong(s)}}
<1>4. Bad = {}
  <2> SUFFICES ASSUME Bad # {} PROVE FALSE OBVIOUS
  <2>1. Bad \subseteq Nat BY SmallerSet
  <2> HIDE DEF Bad
  <2>2. PICK l \in Bad : \A j \in Bad : l <= j BY <2>1, LeastNat
  <2>3. PICK s \in SUBSET D : Wrong(s) /\ l = Cardinality(s) BY <2>2 DEF Bad
  <2>4. PICK y \in s : g[s] # f[y] * g[s \ {y}] BY <2>3
  <2> DEFINE z == Taken(s)
  <2>5. z \in s BY <2>4 DEF Taken
  <2>6. g[s] = f[z] * g[s \ {z}] BY <1>2, <1>3, <2>4 DEF IsProductFold
  <2> HIDE DEF z
  <2>7. y # z BY <2>4, <2>6
  <2>8. ASSUME NEW w \in s PROVE ~Wrong(s \ {w})
    <3>1. Cardinality(s) \in Nat /\ Cardinality(s \ {w}) = Cardinality(s) - 1 /\ s \ {w} \in SUBSET D BY SmallerSet
    <3>2. Cardinality(s \ {w}) \notin Bad BY <2>2, <2>3, <3>1
    <3> QED BY <3>1, <3>2 DEF Bad
  <2>9. g[s \ {z}] = f[y] * g[(s \ {z}) \ {y}] BY <2>5, <2>7, <2>8
  <2>10. g[s \ {y}] = f[z] * g[(s \ {y}) \ {z}] BY <2>4, <2>5, <2>7, <2>8
  <2>11. (s \ {z}) \ {y} = (s \ {y}) \ {z} OBVIOUS
  <2> DEFINE r == (s \ {y}) \ {z}
  <2>12. f[y] \in Nat /\ f[z] \in Nat BY <2>4, <2>5
  <2>13. g[r] \in Nat BY <1>2, <1>3 DEF IsProductFold
  <2> HIDE DEF r
  <2>14. f[z] * (f[y] * g[r]) = f[y] * (f[z] * g[r]) BY <2>12, <2>13
  <2> QED BY <2>4, <2>6, <2>9, <2>10, <2>11, <2>14 DEF r
<1>5. ~Wrong(D) BY <1>4
<1> QED BY <1>3, <1>5

\* A product is 1 exactly when every factor is.
LEMMA ProductOne ==
  ASSUME NEW D, IsFiniteSet(D), NEW f, \A d \in D : f[d] \in Nat \ {0}, Product(f, D) = 1
  PROVE  \A d \in D : f[d] = 1
<1> SUFFICES ASSUME NEW d \in D PROVE f[d] = 1 OBVIOUS
<1>1. Product(f, D) = f[d] * Product(f, D \ {d}) BY ProductStep
<1>2. IsFiniteSet(D \ {d}) BY FS_RemoveElement
<1>3. Product(f, D \ {d}) \in Nat \ {0} BY <1>2, ProductType
<1> QED BY <1>1, <1>3, Times

\* Factors of 1 can be left out.
LEMMA ProductUnits ==
  ASSUME NEW D, IsFiniteSet(D), NEW f, \A d \in D : f[d] \in Nat \ {0},
         NEW T \in SUBSET D, \A d \in D \ T : f[d] = 1
  PROVE  Product(f, D) = Product(f, T)
<1> DEFINE Between == {S \in SUBSET D : T \subseteq S}
           Bad == {Cardinality(S) : S \in {S \in Between : Product(f, S) # Product(f, T)}}
<1>1. Bad = {}
  <2> SUFFICES ASSUME Bad # {} PROVE FALSE OBVIOUS
  <2>1. Bad \subseteq Nat BY SmallerSet
  <2> HIDE DEF Bad
  <2>2. PICK l \in Bad : \A j \in Bad : l <= j BY <2>1, LeastNat
  <2>3. PICK S \in Between : Product(f, S) # Product(f, T) /\ l = Cardinality(S) BY <2>2 DEF Bad
  <2>4. PICK x \in S : x \notin T BY <2>3
  <2>5. IsFiniteSet(S) /\ Cardinality(S) \in Nat /\ Cardinality(S \ {x}) = Cardinality(S) - 1 /\ IsFiniteSet(S \ {x})
    BY <2>3, SmallerSet
  <2>6. Product(f, S) = f[x] * Product(f, S \ {x}) BY <2>5, ProductStep
  <2>7. Product(f, S \ {x}) \in Nat BY <2>5, ProductType
  <2>8. Product(f, S) = Product(f, S \ {x}) BY <2>4, <2>6, <2>7
  <2>9. Cardinality(S \ {x}) \in Bad BY <2>3, <2>4, <2>8 DEF Bad
  <2> QED BY <2>2, <2>3, <2>5, <2>9
<1> QED BY <1>1

-----------------------------------------------------------------------------
\* How often every dimension is cut, and how many shards the dimensions numbered from
\* the q-th on make.
Cut(s) == [d \in DOMAIN s.dims |-> s.dims[d].sharding]
Inner(s, q) == {e \in DOMAIN s.dims : s.dims[e].permutation >= q}
ShardsFrom(s, q) == Product(Cut(s), Inner(s, q))

\* What ValidSharding says of the dimensions: their numbering is a bijection.
LEMMA ValidDims ==
  ASSUME NEW s, ValidSharding(s)
  PROVE  /\ Len(s.dims) \in Nat /\ DOMAIN s.dims = 1 .. Len(s.dims)
         /\ IsFiniteSet(DOMAIN s.dims)
         /\ DOMAIN Cut(s) = DOMAIN s.dims
         /\ \A d \in DOMAIN s.dims :
              /\ s.dims[d].size \in Nat \ {0} /\ s.dims[d].sharding \in Nat \ {0}
              /\ Cut(s)[d] = s.dims[d].sharding
              /\ s.dims[d].permutation \in 0 .. Len(s.dims) - 1
         /\ \A q \in 0 .. Len(s.dims) - 1 : \E d \in DOMAIN s.dims : s.dims[d].permutation = q
         /\ \A d, e \in DOMAIN s.dims : s.dims[d].permutation = s.dims[e].permutation => d = e
<1> DEFINE n == Len(s.dims)
           D == DOMAIN s.dims
           f == [d \in D |-> s.dims[d].permutation]
<1>1. s.dims \in Seq(DimType) /\ {s.dims[d].permutation : d \in D} = 0 .. n - 1 BY DEF ValidSharding
<1>2. n \in Nat /\ D = 1 .. n BY <1>1
<1>3. \A d \in D : s.dims[d] \in DimType BY <1>1
<1>4. \A d \in D : s.dims[d].size \in Nat \ {0} /\ s.dims[d].sharding \in Nat \ {0} BY <1>3 DEF DimType
<1>5. f \in [D -> 0 .. n - 1] /\ \A q \in 0 .. n - 1 : \E d \in D : f[d] = q BY <1>1
<1>6. f \in Surjection(D, 0 .. n - 1) BY <1>5 DEF Surjection
<1>7. IsFiniteSet(D) /\ Cardinality(D) = n BY <1>2, FS_Interval
<1>8. Cardinality(0 .. n - 1) = n BY <1>2, FS_Interval
<1>9. f \in Injection(D, 0 .. n - 1) BY <1>6, <1>7, <1>8, FS_SurjSameCardinalityImpliesInj
<1>10. \A d, e \in D : f[d] = f[e] => d = e BY <1>5, <1>9 DEF Injection, IsInjective
<1> QED BY <1>1, <1>2, <1>4, <1>5, <1>7, <1>10 DEF Cut

\* There are as many shards as devices; behind the last dimension there is one; each
\* dimension multiplies what its inner ones make.
LEMMA ShardsFromSteps ==
  ASSUME NEW s, ValidSharding(s)
  PROVE  /\ ShardsFrom(s, 0) = s.devices.num
         /\ ShardsFrom(s, Len(s.dims)) = 1
         /\ \A q \in 0 .. Len(s.dims) : ShardsFrom(s, q) \in Nat \ {0}
         /\ s.devices.num \in Nat \ {0}
         /\ \A d \in DOMAIN s.dims :
              ShardsFrom(s, s.dims[d].permutation) = s.dims[d].sharding * ShardsFrom(s, s.dims[d].permutation + 1)
<1> DEFINE n == Len(s.dims)
           D == DOMAIN s.dims
<1>1. /\ n \in Nat /\ IsFiniteSet(D)
      /\ \A d \in D : s.dims[d].sharding \in Nat \ {0} /\ Cut(s)[d] = s.dims[d].sharding
      /\ \A d \in D : s.dims[d].permutation \in 0 .. n - 1
      /\ \A d, e \in D : s.dims[d].permutation = s.dims[e].permutation => d = e
  BY ValidDims
<1>2. Inner(s, 0) = D /\ Inner(s, n) = {} BY <1>1 DEF Inner
<1>3. ShardsFrom(s, 0) = s.devices.num
  <2>1. Product(Cut(s), D) = s.devices.num BY DEF ValidSharding, Cut
  <2> QED BY <1>2, <2>1 DEF ShardsFrom
<1>4. \A q \in 0 .. n : IsFiniteSet(Inner(s, q)) /\ \A d \in Inner(s, q) : Cut(s)[d] \in Nat \ {0}
  <2>1. \A q \in 0 .. n : Inner(s, q) \in SUBSET D BY DEF Inner
  <2> QED BY <1>1, <2>1, FS_Subset
<1>5. ShardsFrom(s, n) = 1 BY <1>1, <1>2, ProductType DEF ShardsFrom
<1>6. \A q \in 0 .. n : ShardsFrom(s, q) \in Nat \ {0} BY <1>4, ProductType DEF ShardsFrom
<1>7. ASSUME NEW d \in D
      PROVE  ShardsFrom(s, s.dims[d].permutation) = s.dims[d].sharding * ShardsFrom(s, s.dims[d].permutation + 1)
  <2> DEFINE q == s.dims[d].permutation
  <2>1. q \in 0 .. n - 1 BY <1>1
  <2>2. d \in Inner(s, q) BY <2>1 DEF Inner
  <2>3. Inner(s, q) \ {d} = Inner(s, q + 1) BY <1>1, <2>1 DEF Inner
  <2>4. IsFiniteSet(Inner(s, q)) /\ \A e \in Inner(s, q) : Cut(s)[e] \in Nat \ {0} BY <1>4, <2>1
  <2>5. Product(Cut(s), Inner(s, q)) = Cut(s)[d] * Product(Cut(s), Inner(s, q) \ {d})
    BY <2>2, <2>4, ProductStep
  <2> QED BY <1>1, <2>3, <2>5 DEF ShardsFrom
<1> QED BY <1>1, <1>3, <1>5, <1>6, <1>7

\* ComputeTileIndex in these terms.
LEMMA IndexAt ==
  ASSUME NEW s, ValidSharding(s), NEW i \in Nat
  PROVE  /\ DOMAIN ComputeTileIndex(i, s) = DOMAIN s.dims
         /\ \A d \in DOMAIN s.dims :
              /\ ComputeTileIndex(i, s)[d] =
                   (i \div ShardsFrom(s, s.dims[d].permutation + 1)) % s.dims[d].sharding
              /\ ComputeTileIndex(i, s)[d] \in 0 .. s.dims[d].sharding - 1
<1>1. DOMAIN ComputeTileIndex(i, s) = DOMAIN s.dims BY DEF ComputeTileIndex
<1>2. ASSUME NEW d \in DOMAIN s.dims
      PROVE  /\ ComputeTileIndex(i, s)[d] =
                   (i \div ShardsFrom(s, s.dims[d].permutation + 1)) % s.dims[d].sharding
             /\ ComputeTileIndex(i, s)[d] \in 0 .. s.dims[d].sharding - 1
  <2>1. /\ Len(s.dims) \in Nat /\ s.dims[d].permutation \in 0 .. Len(s.dims) - 1
        /\ s.dims[d].sharding \in Nat \ {0}
        /\ \A e \in DOMAIN s.dims : s.dims[e].permutation \in 0 .. Len(s.dims) - 1
    BY ValidDims
  <2>2. {e \in DOMAIN s.dims : s.dims[e].permutation > s.dims[d].permutation} = Inner(s, s.dims[d].permutation + 1)
    BY <2>1 DEF Inner
  <2>3. ComputeTileIndex(i, s)[d] = (i \div ShardsFrom(s, s.dims[d].permutation + 1)) % s.dims[d].sharding
    BY <2>2 DEF ComputeTileIndex, ShardsFrom, Cut
  <2>4. ShardsFrom(s, s.dims[d].permutation + 1) \in Nat \ {0} BY <2>1, ShardsFromSteps
  <2>5. i \div ShardsFrom(s, s.dims[d].permutation + 1) \in Nat BY <2>4, DivNat
  <2> QED BY <2>1, <2>3, <2>5, DivNat
<1> QED BY <1>1, <1>2

\* One more dimension taken into account divides once less.
LEMMA DivStep ==
  ASSUME NEW s, ValidSharding(s), NEW i \in Nat, NEW d \in DOMAIN s.dims
  PROVE  LET q == s.dims[d].permutation IN
         /\ q \in 0 .. Len(s.dims) - 1
         /\ i \div ShardsFrom(s, q) \in Nat /\ i \div ShardsFrom(s, q + 1) \in Nat
         /\ i \div ShardsFrom(s, q) = (i \div ShardsFrom(s, q + 1)) \div s.dims[d].sharding
         /\ i \div ShardsFrom(s, q + 1) = s.dims[d].sharding * (i \div ShardsFrom(s, q)) + ComputeTileIndex(i, s)[d]
<1> DEFINE q == s.dims[d].permutation
           a == ShardsFrom(s, q + 1)
           b == s.dims[d].sharding
           c == ShardsFrom(s, q)
<1>1. Len(s.dims) \in Nat /\ q \in 0 .. Len(s.dims) - 1 /\ b \in Nat /\ b > 0 BY ValidDims
<1>2. c \in Nat /\ c > 0 /\ a \in Nat /\ a > 0 /\ c = b * a BY <1>1, ShardsFromSteps
<1>3. ComputeTileIndex(i, s)[d] = (i \div a) % b BY IndexAt
<1> HIDE DEF q, a, b, c
<1>4. i \div c = (i \div a) \div b BY <1>1, <1>2, DivDiv
<1>5. i \div c \in Nat /\ i \div a \in Nat BY <1>2, DivNat
<1>6. i \div a = b * ((i \div a) \div b) + ((i \div a) % b) BY <1>1, <1>5, DivNat
<1> QED BY <1>1, <1>3, <1>4, <1>5, <1>6 DEF q, a, b, c

\* No two shards have the same index.
LEMMA IndexInjective ==
  ASSUME NEW s, ValidSharding(s), NEW i \in Shards(s), NEW j \in Shards(s),
         \A d \in DOMAIN s.dims : ComputeTileIndex(i, s)[d] = ComputeTileIndex(j, s)[d]
  PROVE  i = j
<1> DEFINE n == Len(s.dims)
           A == {q \in 0 .. n : i \div ShardsFrom(s, q) = j \div ShardsFrom(s, q)}
<1>1. n \in Nat /\ s.devices.num \in Nat \ {0} /\ ShardsFrom(s, 0) = s.devices.num /\ ShardsFrom(s, n) = 1
  BY ValidDims, ShardsFromSteps
<1>2. i \in Nat /\ j \in Nat /\ i < s.devices.num /\ j < s.devices.num BY <1>1 DEF Shards
<1>3. 0 \in A
  <2>1. i \div s.devices.num = 0 /\ j \div s.devices.num = 0 BY <1>1, <1>2, DivNat
  <2> QED BY <1>1, <2>1
<1>4. ASSUME NEW q \in 0 .. n - 1, q \in A PROVE q + 1 \in A
  <2>1. PICK d \in DOMAIN s.dims : s.dims[d].permutation = q BY ValidDims
  <2>2. i \div ShardsFrom(s, q + 1) = s.dims[d].sharding * (i \div ShardsFrom(s, q)) + ComputeTileIndex(i, s)[d]
    BY <1>2, <2>1, DivStep
  <2>3. j \div ShardsFrom(s, q + 1) = s.dims[d].sharding * (j \div ShardsFrom(s, q)) + ComputeTileIndex(j, s)[d]
    BY <1>2, <2>1, DivStep
  <2> QED BY <1>1, <1>4, <2>2, <2>3
<1>5. n \in A
  <2> HIDE DEF A
  <2>1. 0 .. n \subseteq A BY <1>1, <1>3, <1>4, UptoInd
  <2> QED BY <1>1, <2>1
<1> QED BY <1>1, <1>2, <1>5

\* The first m steps of Horner's scheme, with the factors a and the digits b.
Horner(a, b, m, u) ==
  u[0] = 0 /\ \A q \in 0 .. m - 1 : u[q + 1] = u[q] * a[q] + b[q]

\* The numbers it goes through exist.
LEMMA HornerExists ==
  ASSUME NEW n \in Nat, NEW a \in [0 .. n - 1 -> Nat], NEW b \in [0 .. n - 1 -> Nat]
  PROVE  \E u \in [0 .. n -> Nat] : Horner(a, b, n, u)
<1> DEFINE A == {m \in 0 .. n : \E u \in [0 .. m -> Nat] : Horner(a, b, m, u)}
<1>1. 0 \in A
  <2> DEFINE w == [q \in 0 .. 0 |-> 0]
  <2>1. w \in [0 .. 0 -> Nat] /\ Horner(a, b, 0, w) BY DEF Horner
  <2> HIDE DEF w
  <2> QED BY <2>1
<1>2. ASSUME NEW m \in 0 .. n - 1, m \in A PROVE m + 1 \in A
  <2>1. PICK u \in [0 .. m -> Nat] : Horner(a, b, m, u) BY <1>2
  <2> DEFINE new == u[m] * a[m] + b[m]
  <2>2. m \in Nat /\ u[m] \in Nat /\ a[m] \in Nat /\ b[m] \in Nat BY <2>1
  <2>3. new \in Nat
    <3>1. u[m] * a[m] \in Nat BY <2>2, Times
    <3> QED BY <2>2, <3>1
  <2> HIDE DEF new
  <2> DEFINE w == [q \in 0 .. m + 1 |-> IF q = m + 1 THEN new ELSE u[q]]
  <2>4. w \in [0 .. m + 1 -> Nat] BY <2>1, <2>2, <2>3
  <2>5. w[0] = 0 BY <2>1, <2>2 DEF Horner
  <2>6. ASSUME NEW q \in 0 .. (m + 1) - 1 PROVE w[q + 1] = w[q] * a[q] + b[q]
    <3>1. CASE q = m
      <4>1. w[q + 1] = new /\ w[q] = u[m] BY <2>2, <3>1
      <4> QED BY <3>1, <4>1 DEF new
    <3>2. CASE q \in 0 .. m - 1
      <4>1. w[q] = u[q] /\ w[q + 1] = u[q + 1] BY <2>2, <3>2
      <4> QED BY <2>1, <3>2, <4>1 DEF Horner
    <3> QED BY <2>2, <3>1, <3>2
  <2> HIDE DEF w
  <2>7. Horner(a, b, m + 1, w) BY <2>5, <2>6 DEF Horner
  <2>8. m + 1 \in 0 .. n OBVIOUS
  <2> QED BY <2>4, <2>7, <2>8
<1>3. n \in A
  <2> HIDE DEF A
  <2>1. 0 .. n \subseteq A BY <1>1, <1>2, UptoInd
  <2> QED BY <2>1
<1> QED BY <1>3

\* The shard that Horner's scheme computes from an index, in the order of the
\* permutations, has that index.
LEMMA HornerIndex ==
  ASSUME NEW s, ValidSharding(s), NEW v, NEW u \in [0 .. Len(s.dims) -> Nat], u[0] = 0,
         \A d \in DOMAIN s.dims :
           /\ v[d] \in 0 .. s.dims[d].sharding - 1
           /\ u[s.dims[d].permutation + 1] = u[s.dims[d].permutation] * s.dims[d].sharding + v[d]
  PROVE  /\ u[Len(s.dims)] \in Shards(s)
         /\ \A d \in DOMAIN s.dims : ComputeTileIndex(u[Len(s.dims)], s)[d] = v[d]
<1> DEFINE n == Len(s.dims)
           i == u[n]
           B == {q \in 0 .. n : i \div ShardsFrom(s, q) = u[q]}
<1>1. n \in Nat /\ s.devices.num \in Nat \ {0} /\ ShardsFrom(s, 0) = s.devices.num /\ ShardsFrom(s, n) = 1
  BY ValidDims, ShardsFromSteps
<1>2. i \in Nat BY <1>1
<1>3. n \in B BY <1>1, <1>2
<1>4. ASSUME NEW d \in DOMAIN s.dims
      PROVE  /\ s.dims[d].permutation \in 0 .. n - 1
             /\ u[s.dims[d].permutation + 1] \div s.dims[d].sharding = u[s.dims[d].permutation]
             /\ u[s.dims[d].permutation + 1] % s.dims[d].sharding = v[d]
  <2> DEFINE q == s.dims[d].permutation
             b == s.dims[d].sharding
  <2>1. q \in 0 .. n - 1 /\ b \in Nat /\ b > 0 BY ValidDims
  <2>2. u[q] \in Nat BY <1>1, <2>1
  <2>3. u[q + 1] = b * u[q] + v[d] /\ v[d] \in 0 .. b - 1
    <3>1. u[q] * b = b * u[q] BY <2>1, <2>2
    <3> QED BY <3>1
  <2> HIDE DEF q, b
  <2>4. v[d] \in Int /\ 0 <= v[d] /\ v[d] < b /\ u[q] \in Int BY <2>1, <2>2, <2>3
  <2>5. (b * u[q] + v[d]) \div b = u[q] /\ (b * u[q] + v[d]) % b = v[d] BY <2>1, <2>4, DivUnique
  <2> QED BY <2>1, <2>3, <2>5 DEF q, b
<1>5. ASSUME NEW q \in 0 .. n - 1, q + 1 \in B PROVE q \in B
  <2>1. PICK d \in DOMAIN s.dims : s.dims[d].permutation = q BY ValidDims
  <2>2. i \div ShardsFrom(s, q) = (i \div ShardsFrom(s, q + 1)) \div s.dims[d].sharding
    BY <1>2, <2>1, DivStep
  <2> QED BY <1>1, <1>4, <1>5, <2>1, <2>2
<1>6. 0 .. n \subseteq B
  <2> HIDE DEF B
  <2> QED BY <1>1, <1>3, <1>5, DownInd
<1>7. i \in Shards(s)
  <2>1. 0 \in B BY <1>1, <1>6
  <2>2. i \div s.devices.num = 0 BY <1>1, <2>1
  <2>3. i < s.devices.num BY <1>1, <1>2, <2>2, DivNat
  <2> QED BY <1>1, <1>2, <2>3 DEF Shards
<1>8. ASSUME NEW d \in DOMAIN s.dims PROVE ComputeTileIndex(i, s)[d] = v[d]
  <2>1. ComputeTileIndex(i, s)[d] = (i \div ShardsFrom(s, s.dims[d].permutation + 1)) % s.dims[d].sharding
    BY <1>2, IndexAt
  <2>2. s.dims[d].permutation + 1 \in B BY <1>1, <1>4, <1>6
  <2> QED BY <1>4, <2>1, <2>2
<1> QED BY <1>7, <1>8

\* Every index has a shard.
LEMMA IndexSurjective ==
  ASSUME NEW s, ValidSharding(s), NEW v,
         \A d \in DOMAIN s.dims : v[d] \in 0 .. s.dims[d].sharding - 1
  PROVE  \E i \in Shards(s) : \A d \in DOMAIN s.dims : ComputeTileIndex(i, s)[d] = v[d]
<1> DEFINE n == Len(s.dims)
           At(q) == CHOOSE d \in DOMAIN s.dims : s.dims[d].permutation = q
           a == [q \in 0 .. n - 1 |-> s.dims[At(q)].sharding]
           b == [q \in 0 .. n - 1 |-> v[At(q)]]
<1>1. n \in Nat BY ValidDims
<1>2. \A q \in 0 .. n - 1 : At(q) \in DOMAIN s.dims BY ValidDims
<1>3. \A d \in DOMAIN s.dims : s.dims[d].permutation \in 0 .. n - 1 /\ At(s.dims[d].permutation) = d BY ValidDims
<1>4. \A d \in DOMAIN s.dims : s.dims[d].sharding \in Nat BY ValidDims
<1>5. \A d \in DOMAIN s.dims : v[d] \in Nat BY <1>4
<1>6. a \in [0 .. n - 1 -> Nat] /\ b \in [0 .. n - 1 -> Nat] BY <1>2, <1>4, <1>5
<1>7. \A d \in DOMAIN s.dims : a[s.dims[d].permutation] = s.dims[d].sharding /\ b[s.dims[d].permutation] = v[d]
  BY <1>3
<1> HIDE DEF a, b
<1>8. PICK u \in [0 .. n -> Nat] : Horner(a, b, n, u)
  BY <1>1, <1>6, HornerExists
<1>9. \A d \in DOMAIN s.dims : u[s.dims[d].permutation + 1] = u[s.dims[d].permutation] * s.dims[d].sharding + v[d]
  BY <1>3, <1>7, <1>8 DEF Horner
<1>10. u[n] \in Shards(s) /\ \A d \in DOMAIN s.dims : ComputeTileIndex(u[n], s)[d] = v[d]
  BY <1>8, <1>9, HornerIndex DEF Horner
<1> QED BY <1>10

\* ComputeTileShard inverts ComputeTileIndex when the shards are numbered row-major.
LEMMA ShardOfIndex ==
  ASSUME NEW s, ValidSharding(s), Len(s.dims) > 0,
         \A d \in DOMAIN s.dims : s.dims[d].permutation = d - 1,
         NEW x \in [DOMAIN s.dims -> Nat],
         \A d \in DOMAIN s.dims : x[d] \in 0 .. s.dims[d].sharding - 1
  PROVE  /\ ComputeTileShard(x, s) \in Shards(s)
         /\ \A d \in DOMAIN s.dims : ComputeTileIndex(ComputeTileShard(x, s), s)[d] = x[d]
<1> DEFINE n == Len(s.dims)
           F(f) == [d \in DOMAIN x |-> IF d = 1 THEN x[1] ELSE f[d - 1] * s.dims[d].sharding + x[d]]
           upto == CHOOSE f : f = F(f)
           a == [q \in 0 .. n - 1 |-> s.dims[q + 1].sharding]
           b == [q \in 0 .. n - 1 |-> x[q + 1]]
<1>1. n \in Nat /\ n > 0 /\ DOMAIN x = 1 .. n /\ \A d \in 1 .. n : s.dims[d].sharding \in Nat BY ValidDims
<1>2. x \in [1 .. n -> Nat] /\ \A d \in 1 .. n : x[d] \in Nat BY <1>1
<1>3. a \in [0 .. n - 1 -> Nat] /\ b \in [0 .. n - 1 -> Nat] BY <1>1, <1>2
<1>4. \E f : f = F(f)
  <2>1. PICK u \in [0 .. n -> Nat] : u[0] = 0 /\ \A q \in 0 .. n - 1 : u[q + 1] = u[q] * a[q] + b[q]
    <3> HIDE DEF a, b
    <3> QED BY <1>1, <1>3, HornerExists DEF Horner
  <2> DEFINE f == [d \in DOMAIN x |-> u[d]]
  <2>2. ASSUME NEW d \in DOMAIN x
        PROVE  f[d] = IF d = 1 THEN x[1] ELSE f[d - 1] * s.dims[d].sharding + x[d]
    <3>1. d \in Nat /\ d - 1 \in 0 .. n - 1 /\ (d - 1) + 1 = d BY <1>1
    <3>2. u[d] = u[d - 1] * s.dims[d].sharding + x[d]
      <4>1. u[(d - 1) + 1] = u[d - 1] * a[d - 1] + b[d - 1] BY <2>1, <3>1
      <4>2. a[d - 1] = s.dims[d].sharding /\ b[d - 1] = x[d] BY <3>1
      <4> QED BY <3>1, <4>1, <4>2
    <3>3. CASE d = 1
      <4>1. u[0] * s.dims[1].sharding = 0 /\ u[1] = u[0] * s.dims[1].sharding + x[1] BY <1>1, <2>1, <3>2, <3>3
      <4> QED BY <1>1, <1>2, <3>3, <4>1
    <3>4. CASE d # 1
      <4>1. d - 1 \in DOMAIN x BY <1>1, <3>4
      <4> QED BY <3>2, <3>4, <4>1
    <3> QED BY <3>3, <3>4
  <2>3. f = F(f) BY <2>2
  <2> QED BY <2>3
<1>5. upto = F(upto) BY <1>4
<1>6. ComputeTileShard(x, s) = upto[n]
  <2>1. x # <<>> /\ Len(x) = n
    <3>1. DOMAIN x # {} BY <1>1
    <3>2. x \in Seq(Nat) BY <1>1, <1>2
    <3> QED BY <1>1, <3>1, <3>2
  <2> QED BY <2>1 DEF ComputeTileShard
<1> HIDE DEF upto
<1> DEFINE u == [q \in 0 .. n |-> IF q = 0 THEN 0 ELSE upto[q]]
<1>7. ASSUME NEW q \in 0 .. n - 1, u[q] \in Nat
      PROVE  u[q + 1] = u[q] * s.dims[q + 1].sharding + x[q + 1]
  <2>1. q + 1 \in DOMAIN x /\ u[q + 1] = upto[q + 1] BY <1>1
  <2>2. upto[q + 1] = IF q + 1 = 1 THEN x[1] ELSE upto[(q + 1) - 1] * s.dims[q + 1].sharding + x[q + 1]
    BY <1>5, <2>1
  <2>3. CASE q = 0
    <3>1. 0 * s.dims[1].sharding = 0 /\ u[0] = 0 /\ x[1] \in Nat BY <1>1, <1>2
    <3> QED BY <1>1, <2>1, <2>2, <2>3, <3>1
  <2>4. CASE q # 0
    <3>1. u[q] = upto[q] /\ (q + 1) - 1 = q BY <1>1, <2>4
    <3> QED BY <1>1, <2>1, <2>2, <2>4, <3>1
  <2> QED BY <2>3, <2>4
<1>8. 0 .. n \subseteq {q \in 0 .. n : u[q] \in Nat}
  <2> DEFINE A == {q \in 0 .. n : u[q] \in Nat}
  <2>1. 0 \in A BY <1>1
  <2>2. ASSUME NEW q \in 0 .. n - 1, q \in A PROVE q + 1 \in A
    <3>1. u[q] \in Nat BY <2>2
    <3>2. u[q + 1] = u[q] * s.dims[q + 1].sharding + x[q + 1] BY <1>7, <3>1
    <3>3. s.dims[q + 1].sharding \in Nat /\ x[q + 1] \in Nat BY <1>1, <1>2
    <3>4. u[q] * s.dims[q + 1].sharding \in Nat BY <3>1, <3>3, Times
    <3>5. u[q + 1] \in Nat BY <3>2, <3>3, <3>4
    <3> QED BY <3>5
  <2> HIDE DEF A
  <2>3. 0 .. n \subseteq A BY <1>1, <2>1, <2>2, UptoInd
  <2> QED BY <2>3 DEF A
<1>9. u \in [0 .. n -> Nat] /\ u[0] = 0
  <2>1. u[0] = 0 /\ u = [q \in 0 .. n |-> u[q]] BY <1>1
  <2> HIDE DEF u
  <2>2. \A q \in 0 .. n : u[q] \in Nat BY <1>8
  <2> QED BY <2>1, <2>2
<1>10. ASSUME NEW d \in DOMAIN s.dims
       PROVE  u[s.dims[d].permutation + 1] = u[s.dims[d].permutation] * s.dims[d].sharding + x[d]
  <2>1. s.dims[d].permutation = d - 1 /\ d - 1 \in 0 .. n - 1 /\ (d - 1) + 1 = d BY <1>1
  <2> HIDE DEF u
  <2>2. u[d - 1] \in Nat BY <1>8, <2>1
  <2> QED BY <1>7, <2>1, <2>2
<1>11. u[n] = upto[n] BY <1>1
<1> HIDE DEF u
<1>12. u[n] \in Shards(s) /\ \A d \in DOMAIN s.dims : ComputeTileIndex(u[n], s)[d] = x[d]
  BY <1>9, <1>10, HornerIndex
<1> QED BY <1>6, <1>11, <1>12

\* And the other way round.
LEMMA IndexOfShard ==
  ASSUME NEW s, ValidSharding(s), Len(s.dims) > 0,
         \A d \in DOMAIN s.dims : s.dims[d].permutation = d - 1,
         NEW i \in Shards(s), NEW x \in [DOMAIN s.dims -> Nat],
         \A d \in DOMAIN s.dims : x[d] = ComputeTileIndex(i, s)[d]
  PROVE  ComputeTileShard(x, s) = i
<1>1. i \in Nat BY ShardsFromSteps DEF Shards
<1>2. \A d \in DOMAIN s.dims : x[d] \in 0 .. s.dims[d].sharding - 1 BY <1>1, IndexAt
<1>3. /\ ComputeTileShard(x, s) \in Shards(s)
      /\ \A d \in DOMAIN s.dims : ComputeTileIndex(ComputeTileShard(x, s), s)[d] = x[d]
  BY <1>2, ShardOfIndex
<1> QED BY <1>3, IndexInjective

-----------------------------------------------------------------------------
\* g lists the dimensions in S up to each of the first m.
Lists(S, m, g) ==
  /\ DOMAIN g = 0 .. m
  /\ \A d \in 0 .. m : g[d] = IF d = 0 THEN <<>> ELSE IF d \in S THEN Append(g[d - 1], d) ELSE g[d - 1]

\* Such a list exists.
LEMMA ListExists ==
  ASSUME NEW n \in Nat, NEW S
  PROVE  \E g : g = [d \in 0 .. n |-> IF d = 0 THEN <<>> ELSE IF d \in S THEN Append(g[d - 1], d) ELSE g[d - 1]]
<1> DEFINE A == {m \in 0 .. n : \E g : Lists(S, m, g)}
<1>1. 0 \in A
  <2> DEFINE w == [d \in 0 .. 0 |-> <<>>]
  <2>1. Lists(S, 0, w) BY DEF Lists
  <2> HIDE DEF w
  <2> QED BY <2>1
<1>2. ASSUME NEW m \in 0 .. n - 1, m \in A PROVE m + 1 \in A
  <2>1. PICK g : Lists(S, m, g) BY <1>2
  <2> DEFINE new == IF m + 1 \in S THEN Append(g[m], m + 1) ELSE g[m]
             w == [d \in 0 .. m + 1 |-> IF d = m + 1 THEN new ELSE g[d]]
  <2> HIDE DEF new
  <2>2. ASSUME NEW d \in 0 .. m + 1
        PROVE  w[d] = IF d = 0 THEN <<>> ELSE IF d \in S THEN Append(w[d - 1], d) ELSE w[d - 1]
    <3>1. CASE d = m + 1
      <4>1. w[d] = new /\ d - 1 = m /\ w[m] = g[m] /\ d # 0 BY <3>1
      <4>2. new = IF d \in S THEN Append(w[d - 1], d) ELSE w[d - 1] BY <3>1, <4>1 DEF new
      <4> HIDE DEF w
      <4> QED BY <4>1, <4>2
    <3>2. CASE d \in 1 .. m
      <4>1. w[d] = g[d] /\ w[d - 1] = g[d - 1] /\ d # 0 /\ d \in 0 .. m BY <3>2
      <4> HIDE DEF w
      <4> QED BY <2>1, <4>1 DEF Lists
    <3>3. CASE d = 0
      <4>1. w[d] = g[0] BY <3>3
      <4>2. g[0] = <<>> BY <2>1 DEF Lists
      <4> QED BY <3>3, <4>1, <4>2
    <3> QED BY <3>1, <3>2, <3>3
  <2>3. DOMAIN w = 0 .. m + 1 OBVIOUS
  <2> HIDE DEF w
  <2>4. Lists(S, m + 1, w) BY <2>2, <2>3 DEF Lists
  <2> QED BY <2>4
<1>3. n \in A
  <2> HIDE DEF A
  <2>1. 0 .. n \subseteq A BY <1>1, <1>2, UptoInd
  <2> QED BY <2>1
<1>4. PICK g : Lists(S, n, g) BY <1>3
<1> DEFINE h == [d \in 0 .. n |-> g[d]]
<1>5. ASSUME NEW d \in 0 .. n
      PROVE  h[d] = IF d = 0 THEN <<>> ELSE IF d \in S THEN Append(h[d - 1], d) ELSE h[d - 1]
  <2>1. CASE d = 0 BY <1>4, <2>1 DEF Lists
  <2>2. CASE d # 0
    <3>1. h[d] = g[d] /\ h[d - 1] = g[d - 1] BY <2>2
    <3> HIDE DEF h
    <3> QED BY <1>4, <2>2, <3>1 DEF Lists
  <2> QED BY <2>1, <2>2
<1>6. h = [d \in 0 .. n |-> IF d = 0 THEN <<>> ELSE IF d \in S THEN Append(h[d - 1], d) ELSE h[d - 1]] BY <1>5
<1> QED BY <1>6

\* Appending one more element.
LEMMA AppendOne ==
  ASSUME NEW T, NEW q \in Seq(T), NEW e \in T
  PROVE  /\ Append(q, e) \in Seq(T) /\ Len(Append(q, e)) = Len(q) + 1 /\ Len(q) \in Nat
         /\ \A r \in 1 .. Len(q) : Append(q, e)[r] = q[r] /\ q[r] \in T
         /\ Append(q, e)[Len(q) + 1] = e
OBVIOUS

\* InOrder lists each dimension in S once, and the first k ones at their own places.
LEMMA InOrderAt ==
  ASSUME NEW s, Len(s.dims) \in Nat, NEW S \in SUBSET (1 .. Len(s.dims))
  PROVE  /\ InOrder(S, s) \in Seq(Nat)
         /\ \A r \in DOMAIN InOrder(S, s) : InOrder(S, s)[r] \in S
         /\ \A r, t \in DOMAIN InOrder(S, s) : InOrder(S, s)[r] = InOrder(S, s)[t] => r = t
         /\ \A d \in S : \E r \in DOMAIN InOrder(S, s) : InOrder(S, s)[r] = d
         /\ \A k \in 0 .. Len(s.dims) :
              S = 1 .. k => DOMAIN InOrder(S, s) = 1 .. k /\ \A r \in 1 .. k : InOrder(S, s)[r] = r
<1> DEFINE n == Len(s.dims)
           upto == CHOOSE g : g = [d \in 0 .. n |-> IF d = 0 THEN <<>> ELSE IF d \in S THEN Append(g[d - 1], d) ELSE g[d - 1]]
<1>1. InOrder(S, s) = upto[n] BY DEF InOrder
<1>2. upto = [d \in 0 .. n |-> IF d = 0 THEN <<>> ELSE IF d \in S THEN Append(upto[d - 1], d) ELSE upto[d - 1]]
  BY ListExists
<1> HIDE DEF upto
<1>3. upto[0] = <<>> BY <1>2
<1>4. ASSUME NEW d \in 0 .. n - 1
      PROVE  upto[d + 1] = IF d + 1 \in S THEN Append(upto[d], d + 1) ELSE upto[d]
  <2>1. d + 1 \in 0 .. n /\ d + 1 # 0 /\ (d + 1) - 1 = d OBVIOUS
  <2> QED BY <1>2, <2>1
<1> DEFINE Good(d) ==
             /\ upto[d] \in Seq(Nat)
             /\ \A r \in 1 .. Len(upto[d]) : upto[d][r] \in S /\ upto[d][r] <= d
             /\ \A r, t \in 1 .. Len(upto[d]) : upto[d][r] = upto[d][t] => r = t
             /\ \A e \in S : e <= d => \E r \in 1 .. Len(upto[d]) : upto[d][r] = e
             /\ \A k \in 0 .. n :
                  S = 1 .. k => /\ Len(upto[d]) = IF d <= k THEN d ELSE k
                                /\ \A r \in 1 .. Len(upto[d]) : upto[d][r] = r
           A == {d \in 0 .. n : Good(d)}
<1>5. 0 \in A
  <2>1. Good(0)
    <3>1. Len(upto[0]) = 0 /\ 1 .. Len(upto[0]) = {} /\ upto[0] \in Seq(Nat) BY <1>3
    <3>2. \A e \in S : ~(e <= 0) OBVIOUS
    <3> QED BY <3>1, <3>2
  <2> HIDE DEF Good
  <2> QED BY <2>1
<1>6. ASSUME NEW d \in 0 .. n - 1, d \in A PROVE d + 1 \in A
  <2>1. Good(d) /\ d \in Nat /\ d + 1 \in Nat
    <3> HIDE DEF Good
    <3> QED BY <1>6
  <2> DEFINE p == upto[d]
             w == upto[d + 1]
  <2> HIDE DEF p, w
  <2>2. /\ p \in Seq(Nat) /\ Len(p) \in Nat
        /\ \A r \in 1 .. Len(p) : p[r] \in S /\ p[r] <= d
        /\ \A r, t \in 1 .. Len(p) : p[r] = p[t] => r = t
        /\ \A e \in S : e <= d => \E r \in 1 .. Len(p) : p[r] = e
        /\ \A k \in 0 .. n :
             S = 1 .. k => Len(p) = (IF d <= k THEN d ELSE k) /\ \A r \in 1 .. Len(p) : p[r] = r
    BY <2>1 DEF p
  <2>3. /\ w \in Seq(Nat)
        /\ \A r \in 1 .. Len(w) : w[r] \in S /\ w[r] <= d + 1
        /\ \A r, t \in 1 .. Len(w) : w[r] = w[t] => r = t
        /\ \A e \in S : e <= d + 1 => \E r \in 1 .. Len(w) : w[r] = e
        /\ \A k \in 0 .. n :
             S = 1 .. k => Len(w) = (IF d + 1 <= k THEN d + 1 ELSE k) /\ \A r \in 1 .. Len(w) : w[r] = r
    <3>1. CASE d + 1 \in S
      <4>1. w = Append(p, d + 1) BY <1>4, <3>1 DEF p, w
      <4>2. /\ w \in Seq(Nat) /\ Len(w) = Len(p) + 1
            /\ \A r \in 1 .. Len(p) : w[r] = p[r]
            /\ w[Len(p) + 1] = d + 1
        BY <2>1, <2>2, <4>1, AppendOne
      <4>3. \A r \in 1 .. Len(w) : (r \in 1 .. Len(p) /\ w[r] = p[r]) \/ (r = Len(p) + 1 /\ w[r] = d + 1)
        BY <2>2, <4>2
      <4>4. \A r \in 1 .. Len(w) : w[r] \in S /\ w[r] <= d + 1
        <5> SUFFICES ASSUME NEW r \in 1 .. Len(w) PROVE w[r] \in S /\ w[r] <= d + 1 OBVIOUS
        <5>1. CASE r \in 1 .. Len(p) /\ w[r] = p[r]
          <6>1. p[r] \in S /\ p[r] <= d /\ p[r] \in Nat BY <2>2, <5>1
          <6> QED BY <2>1, <5>1, <6>1
        <5>2. CASE w[r] = d + 1 BY <2>1, <3>1, <5>2
        <5> QED BY <4>3, <5>1, <5>2
      <4>5. ASSUME NEW r \in 1 .. Len(w), NEW t \in 1 .. Len(w), w[r] = w[t] PROVE r = t
        <5>1. \A x \in 1 .. Len(p) : p[x] # d + 1 BY <2>1, <2>2
        <5> QED BY <2>2, <4>3, <4>5, <5>1
      <4>6. \A e \in S : e <= d + 1 => \E r \in 1 .. Len(w) : w[r] = e
        <5> SUFFICES ASSUME NEW e \in S, e <= d + 1 PROVE \E r \in 1 .. Len(w) : w[r] = e OBVIOUS
        <5>1. CASE e = d + 1
          <6>1. Len(p) + 1 \in 1 .. Len(w) BY <2>2, <4>2
          <6> QED BY <4>2, <5>1, <6>1
        <5>2. CASE e <= d
          <6>1. PICK r \in 1 .. Len(p) : p[r] = e BY <2>2, <5>2
          <6>2. r \in 1 .. Len(w) /\ w[r] = e BY <2>2, <4>2, <6>1
          <6> QED BY <6>2
        <5> QED BY <2>1, <5>1, <5>2
      <4>7. \A k \in 0 .. n :
             S = 1 .. k => Len(w) = (IF d + 1 <= k THEN d + 1 ELSE k) /\ \A r \in 1 .. Len(w) : w[r] = r
        <5> SUFFICES ASSUME NEW k \in 0 .. n, S = 1 .. k
                     PROVE  Len(w) = (IF d + 1 <= k THEN d + 1 ELSE k) /\ \A r \in 1 .. Len(w) : w[r] = r
          OBVIOUS
        <5>1. d + 1 <= k BY <3>1
        <5>2. Len(p) = d /\ \A r \in 1 .. Len(p) : p[r] = r BY <2>1, <2>2, <5>1
        <5> QED BY <2>1, <4>2, <4>3, <5>1, <5>2
      <4> QED BY <4>2, <4>4, <4>5, <4>6, <4>7
    <3>2. CASE d + 1 \notin S
      <4>1. w = p BY <1>4, <3>2 DEF p, w
      <4>2. \A e \in S : e <= d + 1 => e <= d BY <2>1, <3>2
      <4>3. \A k \in 0 .. n : S = 1 .. k => k <= d BY <2>1, <3>2
      <4>4. \A r \in 1 .. Len(w) : w[r] \in S /\ w[r] <= d + 1
        <5>1. \A r \in 1 .. Len(p) : p[r] \in Nat BY <2>2
        <5> QED BY <2>1, <2>2, <4>1, <5>1
      <4>5. \A k \in 0 .. n :
             S = 1 .. k => Len(w) = (IF d + 1 <= k THEN d + 1 ELSE k) /\ \A r \in 1 .. Len(w) : w[r] = r
        BY <2>1, <2>2, <4>1, <4>3
      <4> QED BY <2>2, <4>1, <4>2, <4>4, <4>5
    <3> QED BY <3>1, <3>2
  <2>4. Good(d + 1) BY <2>3 DEF w
  <2> QED BY <2>4
<1>7. Good(n)
  <2> HIDE DEF Good
  <2>1. 0 \in A /\ \A d \in 0 .. n - 1 : d \in A => d + 1 \in A BY <1>5, <1>6
  <2> HIDE DEF A
  <2>2. 0 .. n \subseteq A BY <2>1, UptoInd
  <2> QED BY <2>2 DEF A
<1> DEFINE w == InOrder(S, s)
<1> HIDE DEF w
<1>8. /\ w \in Seq(Nat) /\ DOMAIN w = 1 .. Len(w)
      /\ \A r \in 1 .. Len(w) : w[r] \in S
      /\ \A r, t \in 1 .. Len(w) : w[r] = w[t] => r = t
      /\ \A e \in S : \E r \in 1 .. Len(w) : w[r] = e
      /\ \A k \in 0 .. n : S = 1 .. k => Len(w) = k /\ \A r \in 1 .. k : w[r] = r
  <2>1. w = upto[n] BY <1>1 DEF w
  <2>2. \A e \in S : e <= n OBVIOUS
  <2>3. w \in Seq(Nat) /\ DOMAIN w = 1 .. Len(w) BY <1>7, <2>1
  <2> QED BY <1>7, <2>1, <2>2, <2>3
<1> QED BY <1>8 DEF w

-----------------------------------------------------------------------------
RealSet(s) == {d \in DOMAIN s.dims : ~Replicates(s.dims[d])}

\* RealDims lists each real dimension once.
LEMMA RealAt ==
  ASSUME NEW s, ValidSharding(s)
  PROVE  /\ RealDims(s) \in Seq(Nat) /\ DOMAIN RealDims(s) = 1 .. Len(RealDims(s))
         /\ \A r \in DOMAIN RealDims(s) : RealDims(s)[r] \in RealSet(s)
         /\ \A r, t \in DOMAIN RealDims(s) : RealDims(s)[r] = RealDims(s)[t] => r = t
         /\ \A d \in RealSet(s) : \E r \in DOMAIN RealDims(s) : RealDims(s)[r] = d
         /\ \A k \in 0 .. Len(s.dims) :
              RealSet(s) = 1 .. k => /\ DOMAIN RealDims(s) = 1 .. k
                                     /\ \A r \in 1 .. k : RealDims(s)[r] = r
         /\ RealDims(s) = <<>> <=> DOMAIN RealDims(s) = {}
         /\ RealDims(s) = <<>> <=> RealSet(s) = {}
<1>1. Len(s.dims) \in Nat /\ DOMAIN s.dims = 1 .. Len(s.dims) BY ValidDims
<1>2. RealSet(s) \in SUBSET (1 .. Len(s.dims)) BY <1>1 DEF RealSet
<1>3. RealDims(s) = InOrder(RealSet(s), s) BY DEF RealDims, RealSet
<1> DEFINE w == RealDims(s)
<1> HIDE DEF w
<1>4. /\ w \in Seq(Nat)
      /\ \A r \in DOMAIN w : w[r] \in RealSet(s)
      /\ \A r, t \in DOMAIN w : w[r] = w[t] => r = t
      /\ \A d \in RealSet(s) : \E r \in DOMAIN w : w[r] = d
      /\ \A k \in 0 .. Len(s.dims) :
           RealSet(s) = 1 .. k => DOMAIN w = 1 .. k /\ \A r \in 1 .. k : w[r] = r
  BY <1>1, <1>2, <1>3, InOrderAt DEF w
<1>5. DOMAIN w = 1 .. Len(w) /\ (w = <<>> <=> DOMAIN w = {})
  <2>1. Len(w) \in Nat /\ DOMAIN w = 1 .. Len(w) BY <1>4
  <2>2. w = <<>> <=> Len(w) = 0 BY <1>4
  <2> QED BY <2>1, <2>2
<1>6. w = <<>> <=> RealSet(s) = {} BY <1>4, <1>5
<1> QED BY <1>4, <1>5, <1>6 DEF w

\* The tiles of a real dimension have equal extents, which add up to its size.
LEMMA ExtentAt ==
  ASSUME NEW s, ValidSharding(s), Tileable(s), NEW d \in RealSet(s)
  PROVE  /\ d \in DOMAIN s.dims
         /\ s.dims[d].size \in Nat \ {0} /\ s.dims[d].sharding \in Nat \ {0}
         /\ Extent(s.dims[d]) \in Nat /\ Extent(s.dims[d]) > 0
         /\ s.dims[d].size = s.dims[d].sharding * Extent(s.dims[d])
<1> DEFINE a == s.dims[d].size
           b == s.dims[d].sharding
<1>1. d \in DOMAIN s.dims /\ a \in Nat \ {0} /\ b \in Nat \ {0} BY ValidDims DEF RealSet
<1>2. a % b = 0 BY <1>1 DEF Tileable, RealSet
<1>3. Extent(s.dims[d]) = a \div b BY DEF Extent
<1> HIDE DEF a, b
<1>4. a \div b \in Nat /\ a = b * (a \div b) + (a % b) BY <1>1, DivNat
<1>5. a = b * (a \div b) BY <1>1, <1>2, <1>4
<1>6. a \div b # 0 BY <1>1, <1>5
<1> QED BY <1>1, <1>3, <1>4, <1>5, <1>6 DEF a, b

\* Which numbers a range of the r-th dimension has.
LEMMA InRange ==
  ASSUME NEW e \in Nat, e > 0, NEW b \in Nat, NEW x \in Int, NEW k \in 0 .. b - 1
  PROVE  x \in e * k .. e * k + e - 1 <=> x \in 0 .. b * e - 1 /\ k = x \div e
<1>1. ASSUME x \in e * k .. e * k + e - 1 PROVE x \in 0 .. b * e - 1 /\ k = x \div e
  <2>1. x - e * k \in Int /\ 0 <= x - e * k /\ x - e * k < e BY <1>1
  <2>2. x = e * k + (x - e * k) OBVIOUS
  <2>3. (e * k + (x - e * k)) \div e = k BY <2>1, DivUnique
  <2>4. k <= b - 1 /\ k >= 0 OBVIOUS
  <2>5. e * k <= e * (b - 1) /\ e * k >= 0 BY <2>4
  <2>6. e * (b - 1) = b * e - e OBVIOUS
  <2> QED BY <1>1, <2>2, <2>3, <2>5, <2>6
<1>2. ASSUME x \in 0 .. b * e - 1, k = x \div e PROVE x \in e * k .. e * k + e - 1
  <2>1. x = e * (x \div e) + (x % e) /\ x % e \in 0 .. e - 1 BY <1>2, DivNat
  <2> QED BY <1>2, <2>1
<1> QED BY <1>1, <1>2

\* The coordinate of an element of the array says which tile it is in.
LEMMA TileOf ==
  ASSUME NEW e \in Nat, e > 0, NEW b \in Nat, NEW x \in 0 .. b * e - 1
  PROVE  x \div e \in 0 .. b - 1
<1>1. x \in Nat OBVIOUS
<1>2. x \div e \in Nat /\ x = e * (x \div e) + (x % e) /\ x % e \in 0 .. e - 1 BY <1>1, DivNat
<1> DEFINE q == x \div e
           r == x % e
<1> HIDE DEF q, r
<1>3. q \in Nat /\ r \in Nat /\ x = e * q + r BY <1>2 DEF q, r
<1>4. e * q < b * e BY <1>3
<1>5. q < b
  <2> SUFFICES ASSUME q >= b PROVE FALSE BY <1>3
  <2>1. e * q >= e * b BY <1>3
  <2> QED BY <1>3, <1>4, <2>1
<1> QED BY <1>3, <1>5 DEF q

\* The bounds of a tile and of the array, without their special cases.
LEMMA BoundsAt ==
  ASSUME NEW s, ValidSharding(s), Tileable(s), NEW i \in Nat
  PROVE  /\ RealDims(s) = <<>> => /\ Whole(s) = <<Range1(0, 1)>>
                                  /\ ComputeTileBounds(i, s) = <<Range1(0, 1)>>
         /\ RealDims(s) # <<>> =>
              /\ Whole(s) = [r \in DOMAIN RealDims(s) |-> Range1(0, s.dims[RealDims(s)[r]].size)]
              /\ ComputeTileBounds(i, s) =
                   [r \in DOMAIN RealDims(s) |->
                      Range1(Extent(s.dims[RealDims(s)[r]]) * ComputeTileIndex(i, s)[RealDims(s)[r]],
                             Extent(s.dims[RealDims(s)[r]]))]
<1> DEFINE n == Len(s.dims)
           special == s.dims = <<>> \/ (n = 1 /\ s.dims[1].size = 1)
<1>1. n \in Nat /\ DOMAIN s.dims = 1 .. n /\ s.dims \in Seq(DimType) BY ValidDims DEF ValidSharding
<1>2. \A d \in DOMAIN s.dims : s.dims[d].size \in Nat \ {0} /\ s.dims[d].sharding \in Nat \ {0} BY ValidDims
<1>3. RealDims(s) = <<>> => special
  <2> SUFFICES ASSUME RealSet(s) = {}, s.dims # <<>>, ~(n = 1 /\ s.dims[1].size = 1) PROVE FALSE
    BY RealAt
  <2>1. n # 0 BY <1>1
  <2>2. \A d \in 1 .. n : Replicates(s.dims[d]) BY <1>1 DEF RealSet
  <2>3. n # 1 BY <1>1, <2>2 DEF Replicates
  <2>4. 1 \in 1 .. n /\ 2 \in 1 .. n
    <3>1. n \in Nat BY <1>1
    <3> HIDE DEF n
    <3> QED BY <2>1, <2>3, <3>1
  <2> QED BY <1>1, <2>2, <2>4 DEF Tileable
<1>4. ASSUME special, RealDims(s) # <<>>
      PROVE  /\ DOMAIN RealDims(s) = 1 .. 1 /\ RealDims(s)[1] = 1
             /\ s.dims[1].size = 1 /\ s.dims[1].sharding = 1 /\ 1 \in DOMAIN s.dims
  <2>1. RealSet(s) # {} BY <1>4, RealAt
  <2>2. s.dims # <<>>
    <3>1. s.dims = <<>> => DOMAIN s.dims = {} OBVIOUS
    <3> QED BY <2>1, <3>1 DEF RealSet
  <2>3. n = 1 /\ s.dims[1].size = 1 BY <1>4, <2>2
  <2>4. RealSet(s) = 1 .. 1
    <3>1. DOMAIN s.dims = 1 .. 1 BY <1>1, <2>3
    <3>2. 1 .. 1 = {1} OBVIOUS
    <3>3. RealSet(s) \subseteq {1} BY <3>1, <3>2 DEF RealSet
    <3> QED BY <2>1, <3>2, <3>3
  <2>5. DOMAIN RealDims(s) = 1 .. 1 /\ RealDims(s)[1] = 1
    <3>1. 1 \in 0 .. n BY <2>3
    <3> QED BY <2>4, <3>1, RealAt
  <2>6. 1 \in DOMAIN s.dims /\ s.dims[1].sharding = 1
    <3>1. 1 \in RealSet(s) BY <2>4
    <3> QED BY <1>2, <2>3, <3>1 DEF RealSet, Replicates
  <2> QED BY <2>3, <2>5, <2>6
<1>5. RealDims(s) = <<>> => Whole(s) = <<Range1(0, 1)>> BY DEF Whole
<1>6. special => ComputeTileBounds(i, s) = <<Range1(0, 1)>> BY DEF ComputeTileBounds
<1>7. ~special => ComputeTileBounds(i, s) =
                   [r \in DOMAIN RealDims(s) |->
                      Range1(Extent(s.dims[RealDims(s)[r]]) * ComputeTileIndex(i, s)[RealDims(s)[r]],
                             Extent(s.dims[RealDims(s)[r]]))]
  BY DEF ComputeTileBounds
<1>8. RealDims(s) # <<>> => Whole(s) = [r \in DOMAIN RealDims(s) |-> Range1(0, s.dims[RealDims(s)[r]].size)]
  BY DEF Whole
<1>9. ASSUME special, RealDims(s) # <<>>
      PROVE  ComputeTileBounds(i, s) =
               [r \in DOMAIN RealDims(s) |->
                  Range1(Extent(s.dims[RealDims(s)[r]]) * ComputeTileIndex(i, s)[RealDims(s)[r]],
                         Extent(s.dims[RealDims(s)[r]]))]
  <2>1. /\ DOMAIN RealDims(s) = 1 .. 1 /\ RealDims(s)[1] = 1
        /\ s.dims[1].size = 1 /\ s.dims[1].sharding = 1 /\ 1 \in DOMAIN s.dims
    BY <1>4, <1>9
  <2>2. ComputeTileIndex(i, s)[1] \in 0 .. 1 - 1 BY <2>1, IndexAt
  <2>3. Extent(s.dims[1]) = 1 BY <2>1 DEF Extent
  <2>4. Range1(Extent(s.dims[1]) * ComputeTileIndex(i, s)[1], Extent(s.dims[1])) = Range1(0, 1)
    BY <2>2, <2>3
  <2>5. <<Range1(0, 1)>> = [r \in 1 .. 1 |-> Range1(0, 1)] OBVIOUS
  <2>6. \A r \in 1 .. 1 : RealDims(s)[r] = 1 BY <2>1
  <2> QED BY <1>6, <1>9, <2>1, <2>4, <2>5, <2>6
<1> HIDE DEF special
<1> QED BY <1>3, <1>5, <1>6, <1>7, <1>8, <1>9

\* The elements of a box.
LEMMA PointIn ==
  ASSUME NEW box, \A r \in DOMAIN box : box[r].lo \in Int /\ box[r].hi \in Int, NEW pt
  PROVE  pt \in Points(box) <=> /\ pt \in [DOMAIN box -> Int]
                                /\ \A r \in DOMAIN box : pt[r] \in box[r].lo .. box[r].hi
<1> DEFINE U == UNION {box[r].lo .. box[r].hi : r \in DOMAIN box}
<1>1. \A r \in DOMAIN box : box[r].lo .. box[r].hi \subseteq U OBVIOUS
<1>2. U \subseteq Int
  <2> SUFFICES ASSUME NEW r \in DOMAIN box, NEW x \in box[r].lo .. box[r].hi PROVE x \in Int OBVIOUS
  <2> QED OBVIOUS
<1>3. Points(box) = {p \in [DOMAIN box -> U] : \A r \in DOMAIN box : p[r] \in box[r].lo .. box[r].hi} BY DEF Points
<1> HIDE DEF U
<1>4. ASSUME pt \in [DOMAIN box -> U] PROVE pt \in [DOMAIN box -> Int] BY <1>2, <1>4
<1>5. ASSUME pt \in [DOMAIN box -> Int], \A r \in DOMAIN box : pt[r] \in box[r].lo .. box[r].hi
      PROVE  pt \in [DOMAIN box -> U]
  BY <1>1, <1>5
<1> QED BY <1>3, <1>4, <1>5

\* The real dimension at a place of a box.
LEMMA RealDimAt ==
  ASSUME NEW s, ValidSharding(s), Tileable(s), NEW r \in DOMAIN RealDims(s), NEW i \in Nat
  PROVE  LET d == RealDims(s)[r] IN
         /\ d \in RealSet(s) /\ d \in DOMAIN s.dims
         /\ s.dims[d].size \in Nat \ {0} /\ s.dims[d].sharding \in Nat \ {0}
         /\ Extent(s.dims[d]) \in Nat /\ Extent(s.dims[d]) > 0
         /\ s.dims[d].size = s.dims[d].sharding * Extent(s.dims[d])
         /\ ComputeTileIndex(i, s)[d] \in 0 .. s.dims[d].sharding - 1
         /\ Extent(s.dims[d]) * ComputeTileIndex(i, s)[d] \in Nat
<1>1. RealDims(s)[r] \in RealSet(s) BY RealAt
<1> DEFINE d == RealDims(s)[r]
<1> HIDE DEF d
<1>2. d \in RealSet(s) BY <1>1 DEF d
<1>3. /\ d \in DOMAIN s.dims
      /\ s.dims[d].size \in Nat \ {0} /\ s.dims[d].sharding \in Nat \ {0}
      /\ Extent(s.dims[d]) \in Nat /\ Extent(s.dims[d]) > 0
      /\ s.dims[d].size = s.dims[d].sharding * Extent(s.dims[d])
  BY <1>2, ExtentAt
<1>4. ComputeTileIndex(i, s)[d] \in 0 .. s.dims[d].sharding - 1 BY <1>3, IndexAt
<1>5. ComputeTileIndex(i, s)[d] \in Nat BY <1>3, <1>4
<1>6. Extent(s.dims[d]) * ComputeTileIndex(i, s)[d] \in Nat BY <1>3, <1>5, Times
<1> QED BY <1>2, <1>3, <1>4, <1>6 DEF d

\* The elements of the array, and those of a tile: the coordinates say which.
LEMMA WholePoint ==
  ASSUME NEW s, ValidSharding(s), Tileable(s), NEW pt
  PROVE  /\ RealDims(s) = <<>> => (pt \in Points(Whole(s)) <=> pt \in [1 .. 1 -> 0 .. 0])
         /\ RealDims(s) # <<>> =>
              (pt \in Points(Whole(s)) <=>
                 /\ pt \in [DOMAIN RealDims(s) -> Int]
                 /\ \A r \in DOMAIN RealDims(s) : pt[r] \in 0 .. s.dims[RealDims(s)[r]].size - 1)
<1>1. CASE RealDims(s) = <<>>
  <2>1. Whole(s) = <<Range1(0, 1)>> BY <1>1, BoundsAt
  <2>2. DOMAIN Whole(s) = 1 .. 1 /\ \A r \in 1 .. 1 : Whole(s)[r].lo = 0 /\ Whole(s)[r].hi = 0
    BY <2>1 DEF Range1
  <2>3. pt \in Points(Whole(s)) <=> /\ pt \in [1 .. 1 -> Int]
                                    /\ \A r \in 1 .. 1 : pt[r] \in 0 .. 0
    BY <2>2, PointIn
  <2> QED BY <1>1, <2>3
<1>2. CASE RealDims(s) # <<>>
  <2> DEFINE w == Whole(s)
  <2>1. w = [r \in DOMAIN RealDims(s) |-> Range1(0, s.dims[RealDims(s)[r]].size)] BY <1>2, BoundsAt
  <2> HIDE DEF w
  <2>2. \A r \in DOMAIN RealDims(s) : s.dims[RealDims(s)[r]].size \in Nat BY RealDimAt
  <2>3. DOMAIN w = DOMAIN RealDims(s)
        /\ \A r \in DOMAIN w : w[r].lo = 0 /\ w[r].hi = s.dims[RealDims(s)[r]].size - 1
    BY <2>1, <2>2 DEF Range1
  <2>4. pt \in Points(w) <=> /\ pt \in [DOMAIN w -> Int]
                             /\ \A r \in DOMAIN w : pt[r] \in w[r].lo .. w[r].hi
    BY <2>2, <2>3, PointIn
  <2> QED BY <1>2, <2>3, <2>4 DEF w
<1> QED BY <1>1, <1>2

\* An element is in a tile if its coordinates divided by the extents are the tile index.
LEMMA TilePoint ==
  ASSUME NEW s, ValidSharding(s), Tileable(s), NEW i \in Nat, NEW pt
  PROVE  pt \in Points(ComputeTileBounds(i, s)) <=>
           /\ pt \in Points(Whole(s))
           /\ \A r \in DOMAIN RealDims(s) :
                ComputeTileIndex(i, s)[RealDims(s)[r]] = pt[r] \div Extent(s.dims[RealDims(s)[r]])
<1>1. CASE RealDims(s) = <<>>
  <2>1. Whole(s) = ComputeTileBounds(i, s) BY <1>1, BoundsAt
  <2>2. DOMAIN RealDims(s) = {} BY <1>1
  <2> QED BY <2>1, <2>2
<1>2. CASE RealDims(s) # <<>>
  <2> DEFINE D == DOMAIN RealDims(s)
             dim(r) == s.dims[RealDims(s)[r]]
             e(r) == Extent(dim(r))
             k(r) == ComputeTileIndex(i, s)[RealDims(s)[r]]
             box == ComputeTileBounds(i, s)
  <2>1. box = [r \in D |-> Range1(e(r) * k(r), e(r))] BY <1>2, BoundsAt
  <2>2. \A r \in D : /\ e(r) \in Nat /\ e(r) > 0 /\ dim(r).sharding \in Nat
                     /\ dim(r).size = dim(r).sharding * e(r) /\ e(r) * k(r) \in Nat
                     /\ k(r) \in 0 .. dim(r).sharding - 1
    BY RealDimAt
  <2> HIDE DEF box, D, dim, e, k
  <2>3. DOMAIN box = D /\ \A r \in D : box[r].lo = e(r) * k(r) /\ box[r].hi = e(r) * k(r) + e(r) - 1
    BY <2>1, <2>2 DEF Range1
  <2>4. pt \in Points(box) <=> pt \in [D -> Int] /\ \A r \in D : pt[r] \in e(r) * k(r) .. e(r) * k(r) + e(r) - 1
    BY <2>2, <2>3, PointIn
  <2>5. pt \in Points(Whole(s)) <=> pt \in [D -> Int] /\ \A r \in D : pt[r] \in 0 .. dim(r).size - 1
    BY <1>2, WholePoint DEF D, dim
  <2>6. ASSUME pt \in [D -> Int], NEW r \in D
        PROVE  pt[r] \in e(r) * k(r) .. e(r) * k(r) + e(r) - 1 <=> pt[r] \in 0 .. dim(r).size - 1 /\ k(r) = pt[r] \div e(r)
    <3>1. pt[r] \in Int BY <2>6
    <3> QED BY <2>2, <3>1, InRange
  <2>7. pt \in Points(box) <=> pt \in Points(Whole(s)) /\ \A r \in D : k(r) = pt[r] \div e(r)
    BY <2>4, <2>5, <2>6
  <2> QED BY <2>7 DEF box, D, dim, e, k
<1> QED BY <1>1, <1>2

\* Every element of the array is in a tile, whatever the coordinates of its shard are in
\* the dimensions that only replicate.
LEMMA ShardAt ==
  ASSUME NEW s, ValidSharding(s), Tileable(s), NEW pt \in Points(Whole(s)), NEW w,
         \A d \in DOMAIN s.dims \ RealSet(s) : w[d] \in 0 .. s.dims[d].sharding - 1
  PROVE  \E i \in Shards(s) :
           /\ pt \in Points(ComputeTileBounds(i, s))
           /\ \A d \in DOMAIN s.dims \ RealSet(s) : ComputeTileIndex(i, s)[d] = w[d]
<1> DEFINE At(d) == CHOOSE r \in DOMAIN RealDims(s) : RealDims(s)[r] = d
           v == [d \in DOMAIN s.dims |->
                   IF d \in RealSet(s) THEN pt[At(d)] \div Extent(s.dims[d]) ELSE w[d]]
<1>1. \A d \in RealSet(s) : At(d) \in DOMAIN RealDims(s) /\ RealDims(s)[At(d)] = d BY RealAt
<1>2. \A r \in DOMAIN RealDims(s) : RealDims(s)[r] \in RealSet(s) /\ At(RealDims(s)[r]) = r BY RealAt
<1>3. ASSUME NEW d \in DOMAIN s.dims PROVE v[d] \in 0 .. s.dims[d].sharding - 1
  <2>1. CASE d \in RealSet(s)
    <3>1. /\ Extent(s.dims[d]) \in Nat /\ Extent(s.dims[d]) > 0 /\ s.dims[d].sharding \in Nat
          /\ s.dims[d].size = s.dims[d].sharding * Extent(s.dims[d])
      BY <2>1, ExtentAt
    <3>2. RealDims(s) # <<>> BY <2>1, RealAt
    <3>3. pt[At(d)] \in 0 .. s.dims[d].size - 1 BY <1>1, <2>1, <3>2, WholePoint
    <3>4. pt[At(d)] \div Extent(s.dims[d]) \in 0 .. s.dims[d].sharding - 1 BY <3>1, <3>3, TileOf
    <3> QED BY <2>1, <3>4
  <2>2. CASE d \notin RealSet(s) BY <2>2
  <2> QED BY <2>1, <2>2
<1>4. PICK i \in Shards(s) : \A d \in DOMAIN s.dims : ComputeTileIndex(i, s)[d] = v[d]
  <2> HIDE DEF v
  <2> QED BY <1>3, IndexSurjective
<1>5. i \in Nat BY ShardsFromSteps DEF Shards
<1>6. RealSet(s) \subseteq DOMAIN s.dims BY DEF RealSet
<1>7. \A r \in DOMAIN RealDims(s) :
        ComputeTileIndex(i, s)[RealDims(s)[r]] = pt[r] \div Extent(s.dims[RealDims(s)[r]])
  BY <1>2, <1>4, <1>6
<1>8. pt \in Points(ComputeTileBounds(i, s)) BY <1>5, <1>7, TilePoint
<1> QED BY <1>4, <1>8

-----------------------------------------------------------------------------
\* TotalSharding is the number of different tiles; a replicating dimension multiplies it.
LEMMA TotalAt ==
  ASSUME NEW s, ValidSharding(s), Tileable(s)
  PROVE  /\ TotalSharding(s) \in Nat \ {0}
         /\ RealSet(s) = DOMAIN s.dims => TotalSharding(s) = s.devices.num
         /\ \A d \in DOMAIN s.dims \ RealSet(s) : s.devices.num = s.dims[d].sharding * TotalSharding(s)
         /\ TotalSharding(s) = 1 => \A d \in RealSet(s) : s.dims[d].sharding = 1
<1> DEFINE D == DOMAIN s.dims
           R == RealSet(s)
           B == {d \in D : s.dims[d].size > 1}
           f == Cut(s)
<1>1. IsFiniteSet(D) /\ \A d \in D : f[d] \in Nat \ {0} /\ f[d] = s.dims[d].sharding /\ s.dims[d].size \in Nat \ {0}
  BY ValidDims
<1>2. R \in SUBSET D /\ IsFiniteSet(R) BY <1>1, FS_Subset DEF RealSet
<1>3. B \in SUBSET R BY <1>1 DEF RealSet, Replicates
<1>4. \A d \in R \ B : f[d] = 1 BY <1>1 DEF RealSet, Replicates
<1>5. TotalSharding(s) = Product(f, B) BY DEF TotalSharding, Cut
<1>6. Product(f, D) = s.devices.num BY DEF ValidSharding, Cut
<1> HIDE DEF D, R, B, f
<1>7. Product(f, R) = Product(f, B) BY <1>1, <1>2, <1>3, <1>4, ProductUnits
<1>8. Product(f, R) \in Nat \ {0} BY <1>1, <1>2, ProductType
<1>9. ASSUME NEW d \in D \ R PROVE s.devices.num = s.dims[d].sharding * TotalSharding(s)
  <2>1. Product(f, D) = f[d] * Product(f, D \ {d}) BY <1>1, ProductStep
  <2>2. D \ {d} = R
    <3>1. \A e \in D \ R : e = d BY DEF D, R, RealSet, Tileable
    <3> QED BY <1>2, <3>1
  <2> QED BY <1>1, <1>5, <1>6, <1>7, <2>1, <2>2
<1>10. TotalSharding(s) = 1 => \A d \in R : s.dims[d].sharding = 1
  <2>1. Product(f, R) = 1 => \A d \in R : f[d] = 1 BY <1>1, <1>2, ProductOne
  <2> QED BY <1>1, <1>2, <1>5, <1>7, <2>1
<1> QED BY <1>5, <1>6, <1>7, <1>8, <1>9, <1>10 DEF D, R

\* A replicated array has all of itself in every tile.
LEMMA ReplicatedTile ==
  ASSUME NEW s, ValidSharding(s), Tileable(s), IsReplicated(s), NEW i \in Nat
  PROVE  ComputeTileBounds(i, s) = Whole(s)
<1>1. CASE RealDims(s) = <<>> BY <1>1, BoundsAt
<1>2. CASE RealDims(s) # <<>>
  <2>1. ASSUME NEW r \in DOMAIN RealDims(s)
        PROVE  Range1(Extent(s.dims[RealDims(s)[r]]) * ComputeTileIndex(i, s)[RealDims(s)[r]],
                      Extent(s.dims[RealDims(s)[r]])) = Range1(0, s.dims[RealDims(s)[r]].size)
    <3> DEFINE d == RealDims(s)[r]
    <3> HIDE DEF d
    <3>1. /\ d \in RealSet(s) /\ Extent(s.dims[d]) \in Nat
          /\ s.dims[d].size = s.dims[d].sharding * Extent(s.dims[d])
          /\ ComputeTileIndex(i, s)[d] \in 0 .. s.dims[d].sharding - 1
      BY RealDimAt DEF d
    <3>2. s.dims[d].sharding = 1 BY <3>1, TotalAt DEF IsReplicated
    <3>3. ComputeTileIndex(i, s)[d] = 0 /\ s.dims[d].size = Extent(s.dims[d]) BY <3>1, <3>2
    <3>4. Extent(s.dims[d]) * 0 = 0 BY <3>1
    <3> QED BY <3>3, <3>4 DEF d
  <2> QED BY <1>2, <2>1, BoundsAt
<1> QED BY <1>1, <1>2

\* The tiles cover the array, each element as often as the array is replicated
\* (ComputeTileIndex, ComputeTileBounds).
THEOREM TilesCover ==
  ASSUME NEW s, ValidSharding(s), Tileable(s), NEW pt \in Points(Whole(s))
  PROVE  Cardinality({i \in Shards(s) : pt \in Points(ComputeTileBounds(i, s))})
           = s.devices.num \div TotalSharding(s)
<1> DEFINE A == {i \in Shards(s) : pt \in Points(ComputeTileBounds(i, s))}
           num == s.devices.num
           total == TotalSharding(s)
<1>1. num \in Nat \ {0} /\ total \in Nat \ {0} BY ShardsFromSteps, TotalAt
<1>2. Shards(s) \subseteq Nat BY <1>1 DEF Shards
<1>3. ASSUME NEW i \in A, NEW j \in A, NEW d \in RealSet(s)
      PROVE  ComputeTileIndex(i, s)[d] = ComputeTileIndex(j, s)[d]
  <2>1. PICK r \in DOMAIN RealDims(s) : RealDims(s)[r] = d BY RealAt
  <2>2. i \in Nat /\ j \in Nat BY <1>2
  <2>3. ComputeTileIndex(i, s)[d] = pt[r] \div Extent(s.dims[d]) BY <2>1, <2>2, TilePoint
  <2>4. ComputeTileIndex(j, s)[d] = pt[r] \div Extent(s.dims[d]) BY <2>1, <2>2, TilePoint
  <2> QED BY <2>3, <2>4
<1>4. CASE RealSet(s) = DOMAIN s.dims
  <2>1. total = num BY <1>4, TotalAt
  <2>2. num \div total = 1 BY <1>1, <2>1
  <2>3. PICK i \in Shards(s) : pt \in Points(ComputeTileBounds(i, s)) BY <1>4, ShardAt
  <2>4. ASSUME NEW j \in A PROVE j = i
    <3>1. i \in A BY <2>3
    <3>2. \A d \in DOMAIN s.dims : ComputeTileIndex(i, s)[d] = ComputeTileIndex(j, s)[d] BY <1>3, <1>4, <3>1
    <3> QED BY <3>2, IndexInjective
  <2>5. A = {i} BY <2>3, <2>4
  <2>6. Cardinality(A) = 1 BY <2>5, FS_Singleton
  <2> QED BY <2>2, <2>6
<1>5. CASE RealSet(s) # DOMAIN s.dims
  <2>1. PICK rho \in DOMAIN s.dims : rho \notin RealSet(s) BY <1>5 DEF RealSet
  <2>2. \A d \in DOMAIN s.dims : d = rho \/ d \in RealSet(s) BY <2>1 DEF RealSet, Tileable
  <2> DEFINE k == s.dims[rho].sharding
             f == [i \in A |-> ComputeTileIndex(i, s)[rho]]
  <2>3. k \in Nat \ {0} BY ValidDims
  <2>4. num = k * total BY <2>1, TotalAt
  <2>5. num \div total = k
    <3>1. num = total * k + 0 BY <1>1, <2>3, <2>4
    <3> HIDE DEF num, total, k
    <3> QED BY <1>1, <2>3, <3>1, DivUnique
  <2>6. f \in [A -> 0 .. k - 1] BY <1>2, IndexAt
  <2>7. ASSUME NEW i \in A, NEW j \in A, f[i] = f[j] PROVE i = j
    <3>1. \A d \in DOMAIN s.dims : ComputeTileIndex(i, s)[d] = ComputeTileIndex(j, s)[d] BY <1>3, <2>2, <2>7
    <3> QED BY <3>1, IndexInjective
  <2>8. ASSUME NEW c \in 0 .. k - 1 PROVE \E i \in A : f[i] = c
    <3> DEFINE w == [d \in DOMAIN s.dims |-> c]
    <3>1. \A d \in DOMAIN s.dims \ RealSet(s) : w[d] \in 0 .. s.dims[d].sharding - 1 BY <2>2
    <3>2. w[rho] = c OBVIOUS
    <3> HIDE DEF w
    <3>3. PICK i \in Shards(s) : pt \in Points(ComputeTileBounds(i, s)) /\ ComputeTileIndex(i, s)[rho] = w[rho]
      BY <2>1, <3>1, ShardAt
    <3> QED BY <3>2, <3>3
  <2> HIDE DEF f
  <2>9. f \in Injection(A, 0 .. k - 1) BY <2>6, <2>7 DEF Injection, IsInjective
  <2>10. f \in Surjection(A, 0 .. k - 1) BY <2>6, <2>8 DEF Surjection
  <2>11. ExistsBijection(A, 0 .. k - 1) BY <2>9, <2>10 DEF ExistsBijection, Bijection
  <2>12. IsFiniteSet(A)
    <3>1. IsFiniteSet(Shards(s)) BY <1>1, FS_Interval DEF Shards
    <3> QED BY <3>1, FS_Subset
  <2>13. Cardinality(0 .. k - 1) = Cardinality(A)
    <3> HIDE DEF A
    <3> QED BY <2>11, <2>12, FS_Bijection
  <2>14. Cardinality(0 .. k - 1) = k BY <2>3, FS_Interval
  <2> QED BY <2>5, <2>13, <2>14
<1> QED BY <1>4, <1>5
=============================================================================
