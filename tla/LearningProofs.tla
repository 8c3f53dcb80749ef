---------------------------- MODULE LearningProofs ----------------------------
(* Proofs about Learning, for a network of any size, any data and any        *)
(* weights.                                                                  *)
(*                                                                           *)
(* 1. Sums: what the folds of the library compute, by the least              *)
(*    counterexample, since an induction over data has no other form here.   *)
(* 2. Twins: what two hidden units add to the network, and what comes back   *)
(*    to them, are sums of the same numbers as long as their weights are     *)
(*    equal, so one step of training changes both alike.                     *)
(* 3. Numbers: training keeps the weights integers.                          *)
(* 4. Counting: an update stays what its sensor sent, and the average does   *)
(*    not depend on the order of the updates.                                *)
(* 5. Gradients: the difference quotient of the squared error by one weight  *)
(*    is the number that Train multiplies with the learning rate.            *)
(* 6. Metrics: the sum of all errors is the sum of the errors of the         *)
(*    samples, and the Cauchy-Schwarz inequality relates the metrics.        *)
EXTENDS Learning, FiniteSetTheorems, SequenceTheorems, WellFoundedInduction, TLAPS

-----------------------------------------------------------------------------
(* 1. Sums. *)

(* Induction, without a predicate as parameter: every set of numbers has a   *)
(* least element, and every set of finite sets one of the least size.        *)
LEMMA LeastNumber ==
  ASSUME NEW T, T \subseteq Nat, T # {}
  PROVE  \E n \in T : \A k \in T : n <= k
<1> DEFINE R == OpToRel(<, Nat)
<1>1. IsWellFoundedOn(R, Nat) BY NatLessThanWellFounded
<1>2. \A n, k \in Nat : <<k, n>> \in R <=> k < n BY DEF OpToRel
<1> HIDE DEF R
<1>3. PICK n \in T : \A k \in T : ~ <<k, n>> \in R BY <1>1, WFMin
<1>4. ASSUME NEW k \in T PROVE n <= k
  <2>1. n \in Nat /\ k \in Nat /\ ~(k < n) BY <1>2, <1>3
  <2> QED BY <2>1
<1> QED BY <1>3, <1>4

(* Among finite sets, one has the fewest elements. *)
LEMMA SmallestSet ==
  ASSUME NEW B, B # {}, \A s \in B : IsFiniteSet(s)
  PROVE  \E s \in B : \A t \in B : Cardinality(s) <= Cardinality(t)
<1> DEFINE T == {Cardinality(s) : s \in B}
<1>1. T \subseteq Nat /\ T # {} BY FS_CardinalityType
<1>2. \A s \in B : Cardinality(s) \in T OBVIOUS
<1>3. \A n \in T : \E s \in B : n = Cardinality(s) OBVIOUS
<1> HIDE DEF T
<1>4. PICK n \in T : \A k \in T : n <= k BY <1>1, LeastNumber
<1> QED BY <1>2, <1>3, <1>4

(* What is left of a finite set without one element is smaller. *)
LEMMA Smaller ==
  ASSUME NEW s, IsFiniteSet(s), NEW x \in s
  PROVE  IsFiniteSet(s \ {x}) /\ ~(Cardinality(s) <= Cardinality(s \ {x}))
<1>1. /\ IsFiniteSet(s \ {x}) /\ Cardinality(s) \in Nat /\ Cardinality(s \ {x}) = Cardinality(s) - 1
  BY FS_RemoveElement, FS_CardinalityType
<1> QED BY <1>1

(* The sums g of f over the subsets of S. *)
Pick(s) == CHOOSE x \in s : TRUE
Sums(g, f, S) == g = [s \in SUBSET S |-> IF s = {} THEN 0 ELSE f[Pick(s)] + g[s \ {Pick(s)}]]

(* What the library's sum over a set stands for. *)
LEMMA SumIs ==
  ASSUME NEW f, NEW S
  PROVE  SumFunctionOnSet(f, S) = (CHOOSE g : Sums(g, f, S))[S]
BY DEF SumFunctionOnSet, FoldFunctionOnSet, MapThenFoldSet, Sums, Pick

LEMMA PickIn == \A s : s # {} => Pick(s) \in s BY DEF Pick

(* Two functions of sums agree where both are defined. *)
LEMMA SumsUnique ==
  ASSUME NEW f, NEW S, NEW R, NEW g, NEW h, Sums(g, f, S), Sums(h, f, R),
         NEW s, s \subseteq S, s \subseteq R, IsFiniteSet(s)
  PROVE  g[s] = h[s]
<1> DEFINE B == {t \in SUBSET s : g[t] # h[t]}
<1>1. CASE B = {} BY <1>1
<1>2. CASE B # {}
  <2>1. \A t \in B : IsFiniteSet(t) BY FS_Subset
  <2>2. PICK t \in B : \A r \in B : Cardinality(t) <= Cardinality(r) BY <1>2, <2>1, SmallestSet
  <2>3. t \subseteq s /\ t \in SUBSET S /\ t \in SUBSET R /\ g[t] # h[t] /\ IsFiniteSet(t) BY <2>1
  <2> DEFINE x == Pick(t)
             r == t \ {x}
  <2>4. /\ g[t] = IF t = {} THEN 0 ELSE f[x] + g[r]
        /\ h[t] = IF t = {} THEN 0 ELSE f[x] + h[r]
    BY <2>3 DEF Sums
  <2>5. t # {} BY <2>3, <2>4
  <2>6. x \in t BY <2>5, PickIn
  <2> HIDE DEF x
  <2>7. r \notin B BY <2>2, <2>3, <2>6, Smaller
  <2>8. g[r] = h[r] BY <2>3, <2>7
  <2> QED BY <2>3, <2>4, <2>8
<1> QED BY <1>1, <1>2

(* The definition of SumFunctionOnSet is one of such a function. *)
LEMMA SumsExist ==
  ASSUME NEW f, NEW S, IsFiniteSet(S)
  PROVE  \E g : Sums(g, f, S)
<1> DEFINE Small(n) == {s \in SUBSET S : Cardinality(s) <= n}
           Body(g, s) == IF s = {} THEN 0 ELSE f[Pick(s)] + g[s \ {Pick(s)}]
           Part(g, n) == g = [s \in Small(n) |-> Body(g, s)]
           T == {n \in Nat : ~ \E g : Part(g, n)}
<1>1. \A s \in SUBSET S : IsFiniteSet(s) /\ Cardinality(s) \in Nat BY FS_Subset, FS_CardinalityType
<1>2. CASE T = {}
  <2>1. Small(Cardinality(S)) = SUBSET S BY FS_Subset
  <2>2. Cardinality(S) \in Nat BY <1>1
  <2>3. PICK g : Part(g, Cardinality(S)) BY <1>2, <2>2
  <2>4. Sums(g, f, S) BY <2>1, <2>3 DEF Sums
  <2> QED BY <2>4
<1>3. CASE T # {}
  <2>1. PICK n \in T : \A k \in T : n <= k BY <1>3, LeastNumber
  <2>2. n \in Nat /\ ~ \E g : Part(g, n) BY <2>1
  <2>3. CASE n = 0
    <3> DEFINE g == [s \in Small(0) |-> 0]
    <3>1. \A s \in Small(0) : s = {} BY <1>1, FS_EmptySet
    <3>2. Part(g, 0) BY <3>1
    <3> QED BY <2>2, <2>3, <3>2
  <2>4. CASE n # 0
    <3>1. n - 1 \in Nat /\ ~(n <= n - 1) BY <2>2, <2>4
    <3>2. n - 1 \notin T BY <2>1, <3>1
    <3>3. PICK g : Part(g, n - 1) BY <3>1, <3>2
    <3> DEFINE h == [s \in Small(n) |-> Body(g, s)]
    <3>4. ASSUME NEW s \in Small(n), s # {} PROVE h[s \ {Pick(s)}] = g[s \ {Pick(s)}]
      <4> DEFINE r == s \ {Pick(s)}
      <4>1. Pick(s) \in s BY <3>4, PickIn
      <4>2. s \in SUBSET S /\ Cardinality(s) <= n /\ IsFiniteSet(s) /\ Cardinality(s) \in Nat
        BY <1>1
      <4>3. Cardinality(r) = Cardinality(s) - 1 /\ r \in SUBSET S
        BY <4>1, <4>2, FS_RemoveElement
      <4>4. r \in Small(n) /\ r \in Small(n - 1) BY <2>2, <4>2, <4>3
      <4> HIDE DEF r
      <4>5. h[r] = Body(g, r) BY <4>4
      <4>6. g[r] = Body(g, r) BY <3>3, <4>4
      <4> QED BY <4>5, <4>6 DEF r
    <3>5. \A s \in Small(n) : Body(h, s) = Body(g, s)
      <4> HIDE DEF h, Small
      <4> QED BY <3>4
    <3>6. Part(h, n)
      <4> HIDE DEF Body, Small
      <4> QED BY <3>5
    <3> QED BY <2>2, <3>6
  <2> QED BY <2>3, <2>4
<1> QED BY <1>2, <1>3

(* The sum of nothing is 0, ... *)
LEMMA SumEmpty == ASSUME NEW f PROVE SumFunctionOnSet(f, {}) = 0
<1> DEFINE g == CHOOSE h : Sums(h, f, {})
<1>1. Sums(g, f, {}) BY SumsExist, FS_EmptySet
<1> HIDE DEF g
<1>2. g[{}] = 0 BY <1>1 DEF Sums
<1> QED BY <1>2, SumIs DEF g

(* ... and the sum over a set takes one element and goes on with the rest. *)
LEMMA SumPick ==
  ASSUME NEW f, NEW S, IsFiniteSet(S), S # {}
  PROVE  SumFunctionOnSet(f, S) = f[Pick(S)] + SumFunctionOnSet(f, S \ {Pick(S)})
<1> DEFINE r == S \ {Pick(S)}
           g == CHOOSE k : Sums(k, f, S)
           h == CHOOSE k : Sums(k, f, r)
<1>1. IsFiniteSet(r) BY FS_Subset
<1>2. Sums(g, f, S) BY SumsExist
<1>3. Sums(h, f, r) BY <1>1, SumsExist
<1>4. SumFunctionOnSet(f, S) = g[S] /\ SumFunctionOnSet(f, r) = h[r] BY SumIs
<1>5. r \subseteq S OBVIOUS
<1> HIDE DEF g, h, r
<1>6. g[r] = h[r] BY <1>1, <1>2, <1>3, <1>5, SumsUnique
<1>7. g[S] = f[Pick(S)] + g[r] BY <1>2 DEF Sums, r
<1> QED BY <1>4, <1>6, <1>7 DEF r

(* Induction over the subsets of a finite set: Q are those of which          *)
(* something is known.                                                       *)
LEMMA SubsetInduction ==
  ASSUME NEW S, IsFiniteSet(S), NEW Q, {} \in Q,
         \A t \in SUBSET S : t # {} /\ (\A x \in t : t \ {x} \in Q) => t \in Q
  PROVE  S \in Q
<1> DEFINE B == (SUBSET S) \ Q
<1>1. CASE B = {} BY <1>1
<1>2. CASE B # {}
  <2>1. \A t \in B : IsFiniteSet(t) BY FS_Subset
  <2>2. PICK t \in B : \A r \in B : Cardinality(t) <= Cardinality(r) BY <1>2, <2>1, SmallestSet
  <2>3. \A x \in t : t \ {x} \notin B BY <2>1, <2>2, Smaller
  <2>4. t \in SUBSET S /\ t \notin Q /\ t # {} /\ \A x \in t : t \ {x} \in Q BY <2>2, <2>3
  <2> QED BY <2>4
<1> QED BY <1>1, <1>2

(* The sum of integers is an integer. *)
LEMMA SumInt ==
  ASSUME NEW f, NEW S, IsFiniteSet(S), \A i \in S : f[i] \in Int
  PROVE  SumFunctionOnSet(f, S) \in Int
<1> DEFINE Q == {t \in SUBSET S : SumFunctionOnSet(f, t) \in Int}
<1>1. {} \in Q BY SumEmpty
<1>2. ASSUME NEW t \in SUBSET S, t # {}, \A x \in t : t \ {x} \in Q PROVE t \in Q
  <2> DEFINE x == Pick(t)
  <2>1. x \in t BY <1>2, PickIn
  <2>2. SumFunctionOnSet(f, t) = f[x] + SumFunctionOnSet(f, t \ {x}) BY <1>2, FS_Subset, SumPick
  <2>3. SumFunctionOnSet(f, t \ {x}) \in Int /\ f[x] \in Int BY <1>2, <2>1
  <2> HIDE DEF x
  <2>4. SumFunctionOnSet(f, t) \in Int BY <2>2, <2>3
  <2> QED BY <2>4
<1> HIDE DEF Q
<1>3. S \in Q BY <1>1, <1>2, SubsetInduction
<1> QED BY <1>3 DEF Q

(* Any element may be taken out of a sum. *)
LEMMA SumRemove ==
  ASSUME NEW f, NEW S, IsFiniteSet(S), \A i \in S : f[i] \in Int, NEW y \in S
  PROVE  SumFunctionOnSet(f, S) = f[y] + SumFunctionOnSet(f, S \ {y})
<1> DEFINE F(t) == SumFunctionOnSet(f, t)
           Q == {t \in SUBSET S : \A z \in t : F(t) = f[z] + F(t \ {z})}
<1>1. {} \in Q OBVIOUS
<1>2. ASSUME NEW t \in SUBSET S, t # {}, \A x \in t : t \ {x} \in Q PROVE t \in Q
  <2> SUFFICES ASSUME NEW z \in t PROVE F(t) = f[z] + F(t \ {z}) OBVIOUS
  <2> DEFINE x == Pick(t)
             r == (t \ {z}) \ {x}
  <2>1. x \in t BY <1>2, PickIn
  <2>2. F(t) = f[x] + F(t \ {x}) BY <1>2, FS_Subset, SumPick
  <2> HIDE DEF x
  <2>3. CASE z = x BY <2>2, <2>3
  <2>4. CASE z # x
    <3>1. z \in t \ {x} /\ x \in t \ {z} BY <2>1, <2>4
    <3>2. F(t \ {x}) = f[z] + F((t \ {x}) \ {z}) BY <1>2, <2>1, <3>1
    <3>3. F(t \ {z}) = f[x] + F(r) BY <1>2, <3>1
    <3>4. (t \ {x}) \ {z} = r OBVIOUS
    <3>5. F(r) \in Int BY FS_Subset, SumInt
    <3>6. f[x] \in Int /\ f[z] \in Int BY <2>1
    <3> HIDE DEF F, r
    <3>7. F(t) = f[x] + (f[z] + F(r)) BY <2>2, <3>2, <3>4
    <3>8. f[z] + F(t \ {z}) = f[z] + (f[x] + F(r)) BY <3>3
    <3> QED BY <3>5, <3>6, <3>7, <3>8
  <2> QED BY <2>3, <2>4
<1> HIDE DEF Q
<1>3. S \in Q BY <1>1, <1>2, SubsetInduction
<1> QED BY <1>3 DEF Q

(* Equal numbers have equal sums. *)
LEMMA SumEqual ==
  ASSUME NEW f, NEW g, NEW S, IsFiniteSet(S), \A i \in S : f[i] = g[i]
  PROVE  SumFunctionOnSet(f, S) = SumFunctionOnSet(g, S)
<1> DEFINE F(t) == SumFunctionOnSet(f, t)
           G(t) == SumFunctionOnSet(g, t)
           Q == {t \in SUBSET S : F(t) = G(t)}
<1>1. {} \in Q BY SumEmpty
<1>2. ASSUME NEW t \in SUBSET S, t # {}, \A x \in t : t \ {x} \in Q PROVE t \in Q
  <2> DEFINE x == Pick(t)
  <2>1. x \in t BY <1>2, PickIn
  <2>2. F(t) = f[x] + F(t \ {x}) /\ G(t) = g[x] + G(t \ {x}) BY <1>2, FS_Subset, SumPick
  <2> HIDE DEF x, F, G
  <2>3. F(t) = G(t) BY <1>2, <2>1, <2>2
  <2> QED BY <2>3
<1> HIDE DEF Q
<1>3. S \in Q BY <1>1, <1>2, SubsetInduction
<1> QED BY <1>3 DEF Q

(* Sums are linear. *)
Combined(h, f, g, a, b, S) ==
  /\ IsFiniteSet(S) /\ a \in Int /\ b \in Int
  /\ \A i \in S : f[i] \in Int /\ g[i] \in Int /\ h[i] = a * f[i] + b * g[i]

LEMMA SumLinear ==
  ASSUME NEW f, NEW g, NEW h, NEW S, NEW a, NEW b, Combined(h, f, g, a, b, S)
  PROVE  SumFunctionOnSet(h, S) = a * SumFunctionOnSet(f, S) + b * SumFunctionOnSet(g, S)
<1> DEFINE F(t) == SumFunctionOnSet(f, t)
           G(t) == SumFunctionOnSet(g, t)
           H(t) == SumFunctionOnSet(h, t)
           Q == {t \in SUBSET S : H(t) = a * F(t) + b * G(t)}
<1>1. /\ IsFiniteSet(S) /\ a \in Int /\ b \in Int
      /\ \A i \in S : f[i] \in Int /\ g[i] \in Int /\ h[i] = a * f[i] + b * g[i]
  BY DEF Combined
<1>2. {} \in Q BY <1>1, SumEmpty
<1>3. ASSUME NEW t \in SUBSET S, t # {}, \A x \in t : t \ {x} \in Q PROVE t \in Q
  <2> DEFINE x == Pick(t)
             r == t \ {x}
  <2>1. x \in t BY <1>3, PickIn
  <2>2. F(t) = f[x] + F(r) /\ G(t) = g[x] + G(r) /\ H(t) = h[x] + H(r)
    BY <1>1, <1>3, FS_Subset, SumPick
  <2>3. F(r) \in Int /\ G(r) \in Int BY <1>1, FS_Subset, SumInt
  <2>4. H(r) = a * F(r) + b * G(r) BY <1>3, <2>1
  <2>5. f[x] \in Int /\ g[x] \in Int /\ h[x] = a * f[x] + b * g[x] BY <1>1, <2>1
  <2> HIDE DEF x, r, F, G, H
  <2>6. H(t) = a * F(t) + b * G(t) BY <1>1, <2>2, <2>3, <2>4, <2>5
  <2> QED BY <2>6
<1> HIDE DEF Q
<1>4. S \in Q BY <1>1, <1>2, <1>3, SubsetInduction
<1> QED BY <1>4 DEF Q

(* The sum of equal numbers. *)
LEMMA SumConstant ==
  ASSUME NEW f, NEW S, IsFiniteSet(S), NEW v \in Int, \A i \in S : f[i] = v
  PROVE  SumFunctionOnSet(f, S) = Cardinality(S) * v
<1> DEFINE F(t) == SumFunctionOnSet(f, t)
           Q == {t \in SUBSET S : F(t) = Cardinality(t) * v}
<1>1. {} \in Q BY SumEmpty, FS_EmptySet
<1>2. ASSUME NEW t \in SUBSET S, t # {}, \A x \in t : t \ {x} \in Q PROVE t \in Q
  <2> DEFINE x == Pick(t)
             r == t \ {x}
  <2>1. x \in t BY <1>2, PickIn
  <2>2. F(t) = f[x] + F(r) BY <1>2, FS_Subset, SumPick
  <2>3. IsFiniteSet(t) /\ Cardinality(t) \in Nat /\ Cardinality(r) = Cardinality(t) - 1
    BY <2>1, FS_Subset, FS_RemoveElement, FS_CardinalityType
  <2>4. F(r) = Cardinality(r) * v /\ f[x] = v BY <1>2, <2>1
  <2> HIDE DEF x, r, F
  <2>5. F(t) = Cardinality(t) * v BY <2>2, <2>3, <2>4
  <2> QED BY <2>5
<1> HIDE DEF Q
<1>3. S \in Q BY <1>1, <1>2, SubsetInduction
<1> QED BY <1>3 DEF Q

(* A sum of numbers that are not negative is one, and zero only if all are.  *)
LEMMA SumNat ==
  ASSUME NEW f, NEW S, IsFiniteSet(S), \A i \in S : f[i] \in Nat
  PROVE  /\ SumFunctionOnSet(f, S) \in Nat
         /\ SumFunctionOnSet(f, S) = 0 <=> \A i \in S : f[i] = 0
<1> DEFINE F(t) == SumFunctionOnSet(f, t)
           Q == {t \in SUBSET S : F(t) \in Nat /\ (F(t) = 0 <=> \A i \in t : f[i] = 0)}
<1>1. {} \in Q BY SumEmpty
<1>2. ASSUME NEW t \in SUBSET S, t # {}, \A x \in t : t \ {x} \in Q PROVE t \in Q
  <2> DEFINE x == Pick(t)
             r == t \ {x}
  <2>1. x \in t BY <1>2, PickIn
  <2>2. F(t) = f[x] + F(r) BY <1>2, FS_Subset, SumPick
  <2>3. F(r) \in Nat /\ (F(r) = 0 <=> \A i \in r : f[i] = 0) /\ f[x] \in Nat BY <1>2, <2>1
  <2>4. (\A i \in t : f[i] = 0) <=> f[x] = 0 /\ \A i \in r : f[i] = 0 BY <2>1
  <2> HIDE DEF x, r, F
  <2>5. F(t) \in Nat /\ (F(t) = 0 <=> f[x] = 0 /\ F(r) = 0) BY <2>2, <2>3
  <2> QED BY <2>3, <2>4, <2>5
<1> HIDE DEF Q
<1>3. S \in Q BY <1>1, <1>2, SubsetInduction
<1> QED BY <1>3 DEF Q

(* A sum does not depend on the names of its places. *)
Renamed(f, S, g, T, b) == /\ b \in Bijection(S, T)
                          /\ \A i \in S : f[i] = g[b[i]]
                          /\ \A i \in S : f[i] \in Int

LEMMA SumRenamed ==
  ASSUME NEW f, NEW g, NEW S, NEW T, IsFiniteSet(S), NEW b, Renamed(f, S, g, T, b)
  PROVE  SumFunctionOnSet(f, S) = SumFunctionOnSet(g, T)
<1> DEFINE F(t) == SumFunctionOnSet(f, t)
           Im(t) == {b[i] : i \in t}
           G(t) == SumFunctionOnSet(g, t)
           Q == {t \in SUBSET S : F(t) = G(Im(t))}
<1>1. /\ \A i \in S : b[i] \in T
      /\ \A i, j \in S : b[i] = b[j] => i = j
      /\ \A y \in T : \E i \in S : b[i] = y
      /\ \A i \in S : f[i] = g[b[i]]
      /\ \A i \in S : f[i] \in Int
  BY DEF Renamed, Bijection, Injection, Surjection, IsInjective
<1>2. {} \in Q BY SumEmpty
<1>3. ASSUME NEW t \in SUBSET S, t # {}, \A x \in t : t \ {x} \in Q PROVE t \in Q
  <2> DEFINE x == Pick(t)
             r == t \ {x}
             y == b[x]
  <2>1. x \in t BY <1>3, PickIn
  <2>2. F(t) = f[x] + F(r) BY <1>3, FS_Subset, SumPick
  <2>3. IsFiniteSet(Im(t))
    <3> DEFINE c == [i \in t |-> b[i]]
    <3>1. c \in Surjection(t, Im(t)) BY DEF Surjection
    <3>2. IsFiniteSet(t) BY FS_Subset
    <3> QED BY <3>1, <3>2, FS_Surjection
  <2>4. y \in Im(t) /\ Im(r) = Im(t) \ {y} BY <1>1, <2>1
  <2>5. \A z \in Im(t) : g[z] \in Int BY <1>1
  <2>6. G(Im(t)) = g[y] + G(Im(t) \ {y}) BY <2>3, <2>4, <2>5, SumRemove
  <2>7. F(r) = G(Im(r)) /\ f[x] = g[y] BY <1>1, <1>3, <2>1
  <2> HIDE DEF x, r, y, F, G, Im
  <2>8. F(t) = G(Im(t)) BY <2>2, <2>4, <2>6, <2>7
  <2> QED BY <2>8
<1>4. Im(S) = T BY <1>1
<1> HIDE DEF Q
<1>5. S \in Q BY <1>2, <1>3, SubsetInduction
<1> QED BY <1>4, <1>5 DEF Q

-----------------------------------------------------------------------------
(* 2. Twins. *)

(* A slice of n numbers. *)
Slice(f, n) == f = [k \in 1..n |-> f[k]]

(* The four slices of a network. *)
Shape(m) == /\ Slice(m.W1, InputDim * HiddenDim) /\ Slice(m.B1, HiddenDim)
            /\ Slice(m.W2, HiddenDim * OutputDim) /\ Slice(m.B2, OutputDim)

(* Twins, in the four slices. *)
TwinUnits(m, i, j) ==
  /\ m.B1[i] = m.B1[j]
  /\ \A k \in 1..InputDim : m.W1[At(k, i, HiddenDim)] = m.W1[At(k, j, HiddenDim)]
  /\ \A k \in 1..OutputDim : m.W2[At(i, k, OutputDim)] = m.W2[At(j, k, OutputDim)]

(* The twins of the global weights are twins in every model update. *)
UpdatesKeepTwins ==
  \A i, j \in 1..HiddenDim : Twins(global, i, j) =>
    \A k \in 1..Len(updates) : Twins(updates[k].weights, i, j)

Types ==
  /\ global \in Globals
  /\ data \in [Clients -> DataSets]
  /\ \A c \in Clients : Shape(mlp[c])
  /\ DOMAIN mlp = Clients
  /\ step \in [Clients -> Int]
  /\ Len(updates) \in Nat /\ Slice(updates, Len(updates))
  /\ \A k \in 1..Len(updates) : Slice(updates[k].weights, NumWeights)

Inv == Types /\ UpdatesKeepTwins /\ TwinsStayTwins

-----------------------------------------------------------------------------
LEMMA Sizes ==
  /\ InputDim \in Nat \ {0} /\ HiddenDim \in Nat \ {0} /\ OutputDim \in Nat \ {0}
  /\ InputDim * HiddenDim \in Nat /\ HiddenDim * OutputDim \in Nat
  /\ NumWeights \in Nat
  /\ NumWeights = InputDim * HiddenDim + HiddenDim + HiddenDim * OutputDim + OutputDim
  BY LearningAssumption DEF NumWeights

(* Place (k, i) of a matrix with r rows of n numbers each, and back. *)
LEMMA Matrix ==
  ASSUME NEW r \in Nat, NEW n \in Nat \ {0}, NEW k \in 1..r, NEW i \in 1..n
  PROVE  At(k, i, n) \in 1..r * n /\ Row(At(k, i, n), n) = k /\ Col(At(k, i, n), n) = i
<1> DEFINE a == (k - 1) * n
<1>1. a \in Nat /\ a + n = k * n BY SMT
<1>2. k * n <= r * n /\ r * n \in Nat BY SMT
<1>3. At(k, i, n) = a + i /\ At(k, i, n) \in 1..r * n BY <1>1, <1>2 DEF At
<1>4. (a + (i - 1)) \div n = k - 1 /\ (a + (i - 1)) % n = i - 1 BY SMT
<1> QED BY <1>1, <1>3, <1>4 DEF Row, Col, At

LEMMA SliceIs ==
  ASSUME NEW n \in Nat, NEW f, Slice(f, n)
  PROVE  f \in Seq(Range(f)) /\ Len(f) = n /\ DOMAIN f = 1..n
<1>1. DOMAIN f = 1..n BY DEF Slice
<1>2. \A k \in 1..n : f[k] \in Range(f) BY <1>1 DEF Range
<1>3. f \in [1..n -> Range(f)] BY <1>2 DEF Slice
<1> QED BY <1>1, <1>3

(* One slice after the other. *)
Joined(w, a, b, na, nb) ==
  /\ Slice(w, na + nb)
  /\ \A k \in 1..na : w[k] = a[k]
  /\ \A k \in 1..nb : w[na + k] = b[k]

LEMMA Join ==
  ASSUME NEW na \in Nat, NEW nb \in Nat, NEW a, NEW b, Slice(a, na), Slice(b, nb)
  PROVE  Joined(a \o b, a, b, na, nb)
<1> DEFINE S == Range(a) \cup Range(b)
           w == a \o b
<1>1. a \in Seq(Range(a)) /\ Len(a) = na /\ b \in Seq(Range(b)) /\ Len(b) = nb BY SliceIs
<1>2. a \in Seq(S) /\ b \in Seq(S) BY <1>1
<1> HIDE DEF S
<1>3. w \in Seq(S) BY <1>2
<1>4. Len(w) = na + nb BY <1>1, <1>2
<1>5. \A k \in 1..na : w[k] = a[k] BY <1>1, <1>2
<1>6. \A k \in 1..nb : w[na + k] = b[k] BY <1>1, <1>2
<1>7. Slice(w, na + nb)
  <2> HIDE DEF w
  <2>1. w \in [1..na + nb -> S] BY <1>3, <1>4
  <2> QED BY <2>1 DEF Slice
<1> HIDE DEF w
<1>8. Joined(w, a, b, na, nb) BY <1>5, <1>6, <1>7 DEF Joined
<1> QED BY <1>8 DEF w

(* The flat vector is the four slices one after the other. *)
LEMMA WeightsAre ==
  ASSUME NEW m, Shape(m)
  PROVE  LET w  == Weights(m)
             n1 == InputDim * HiddenDim
             n2 == n1 + HiddenDim
             n3 == n2 + HiddenDim * OutputDim
         IN  /\ Slice(w, NumWeights)
             /\ \A k \in 1..n1 : w[k] = m.W1[k]
             /\ \A k \in 1..HiddenDim : w[n1 + k] = m.B1[k]
             /\ \A k \in 1..HiddenDim * OutputDim : w[n2 + k] = m.W2[k]
             /\ \A k \in 1..OutputDim : w[n3 + k] = m.B2[k]
<1> DEFINE a == m.W1
           b == m.B1
           x == m.W2
           y == m.B2
           na == InputDim * HiddenDim
           nb == HiddenDim
           nx == HiddenDim * OutputDim
           ny == OutputDim
<1>1. na \in Nat /\ nb \in Nat /\ nx \in Nat /\ ny \in Nat /\ NumWeights = na + nb + nx + ny
  BY Sizes
<1>2. Slice(a, na) /\ Slice(b, nb) /\ Slice(x, nx) /\ Slice(y, ny) BY DEF Shape
<1>3. Weights(m) = ((a \o b) \o x) \o y BY DEF Weights
<1> HIDE DEF a, b, x, y, na, nb, nx, ny
<1>4. na + nb \in Nat /\ na + nb + nx \in Nat BY <1>1
<1> DEFINE ab == a \o b
           abx == ab \o x
           w == abx \o y
<1>5. Joined(ab, a, b, na, nb) BY <1>1, <1>2, Join
<1> HIDE DEF ab
<1>51. Slice(ab, na + nb) BY <1>5 DEF Joined
<1>6. Joined(abx, ab, x, na + nb, nx) BY <1>1, <1>2, <1>4, <1>51, Join
<1> HIDE DEF abx
<1>61. Slice(abx, na + nb + nx) BY <1>6 DEF Joined
<1>7. Joined(w, abx, y, na + nb + nx, ny) BY <1>1, <1>2, <1>4, <1>61, Join
<1>8. w = Weights(m) BY <1>3 DEF ab, abx
<1> HIDE DEF w
<1>9. Slice(w, NumWeights) BY <1>1, <1>7 DEF Joined
<1>10. \A k \in 1..na : w[k] = a[k] BY <1>1, <1>5, <1>6, <1>7 DEF Joined
<1>11. \A k \in 1..nb : w[na + k] = b[k] BY <1>1, <1>5, <1>6, <1>7 DEF Joined
<1>12. \A k \in 1..nx : w[na + nb + k] = x[k] BY <1>1, <1>6, <1>7 DEF Joined
<1>13. \A k \in 1..ny : w[na + nb + nx + k] = y[k] BY <1>7 DEF Joined
<1> QED BY <1>8, <1>9, <1>10, <1>11, <1>12, <1>13 DEF a, b, x, y, na, nb, nx, ny

(* Two vectors are equal if their four blocks are. *)
LEMMA Blocks ==
  ASSUME NEW v, NEW w, Slice(v, NumWeights), Slice(w, NumWeights),
         \A k \in 1..InputDim * HiddenDim : v[k] = w[k],
         \A k \in 1..HiddenDim :
           v[InputDim * HiddenDim + k] = w[InputDim * HiddenDim + k],
         \A k \in 1..HiddenDim * OutputDim :
           v[InputDim * HiddenDim + HiddenDim + k] = w[InputDim * HiddenDim + HiddenDim + k],
         \A k \in 1..OutputDim :
           v[InputDim * HiddenDim + HiddenDim + HiddenDim * OutputDim + k]
             = w[InputDim * HiddenDim + HiddenDim + HiddenDim * OutputDim + k]
  PROVE  v = w
<1> DEFINE na == InputDim * HiddenDim
           nb == HiddenDim
           nx == HiddenDim * OutputDim
           ny == OutputDim
<1>1. na \in Nat /\ nb \in Nat /\ nx \in Nat /\ ny \in Nat /\ NumWeights = na + nb + nx + ny
  BY Sizes
<1>2. /\ \A k \in 1..na : v[k] = w[k]
      /\ \A k \in 1..nb : v[na + k] = w[na + k]
      /\ \A k \in 1..nx : v[na + nb + k] = w[na + nb + k]
      /\ \A k \in 1..ny : v[na + nb + nx + k] = w[na + nb + nx + k]
  OBVIOUS
<1> HIDE DEF na, nb, nx, ny
<1>3. ASSUME NEW k \in 1..NumWeights PROVE v[k] = w[k]
  <2>1. CASE k <= na BY <1>1, <1>2, <2>1
  <2>2. CASE k > na /\ k <= na + nb
    <3>1. k - na \in 1..nb /\ na + (k - na) = k BY <1>1, <2>2
    <3> QED BY <1>2, <3>1
  <2>3. CASE k > na + nb /\ k <= na + nb + nx
    <3>1. k - (na + nb) \in 1..nx /\ na + nb + (k - (na + nb)) = k BY <1>1, <2>3
    <3> QED BY <1>2, <3>1
  <2>4. CASE k > na + nb + nx
    <3>1. k - (na + nb + nx) \in 1..ny /\ na + nb + nx + (k - (na + nb + nx)) = k BY <1>1, <2>4
    <3> QED BY <1>2, <3>1
  <2> QED BY <1>1, <2>1, <2>2, <2>3, <2>4
<1>4. v = [k \in 1..NumWeights |-> v[k]] /\ w = [k \in 1..NumWeights |-> w[k]] BY DEF Slice
<1> QED BY <1>3, <1>4

(* Theorem: a network that takes over a flat vector has exactly its numbers, *)
(* whatever it had before: SetWeights and Weights cut the vector at the same *)
(* places (mlp.go:135-178), for a network of any size.                       *)
THEOREM SetWeightsExact ==
  ASSUME NEW m, Shape(m), NEW w, Slice(w, NumWeights)
  PROVE  Shape(SetWeights(m, w)) /\ Weights(SetWeights(m, w)) = w
<1> DEFINE na == InputDim * HiddenDim
           nb == HiddenDim
           nx == HiddenDim * OutputDim
           ny == OutputDim
           n == SetWeights(m, w)
<1>1. na \in Nat /\ nb \in Nat /\ nx \in Nat /\ ny \in Nat /\ NumWeights = na + nb + nx + ny
  BY Sizes
<1>2. Len(m.W1) = na /\ Len(m.B1) = nb /\ Len(m.W2) = nx /\ Len(m.B2) = ny
  BY <1>1, SliceIs DEF Shape
<1>3. Len(w) = na + nb + nx + ny BY <1>1, SliceIs
<1>4. n = [W1 |-> Copy(m.W1, w, 0), B1 |-> Copy(m.B1, w, na),
           W2 |-> Copy(m.W2, w, na + nb), B2 |-> Copy(m.B2, w, na + nb + nx)]
  BY <1>2 DEF SetWeights
<1> HIDE DEF na, nb, nx, ny, n
<1>5. n.W1 = [k \in 1..na |-> w[k]] BY <1>1, <1>2, <1>3, <1>4 DEF Copy
<1>6. n.B1 = [k \in 1..nb |-> w[na + k]] BY <1>1, <1>2, <1>3, <1>4 DEF Copy
<1>7. n.W2 = [k \in 1..nx |-> w[na + nb + k]] BY <1>1, <1>2, <1>3, <1>4 DEF Copy
<1>8. n.B2 = [k \in 1..ny |-> w[na + nb + nx + k]] BY <1>1, <1>2, <1>3, <1>4 DEF Copy
<1>9. Shape(n)
  <2>1. Slice(n.W1, na) /\ Slice(n.B1, nb) /\ Slice(n.W2, nx) /\ Slice(n.B2, ny)
    BY <1>5, <1>6, <1>7, <1>8 DEF Slice
  <2> QED BY <2>1 DEF Shape, na, nb, nx, ny
<1>10. Weights(n) = w
  <2> DEFINE v == Weights(n)
  <2>1. /\ Slice(v, NumWeights)
        /\ \A k \in 1..na : v[k] = n.W1[k]
        /\ \A k \in 1..nb : v[na + k] = n.B1[k]
        /\ \A k \in 1..nx : v[na + nb + k] = n.W2[k]
        /\ \A k \in 1..ny : v[na + nb + nx + k] = n.B2[k]
    BY <1>9, WeightsAre DEF na, nb, nx, ny
  <2> HIDE DEF v
  <2>2. /\ \A k \in 1..na : v[k] = w[k]
        /\ \A k \in 1..nb : v[na + k] = w[na + k]
        /\ \A k \in 1..nx : v[na + nb + k] = w[na + nb + k]
        /\ \A k \in 1..ny : v[na + nb + nx + k] = w[na + nb + nx + k]
    BY <1>5, <1>6, <1>7, <1>8, <2>1
  <2>3. v = w BY <2>1, <2>2, Blocks DEF na, nb, nx, ny
  <2> QED BY <2>3 DEF v
<1> QED BY <1>9, <1>10 DEF n

LEMMA TwinsAre ==
  ASSUME NEW m, Shape(m), NEW i \in 1..HiddenDim, NEW j \in 1..HiddenDim
  PROVE  Twins(Weights(m), i, j) <=> TwinUnits(m, i, j)
<1> DEFINE w == Weights(m)
           na == InputDim * HiddenDim
           nb == HiddenDim
           nx == HiddenDim * OutputDim
<1>1. /\ \A k \in 1..na : w[k] = m.W1[k]
      /\ \A k \in 1..nb : w[na + k] = m.B1[k]
      /\ \A k \in 1..nx : w[na + nb + k] = m.W2[k]
  BY WeightsAre
<1>2. \A k \in 1..InputDim : At(k, i, HiddenDim) \in 1..na /\ At(k, j, HiddenDim) \in 1..na
  BY Sizes, Matrix
<1>3. \A k \in 1..OutputDim : At(i, k, OutputDim) \in 1..nx /\ At(j, k, OutputDim) \in 1..nx
  BY Sizes, Matrix
<1>4. Twins(w, i, j) <=>
        /\ w[na + i] = w[na + j]
        /\ \A k \in 1..InputDim : w[At(k, i, HiddenDim)] = w[At(k, j, HiddenDim)]
        /\ \A k \in 1..OutputDim :
             w[na + nb + At(i, k, OutputDim)] = w[na + nb + At(j, k, OutputDim)]
  BY DEF Twins
<1> HIDE DEF w, na, nx
<1> QED BY <1>1, <1>2, <1>3, <1>4 DEF TwinUnits, w

-----------------------------------------------------------------------------
(* Backpropagation, with names for its parts. *)
In(m, x, q) == [r \in 1..InputDim |-> x[r] * m.W1[At(r, q, HiddenDim)]]
Delta(m, x, t) == [q \in 1..OutputDim |-> 2 * (Predict(m, x)[q] - t[q])]
Back(m, d, q) == [r \in 1..OutputDim |-> d[r] * m.W2[At(q, r, OutputDim)]]
Blame(m, h, d) == [q \in 1..HiddenDim |-> IF h[q] > 0 THEN SumFunction(Back(m, d, q)) ELSE 0]

LEMMA TrainIs ==
  ASSUME NEW m, NEW x, NEW t
  PROVE  LET h == hidden(m, x)
             d == Delta(m, x, t)
             e == Blame(m, h, d)
         IN  Train(m, x, t) =
               [W1 |-> [k \in 1..InputDim * HiddenDim |->
                          m.W1[k] - Rate * e[Col(k, HiddenDim)] * x[Row(k, HiddenDim)]],
                B1 |-> [k \in 1..HiddenDim |-> m.B1[k] - Rate * e[k]],
                W2 |-> [k \in 1..HiddenDim * OutputDim |->
                          m.W2[k] - Rate * d[Col(k, OutputDim)] * h[Row(k, OutputDim)]],
                B2 |-> [k \in 1..OutputDim |-> m.B2[k] - Rate * d[k]]]
  BY DEF Train, Delta, Blame, Back

(* Twin units are active for the same samples, and equally. *)
LEMMA TwinsFire ==
  ASSUME NEW m, NEW x, NEW i \in 1..HiddenDim, NEW j \in 1..HiddenDim, TwinUnits(m, i, j)
  PROVE  hidden(m, x)[i] = hidden(m, x)[j]
<1>1. In(m, x, i) = In(m, x, j) BY DEF In, TwinUnits
<1>2. \A q \in 1..HiddenDim : hidden(m, x)[q] = relu(SumFunction(In(m, x, q)) + m.B1[q])
  BY DEF hidden, In
<1> QED BY <1>1, <1>2 DEF TwinUnits

(* Twin units get the same part of the error. *)
LEMMA TwinsLearn ==
  ASSUME NEW m, NEW h, NEW d, NEW i \in 1..HiddenDim, NEW j \in 1..HiddenDim,
         TwinUnits(m, i, j), h[i] = h[j]
  PROVE  Blame(m, h, d)[i] = Blame(m, h, d)[j]
<1>1. Back(m, d, i) = Back(m, d, j) BY DEF Back, TwinUnits
<1>2. \A q \in 1..HiddenDim :
        Blame(m, h, d)[q] = IF h[q] > 0 THEN SumFunction(Back(m, d, q)) ELSE 0
  BY DEF Blame
<1> QED BY <1>1, <1>2

(* One step of training keeps the slices, and the twins. *)
LEMMA TrainStep ==
  ASSUME NEW m, NEW x, NEW t
  PROVE  /\ Shape(Train(m, x, t))
         /\ \A i, j \in 1..HiddenDim : TwinUnits(m, i, j) => TwinUnits(Train(m, x, t), i, j)
<1> DEFINE n == Train(m, x, t)
           h == hidden(m, x)
           d == Delta(m, x, t)
           e == Blame(m, h, d)
<1>1. n = [W1 |-> [k \in 1..InputDim * HiddenDim |->
                     m.W1[k] - Rate * e[Col(k, HiddenDim)] * x[Row(k, HiddenDim)]],
           B1 |-> [k \in 1..HiddenDim |-> m.B1[k] - Rate * e[k]],
           W2 |-> [k \in 1..HiddenDim * OutputDim |->
                     m.W2[k] - Rate * d[Col(k, OutputDim)] * h[Row(k, OutputDim)]],
           B2 |-> [k \in 1..OutputDim |-> m.B2[k] - Rate * d[k]]]
  BY TrainIs
<1> HIDE DEF n
<1>2. Shape(n)
  <2>1. Slice(n.W1, InputDim * HiddenDim) BY <1>1 DEF Slice
  <2>2. Slice(n.B1, HiddenDim) BY <1>1 DEF Slice
  <2>3. Slice(n.W2, HiddenDim * OutputDim) BY <1>1 DEF Slice
  <2>4. Slice(n.B2, OutputDim) BY <1>1 DEF Slice
  <2> QED BY <2>1, <2>2, <2>3, <2>4 DEF Shape
<1>3. ASSUME NEW i \in 1..HiddenDim, NEW j \in 1..HiddenDim, TwinUnits(m, i, j)
      PROVE  TwinUnits(n, i, j)
  <2>1. h[i] = h[j] BY <1>3, TwinsFire
  <2> HIDE DEF h
  <2>2. e[i] = e[j] BY <1>3, <2>1, TwinsLearn
  <2> HIDE DEF d, e
  <2>3. n.B1[i] = n.B1[j] BY <1>1, <1>3, <2>2 DEF TwinUnits
  <2>4. ASSUME NEW k \in 1..InputDim
        PROVE  n.W1[At(k, i, HiddenDim)] = n.W1[At(k, j, HiddenDim)]
    <3> DEFINE a == At(k, i, HiddenDim)
               b == At(k, j, HiddenDim)
    <3>1. /\ a \in 1..InputDim * HiddenDim /\ b \in 1..InputDim * HiddenDim
          /\ Row(a, HiddenDim) = k /\ Row(b, HiddenDim) = k
          /\ Col(a, HiddenDim) = i /\ Col(b, HiddenDim) = j
      BY Sizes, Matrix
    <3>2. m.W1[a] = m.W1[b] BY <1>3 DEF TwinUnits
    <3> HIDE DEF a, b
    <3>3. n.W1[a] = m.W1[a] - Rate * e[i] * x[k] /\ n.W1[b] = m.W1[b] - Rate * e[j] * x[k]
      BY <1>1, <3>1
    <3>4. n.W1[a] = n.W1[b] BY <2>2, <3>2, <3>3
    <3> QED BY <3>4 DEF a, b
  <2>5. ASSUME NEW k \in 1..OutputDim
        PROVE  n.W2[At(i, k, OutputDim)] = n.W2[At(j, k, OutputDim)]
    <3> DEFINE a == At(i, k, OutputDim)
               b == At(j, k, OutputDim)
    <3>1. /\ a \in 1..HiddenDim * OutputDim /\ b \in 1..HiddenDim * OutputDim
          /\ Row(a, OutputDim) = i /\ Row(b, OutputDim) = j
          /\ Col(a, OutputDim) = k /\ Col(b, OutputDim) = k
      BY Sizes, Matrix
    <3>2. m.W2[a] = m.W2[b] BY <1>3 DEF TwinUnits
    <3> HIDE DEF a, b
    <3>3. n.W2[a] = m.W2[a] - Rate * d[k] * h[i] /\ n.W2[b] = m.W2[b] - Rate * d[k] * h[j]
      BY <1>1, <3>1
    <3>4. n.W2[a] = n.W2[b] BY <2>1, <3>2, <3>3
    <3> QED BY <3>4 DEF a, b
  <2> QED BY <2>3, <2>4, <2>5 DEF TwinUnits
<1> QED BY <1>2, <1>3 DEF n

-----------------------------------------------------------------------------
(* The average *)

(* Places of the flat vector that Twins compares. *)
LEMMA TwinPlaces ==
  ASSUME NEW i \in 1..HiddenDim
  PROVE  LET n1 == InputDim * HiddenDim
             n2 == n1 + HiddenDim
         IN  /\ n1 + i \in 1..NumWeights
             /\ \A k \in 1..InputDim : At(k, i, HiddenDim) \in 1..NumWeights
             /\ \A k \in 1..OutputDim : n2 + At(i, k, OutputDim) \in 1..NumWeights
<1> DEFINE na == InputDim * HiddenDim
           nx == HiddenDim * OutputDim
<1>1. /\ na \in Nat /\ nx \in Nat /\ HiddenDim \in Nat /\ OutputDim \in Nat
      /\ NumWeights = na + HiddenDim + nx + OutputDim
  BY Sizes
<1>2. \A k \in 1..InputDim : At(k, i, HiddenDim) \in 1..na BY Sizes, Matrix
<1>3. \A k \in 1..OutputDim : At(i, k, OutputDim) \in 1..nx BY Sizes, Matrix
<1> HIDE DEF na, nx
<1>4. na + i \in 1..NumWeights BY <1>1
<1>5. \A k \in 1..InputDim : At(k, i, HiddenDim) \in 1..NumWeights BY <1>1, <1>2
<1>6. \A k \in 1..OutputDim : na + HiddenDim + At(i, k, OutputDim) \in 1..NumWeights
  BY <1>1, <1>3
<1> QED BY <1>4, <1>5, <1>6 DEF na

(* Sums of the same numbers: places with the same number in every vector     *)
(* have the same number in the average.                                      *)
Column(cw, ns, a) == [c \in 1..Len(cw) |-> cw[c][a] * ns[c]]

LEMMA AverageTwins ==
  ASSUME NEW L \in Nat, NEW cw, NEW ns, Slice(cw, L),
         \A c \in 1..L : Slice(cw[c], NumWeights),
         NEW i \in 1..HiddenDim, NEW j \in 1..HiddenDim,
         \A c \in 1..L : Twins(cw[c], i, j),
         FedAvg(cw, ns) # Nil
  PROVE  Twins(FedAvg(cw, ns).num, i, j)
<1> DEFINE w == FedAvg(cw, ns).num
           na == InputDim * HiddenDim
           ma == na + HiddenDim
<1>1. Len(cw) = L /\ DOMAIN cw = 1..L BY SliceIs
<1>2. L # 0
  <2>1. cw # <<>> BY DEF FedAvg
  <2> QED BY <1>1, <2>1
<1>3. Len(cw[1]) = NumWeights BY <1>2, Sizes, SliceIs
<1>4. w = [a \in 1..NumWeights |-> SumFunction(Column(cw, ns, a))]
  BY <1>3 DEF FedAvg, Column
<1> HIDE DEF w
<1>5. ASSUME NEW a \in 1..NumWeights, NEW b \in 1..NumWeights,
             \A c \in 1..L : cw[c][a] = cw[c][b]
      PROVE  w[a] = w[b]
  <2>1. Column(cw, ns, a) = Column(cw, ns, b) BY <1>1, <1>5 DEF Column
  <2> QED BY <1>4, <2>1
<1>6. \A v : Twins(v, i, j) <=>
        /\ v[na + i] = v[na + j]
        /\ \A k \in 1..InputDim : v[At(k, i, HiddenDim)] = v[At(k, j, HiddenDim)]
        /\ \A k \in 1..OutputDim :
             v[ma + At(i, k, OutputDim)] = v[ma + At(j, k, OutputDim)]
  BY DEF Twins
<1>7. /\ na + i \in 1..NumWeights /\ na + j \in 1..NumWeights
      /\ \A k \in 1..InputDim : /\ At(k, i, HiddenDim) \in 1..NumWeights
                               /\ At(k, j, HiddenDim) \in 1..NumWeights
      /\ \A k \in 1..OutputDim : /\ ma + At(i, k, OutputDim) \in 1..NumWeights
                                /\ ma + At(j, k, OutputDim) \in 1..NumWeights
  BY TwinPlaces
<1> HIDE DEF na, ma
<1>8. w[na + i] = w[na + j] BY <1>5, <1>6, <1>7
<1>9. ASSUME NEW k \in 1..InputDim
      PROVE  w[At(k, i, HiddenDim)] = w[At(k, j, HiddenDim)]
  BY <1>5, <1>6, <1>7
<1>10. ASSUME NEW k \in 1..OutputDim
       PROVE  w[ma + At(i, k, OutputDim)] = w[ma + At(j, k, OutputDim)]
  BY <1>5, <1>6, <1>7
<1> QED BY <1>6, <1>8, <1>9, <1>10 DEF w

-----------------------------------------------------------------------------
(* The steps *)

LEMMA NewMLPShape ==
  ASSUME NEW w \in RandomWeights PROVE Shape(NewMLP(w))
<1> DEFINE na == InputDim * HiddenDim
           nx == HiddenDim * OutputDim
<1>1. /\ na \in Nat /\ nx \in Nat /\ HiddenDim \in Nat /\ OutputDim \in Nat
      /\ NumWeights \in Nat /\ na <= NumWeights /\ nx <= NumWeights
  BY Sizes
<1>2. w \in Seq(Int) /\ Len(w) = NumWeights BY <1>1, LearningAssumption
<1> HIDE DEF na, nx
<1>3. ASSUME NEW n \in Nat, n <= NumWeights PROVE Slice(SubSeq(w, 1, n), n)
  <2> DEFINE v == SubSeq(w, 1, n)
  <2>1. v \in Seq(Int) /\ Len(v) = n BY <1>1, <1>2, <1>3
  <2> HIDE DEF v
  <2>2. v \in [1..n -> Int] BY <2>1
  <2>3. Slice(v, n) BY <2>2 DEF Slice
  <2> QED BY <2>3 DEF v
<1>4. \A n \in Nat : Slice(Zeros(n), n) BY DEF Zeros, Slice
<1>5. Slice(SubSeq(w, 1, na), na) /\ Slice(SubSeq(w, 1, nx), nx) BY <1>1, <1>3
<1> QED BY <1>1, <1>4, <1>5 DEF NewMLP, Shape, na, nx

LEMMA InitInv == Init => Inv
<1> SUFFICES ASSUME Init PROVE Inv OBVIOUS
<1>1. PICK w \in [Clients -> RandomWeights] : mlp = [c \in Clients |-> NewMLP(w[c])] BY DEF Init
<1>2. \A c \in Clients : Shape(mlp[c]) /\ step[c] = -1 BY <1>1, NewMLPShape DEF Init
<1>3. updates = <<>> /\ Len(updates) = 0 /\ average = Nil BY DEF Init
<1>4. Slice(updates, 0) BY <1>3 DEF Slice
<1>5. Types BY <1>1, <1>2, <1>3, <1>4 DEF Init, Types
<1>6. UpdatesKeepTwins BY <1>3 DEF UpdatesKeepTwins
<1>7. TwinsStayTwins BY <1>2, <1>3 DEF TwinsStayTwins
<1> QED BY <1>5, <1>6, <1>7 DEF Inv

(* A sensor whose network has the twins of the global weights. *)
Alike(m) == \A i, j \in 1..HiddenDim : Twins(global, i, j) => Twins(Weights(m), i, j)

(* Only the network of c changes: it keeps its shape and has the twins. *)
LEMMA SensorStep ==
  ASSUME Inv, NEW c \in Clients, NEW n, Shape(n), Alike(n), NEW k \in Int,
         mlp' = [mlp EXCEPT ![c] = n], step' = [step EXCEPT ![c] = k],
         UNCHANGED <<global, data, updates, average>>
  PROVE  Inv'
<1>1. \A e \in Clients : /\ mlp'[e] = IF e = c THEN n ELSE mlp[e]
                         /\ step'[e] = IF e = c THEN k ELSE step[e]
  BY DEF Inv, Types
<1>2. Types' BY <1>1 DEF Inv, Types
<1>3. UpdatesKeepTwins' BY DEF Inv, UpdatesKeepTwins
<1>4. TwinsStayTwins'
  <2> SUFFICES ASSUME NEW i \in 1..HiddenDim, NEW j \in 1..HiddenDim, Twins(global, i, j)
               PROVE  /\ \A e \in Clients : step'[e] >= 0 => Twins(Weights(mlp'[e]), i, j)
                      /\ average # Nil => Twins(average.num, i, j)
    BY DEF TwinsStayTwins
  <2>1. /\ \A e \in Clients : step[e] >= 0 => Twins(Weights(mlp[e]), i, j)
        /\ average # Nil => Twins(average.num, i, j)
    BY DEF Inv, TwinsStayTwins
  <2>2. Twins(Weights(n), i, j) BY DEF Alike
  <2> QED BY <1>1, <2>1, <2>2
<1> QED BY <1>2, <1>3, <1>4 DEF Inv

LEMMA StartTrainingInv ==
  ASSUME Inv, NEW c \in Clients, StartTraining(c) PROVE Inv'
<1> DEFINE n == SetWeights(mlp[c], global)
           k == 0
<1>1. Slice(global, NumWeights) BY LearningAssumption DEF Inv, Types, Slice
<1>2. Shape(n) /\ Weights(n) = global BY <1>1, SetWeightsExact DEF Inv, Types
<1>3. Alike(n) BY <1>2 DEF Alike
<1>4. mlp' = [mlp EXCEPT ![c] = n] /\ step' = [step EXCEPT ![c] = k] /\ k \in Int
  BY DEF StartTraining, Inv, Types
<1>5. UNCHANGED <<global, data, updates, average>> BY DEF StartTraining
<1> HIDE DEF n, k
<1> QED BY <1>2, <1>3, <1>4, <1>5, SensorStep

LEMMA TrainSampleInv ==
  ASSUME Inv, NEW c \in Clients, TrainSample(c) PROVE Inv'
<1> DEFINE s == data[c][(step[c] % Len(data[c])) + 1]
           n == Train(mlp[c], s.features, s.target)
           k == step[c] + 1
<1>1. step[c] \in Int /\ step[c] >= 0 /\ Shape(mlp[c]) BY DEF Inv, Types, TrainSample
<1>2. mlp' = [mlp EXCEPT ![c] = n] /\ step' = [step EXCEPT ![c] = k]
  BY DEF TrainSample, Inv, Types
<1>3. UNCHANGED <<global, data, updates, average>> BY DEF TrainSample
<1>4. /\ Shape(n)
      /\ \A i, j \in 1..HiddenDim : TwinUnits(mlp[c], i, j) => TwinUnits(n, i, j)
  BY TrainStep
<1> HIDE DEF n
<1>5. Alike(n)
  <2> SUFFICES ASSUME NEW i \in 1..HiddenDim, NEW j \in 1..HiddenDim, Twins(global, i, j)
               PROVE  Twins(Weights(n), i, j)
    BY DEF Alike
  <2>1. Twins(Weights(mlp[c]), i, j) BY <1>1 DEF Inv, TwinsStayTwins
  <2>2. TwinUnits(mlp[c], i, j) BY <1>1, <2>1, TwinsAre
  <2>3. TwinUnits(n, i, j) BY <1>4, <2>2
  <2> QED BY <1>4, <2>3, TwinsAre
<1>6. k \in Int BY <1>1
<1> HIDE DEF k
<1> QED BY <1>2, <1>3, <1>4, <1>5, <1>6, SensorStep

(* A slice with one element more. *)
Appended(w, q, e, n) ==
  /\ Len(w) = n + 1 /\ Slice(w, n + 1)
  /\ \A k \in 1..n : w[k] = q[k]
  /\ w[n + 1] = e

LEMMA AppendSlice ==
  ASSUME NEW n \in Nat, NEW q, Slice(q, n), NEW e
  PROVE  Appended(Append(q, e), q, e, n)
<1> DEFINE S == Range(q) \cup {e}
           w == Append(q, e)
<1>1. q \in Seq(Range(q)) /\ Len(q) = n BY SliceIs
<1>2. q \in Seq(S) /\ e \in S BY <1>1
<1> HIDE DEF S
<1>3. w \in Seq(S) /\ Len(w) = n + 1 BY <1>1, <1>2, AppendProperties
<1>4. \A k \in 1..n : w[k] = q[k] BY <1>1, <1>2, AppendProperties
<1>5. w[n + 1] = e BY <1>1, <1>2, AppendProperties
<1> HIDE DEF w
<1>6. w \in [1..n + 1 -> S] BY <1>3
<1>7. Slice(w, n + 1) BY <1>6 DEF Slice
<1>8. Appended(w, q, e, n) BY <1>3, <1>4, <1>5, <1>7 DEF Appended
<1> QED BY <1>8 DEF w

LEMMA ModelUpdateInv ==
  ASSUME Inv, NEW c \in Clients, ModelUpdate(c) PROVE Inv'
<1> DEFINE e == [sensor |-> c, weights |-> Weights(mlp[c]), numSamples |-> Len(data[c]),
                 loss |-> ComputeLoss(mlp[c], data[c])]
           n == Len(updates)
<1>1. updates' = Append(updates, e) /\ UNCHANGED <<global, data, mlp, step, average>>
  BY DEF ModelUpdate
<1>2. n \in Nat /\ Slice(updates, n) /\ Shape(mlp[c]) BY DEF Inv, Types
<1>3. step[c] >= 0
  <2>1. data[c] \in DataSets BY DEF Inv, Types
  <2>2. data[c] \in Seq(Samples) BY <2>1, LearningAssumption
  <2>3. Len(data[c]) \in Nat /\ Epochs \in Nat BY <2>2, LearningAssumption
  <2>4. Epochs * Len(data[c]) \in Nat BY <2>3
  <2> QED BY <2>4 DEF ModelUpdate
<1>4. e.weights = Weights(mlp[c]) OBVIOUS
<1> HIDE DEF e, n
<1>5. Appended(updates', updates, e, n) BY <1>1, <1>2, AppendSlice
<1>6. /\ Len(updates') = n + 1 /\ Slice(updates', n + 1)
      /\ \A k \in 1..n + 1 : updates'[k] = e \/ (k \in 1..n /\ updates'[k] = updates[k])
  BY <1>2, <1>5 DEF Appended
<1>7. Slice(e.weights, NumWeights) BY <1>2, <1>4, WeightsAre
<1>8. Types'
  <2>1. Len(updates') \in Nat /\ Slice(updates', Len(updates')) BY <1>2, <1>6
  <2>2. \A k \in 1..Len(updates') : Slice(updates'[k].weights, NumWeights)
    BY <1>6, <1>7 DEF Inv, Types, n
  <2> QED BY <1>1, <2>1, <2>2 DEF Inv, Types
<1>9. UpdatesKeepTwins'
  <2> SUFFICES ASSUME NEW i \in 1..HiddenDim, NEW j \in 1..HiddenDim, Twins(global, i, j),
                      NEW k \in 1..n + 1
               PROVE  Twins(updates'[k].weights, i, j)
    BY <1>1, <1>6 DEF UpdatesKeepTwins
  <2>1. Twins(e.weights, i, j) BY <1>3, <1>4 DEF Inv, TwinsStayTwins
  <2>2. \A r \in 1..n : Twins(updates[r].weights, i, j) BY DEF Inv, UpdatesKeepTwins, n
  <2> QED BY <1>6, <2>1, <2>2
<1>10. TwinsStayTwins' BY <1>1 DEF Inv, TwinsStayTwins
<1> QED BY <1>8, <1>9, <1>10 DEF Inv

LEMMA AggregateInv ==
  ASSUME Inv, Aggregate PROVE Inv'
<1>1. UNCHANGED <<global, data, mlp, step, updates>> BY DEF Aggregate
<1>2. PICK p \in SetToSeqs(Range(updates)) :
        average' = FedAvg([i \in 1..Len(p) |-> p[i].weights], [i \in 1..Len(p) |-> p[i].numSamples])
  BY DEF Aggregate
<1> DEFINE cw == [i \in 1..Len(p) |-> p[i].weights]
           ns == [i \in 1..Len(p) |-> p[i].numSamples]
           L == Len(p)
<1>3. DOMAIN updates = 1..Len(updates) /\ Len(updates) \in Nat
  BY SliceIs DEF Inv, Types
<1>4. L \in Nat /\ \A k \in 1..L : p[k] \in Range(updates)
  <2> DEFINE R == Range(updates)
  <2>1. IsFiniteSet(R)
    <3>1. updates \in Surjection(1..Len(updates), R)
      <4>1. \A k \in 1..Len(updates) : updates[k] \in R BY <1>3 DEF Range
      <4>2. updates = [k \in 1..Len(updates) |-> updates[k]] BY DEF Inv, Types, Slice
      <4>3. \A e \in R : \E k \in 1..Len(updates) : updates[k] = e BY <1>3 DEF Range
      <4> QED BY <4>1, <4>2, <4>3 DEF Surjection
    <3>2. IsFiniteSet(1..Len(updates)) BY <1>3, FS_Interval
    <3> QED BY <3>1, <3>2, FS_Surjection
  <2>2. Cardinality(R) \in Nat BY <2>1, FS_CardinalityType
  <2>3. p \in [1..Cardinality(R) -> R] BY <1>2 DEF SetToSeqs
  <2> HIDE DEF R
  <2>4. p \in Seq(R) BY <2>2, <2>3
  <2> QED BY <2>4 DEF R
<1>5. \A k \in 1..L : \E r \in 1..Len(updates) : p[k] = updates[r]
  BY <1>3, <1>4 DEF Range
<1> HIDE DEF L
<1>6. Slice(cw, L) /\ \A k \in 1..L : cw[k] = p[k].weights BY DEF Slice, L
<1>7. \A k \in 1..L : Slice(cw[k], NumWeights) BY <1>5, <1>6 DEF Inv, Types
<1> HIDE DEF cw, ns
<1>8. average' = FedAvg(cw, ns) BY <1>2 DEF cw, ns
<1>9. Types' /\ UpdatesKeepTwins' BY <1>1 DEF Inv, Types, UpdatesKeepTwins
<1>10. TwinsStayTwins'
  <2> SUFFICES ASSUME NEW i \in 1..HiddenDim, NEW j \in 1..HiddenDim, Twins(global, i, j)
               PROVE  /\ \A c \in Clients : step[c] >= 0 => Twins(Weights(mlp[c]), i, j)
                      /\ average' # Nil => Twins(average'.num, i, j)
    BY <1>1 DEF TwinsStayTwins
  <2>1. \A c \in Clients : step[c] >= 0 => Twins(Weights(mlp[c]), i, j)
    BY DEF Inv, TwinsStayTwins
  <2>2. \A k \in 1..L : Twins(cw[k], i, j)
    BY <1>5, <1>6 DEF Inv, UpdatesKeepTwins
  <2>3. average' # Nil => Twins(average'.num, i, j)
    BY <1>4, <1>6, <1>7, <1>8, <2>2, AverageTwins DEF L
  <2> QED BY <2>1, <2>3
<1> QED BY <1>9, <1>10 DEF Inv

(* The inductive invariant: the slices of every network have the sizes of    *)
(* the architecture, and every network that has taken over the global        *)
(* weights, every update sent and the average have their twins.              *)
THEOREM LearningInvariant == Spec => []Inv
<1>1. ASSUME Inv, [Next]_vars PROVE Inv'
  <2>1. CASE \E c \in Clients : StartTraining(c) \/ TrainSample(c) \/ ModelUpdate(c)
    BY <1>1, <2>1, StartTrainingInv, TrainSampleInv, ModelUpdateInv
  <2>2. CASE Aggregate BY <1>1, <2>2, AggregateInv
  <2>3. CASE UNCHANGED vars
    BY <1>1, <2>3 DEF vars, Inv, Types, UpdatesKeepTwins, TwinsStayTwins
  <2> QED BY <1>1, <2>1, <2>2, <2>3 DEF Next
<1> QED BY InitInv, <1>1, PTL DEF Spec

(* Theorem: hidden units that the global weights do not tell apart are never *)
(* told apart by training and averaging (coordinator.go:169-175,             *)
(* mlp.go:80-133, fedavg.go:26-34), for networks, data and weights of any    *)
(* size: a model that starts with equal weights keeps a single hidden unit.  *)
THEOREM HiddenUnitsStayEqual == Spec => []TwinsStayTwins
<1>1. Inv => TwinsStayTwins BY DEF Inv
<1> QED BY LearningInvariant, <1>1, PTL

-----------------------------------------------------------------------------
(* 3. Numbers. *)

(* Numbers of the network and of what it computes are integers. *)
Numbers(m) == /\ m.W1 \in [1..InputDim * HiddenDim -> Int]
              /\ m.B1 \in [1..HiddenDim -> Int]
              /\ m.W2 \in [1..HiddenDim * OutputDim -> Int]
              /\ m.B2 \in [1..OutputDim -> Int]

(* The sum of a slice of integers is an integer. *)
LEMMA SumFunctionInt ==
  ASSUME NEW n \in Nat, NEW f \in [1..n -> Int]
  PROVE  SumFunction(f) \in Int
<1>1. SumFunction(f) = SumFunctionOnSet(f, 1..n) BY DEF SumFunction
<1>2. IsFiniteSet(1..n) BY FS_Interval
<1> QED BY <1>1, <1>2, SumInt

(* A network of integers has the slices of a network. *)
LEMMA NumbersShape ==
  ASSUME NEW m, Numbers(m) PROVE Shape(m)
<1>1. Slice(m.W1, InputDim * HiddenDim) BY DEF Numbers, Slice
<1>2. Slice(m.B1, HiddenDim) BY DEF Numbers, Slice
<1>3. Slice(m.W2, HiddenDim * OutputDim) BY DEF Numbers, Slice
<1>4. Slice(m.B2, OutputDim) BY DEF Numbers, Slice
<1> QED BY <1>1, <1>2, <1>3, <1>4 DEF Shape

(* The flat vector has integers just if the network has. *)
LEMMA NumbersWeights ==
  ASSUME NEW m, Shape(m)
  PROVE  Numbers(m) <=> Weights(m) \in [1..NumWeights -> Int]
<1> DEFINE w == Weights(m)
           na == InputDim * HiddenDim
           nb == HiddenDim
           nx == HiddenDim * OutputDim
           ny == OutputDim
<1>1. na \in Nat /\ nb \in Nat /\ nx \in Nat /\ ny \in Nat /\ NumWeights = na + nb + nx + ny
  BY Sizes
<1>2. /\ Slice(w, NumWeights)
      /\ \A k \in 1..na : w[k] = m.W1[k]
      /\ \A k \in 1..nb : w[na + k] = m.B1[k]
      /\ \A k \in 1..nx : w[na + nb + k] = m.W2[k]
      /\ \A k \in 1..ny : w[na + nb + nx + k] = m.B2[k]
  BY WeightsAre
<1>3. Slice(m.W1, na) /\ Slice(m.B1, nb) /\ Slice(m.W2, nx) /\ Slice(m.B2, ny) BY DEF Shape
<1>4. Numbers(m) <=> /\ m.W1 \in [1..na -> Int] /\ m.B1 \in [1..nb -> Int]
                     /\ m.W2 \in [1..nx -> Int] /\ m.B2 \in [1..ny -> Int]
  BY DEF Numbers
<1> HIDE DEF w, na, nb, nx, ny
<1>5. ASSUME w \in [1..NumWeights -> Int] PROVE Numbers(m)
  <2>1. \A k \in 1..na : m.W1[k] \in Int BY <1>1, <1>2, <1>5
  <2>2. \A k \in 1..nb : m.B1[k] \in Int
    <3> SUFFICES ASSUME NEW k \in 1..nb PROVE m.B1[k] \in Int OBVIOUS
    <3>1. na + k \in 1..NumWeights BY <1>1
    <3> QED BY <1>2, <1>5, <3>1
  <2>3. \A k \in 1..nx : m.W2[k] \in Int
    <3> SUFFICES ASSUME NEW k \in 1..nx PROVE m.W2[k] \in Int OBVIOUS
    <3>1. na + nb + k \in 1..NumWeights BY <1>1
    <3> QED BY <1>2, <1>5, <3>1
  <2>4. \A k \in 1..ny : m.B2[k] \in Int
    <3> SUFFICES ASSUME NEW k \in 1..ny PROVE m.B2[k] \in Int OBVIOUS
    <3>1. na + nb + nx + k \in 1..NumWeights BY <1>1
    <3> QED BY <1>2, <1>5, <3>1
  <2>5. m.W1 \in [1..na -> Int] BY <1>3, <2>1 DEF Slice
  <2>6. m.B1 \in [1..nb -> Int] BY <1>3, <2>2 DEF Slice
  <2>7. m.W2 \in [1..nx -> Int] BY <1>3, <2>3 DEF Slice
  <2>8. m.B2 \in [1..ny -> Int] BY <1>3, <2>4 DEF Slice
  <2> QED BY <1>4, <2>5, <2>6, <2>7, <2>8
<1>6. ASSUME Numbers(m) PROVE w \in [1..NumWeights -> Int]
  <2>1. ASSUME NEW k \in 1..NumWeights PROVE w[k] \in Int
    <3>1. CASE k <= na
      <4>1. k \in 1..na BY <1>1, <3>1
      <4> QED BY <1>2, <1>4, <1>6, <4>1
    <3>2. CASE k > na /\ k <= na + nb
      <4>1. k - na \in 1..nb /\ na + (k - na) = k BY <1>1, <3>2
      <4>2. w[k] = m.B1[k - na] BY <1>2, <4>1
      <4> QED BY <1>4, <1>6, <4>1, <4>2
    <3>3. CASE k > na + nb /\ k <= na + nb + nx
      <4>1. k - (na + nb) \in 1..nx /\ na + nb + (k - (na + nb)) = k BY <1>1, <3>3
      <4>2. w[k] = m.W2[k - (na + nb)] BY <1>2, <4>1
      <4> QED BY <1>4, <1>6, <4>1, <4>2
    <3>4. CASE k > na + nb + nx
      <4>1. k - (na + nb + nx) \in 1..ny /\ na + nb + nx + (k - (na + nb + nx)) = k BY <1>1, <3>4
      <4>2. w[k] = m.B2[k - (na + nb + nx)] BY <1>2, <4>1
      <4> QED BY <1>4, <1>6, <4>1, <4>2
    <3> QED BY <1>1, <3>1, <3>2, <3>3, <3>4
  <2> QED BY <1>2, <2>1 DEF Slice
<1> QED BY <1>5, <1>6 DEF w

(* Where an element of a flat matrix is. *)
LEMMA MatrixPlaces ==
  ASSUME NEW r \in Nat, NEW n \in Nat \ {0}, NEW k \in 1..r * n
  PROVE  Row(k, n) \in 1..r /\ Col(k, n) \in 1..n /\ At(Row(k, n), Col(k, n), n) = k
<1> DEFINE q == (k - 1) \div n
           b == (k - 1) % n
<1>1. k - 1 \in Nat /\ r * n \in Nat /\ k <= r * n BY SMT
<1>2. q \in Nat /\ b \in 0..n - 1 /\ k - 1 = q * n + b BY <1>1, SMT
<1>3. Row(k, n) = q + 1 /\ Col(k, n) = b + 1 BY DEF Row, Col
<1> HIDE DEF q, b
<1>4. q < r
  <2> SUFFICES ASSUME q >= r PROVE FALSE BY <1>2
  <2>1. q * n >= r * n BY <1>2, SMT
  <2>2. q * n \in Nat BY <1>2, SMT
  <2> DEFINE u == q * n
             v == r * n
  <2> HIDE DEF u, v
  <2>3. u >= v /\ k - 1 = u + b /\ k <= v /\ u \in Nat /\ v \in Nat /\ b \in Nat
    BY <1>1, <1>2, <2>1, <2>2 DEF u, v
  <2> QED BY <2>3
<1>5. At(q + 1, b + 1, n) = k BY <1>2 DEF At
<1> QED BY <1>2, <1>3, <1>4, <1>5

(* What the network computes. *)
LEMMA HiddenInt ==
  ASSUME NEW m, Numbers(m), NEW x \in [1..InputDim -> Int]
  PROVE  /\ hidden(m, x) \in [1..HiddenDim -> Int]
         /\ \A q \in 1..HiddenDim : hidden(m, x)[q] >= 0
<1>1. ASSUME NEW q \in 1..HiddenDim
      PROVE  SumFunction(In(m, x, q)) \in Int
  <2>1. \A r \in 1..InputDim : x[r] * m.W1[At(r, q, HiddenDim)] \in Int
    <3> SUFFICES ASSUME NEW r \in 1..InputDim PROVE x[r] * m.W1[At(r, q, HiddenDim)] \in Int
      OBVIOUS
    <3>1. At(r, q, HiddenDim) \in 1..InputDim * HiddenDim BY Sizes, Matrix
    <3>2. x[r] \in Int /\ m.W1[At(r, q, HiddenDim)] \in Int BY <3>1 DEF Numbers
    <3> QED BY <3>2
  <2>2. In(m, x, q) \in [1..InputDim -> Int] BY <2>1 DEF In
  <2> QED BY <2>2, Sizes, SumFunctionInt
<1>2. hidden(m, x) = [q \in 1..HiddenDim |-> relu(SumFunction(In(m, x, q)) + m.B1[q])]
  BY DEF hidden, In
<1>3. ASSUME NEW q \in 1..HiddenDim
      PROVE  relu(SumFunction(In(m, x, q)) + m.B1[q]) \in Nat
  <2>1. SumFunction(In(m, x, q)) \in Int /\ m.B1[q] \in Int BY <1>1 DEF Numbers
  <2> DEFINE z == SumFunction(In(m, x, q)) + m.B1[q]
  <2>2. z \in Int BY <2>1
  <2> HIDE DEF z
  <2>3. relu(z) \in Nat BY <2>2 DEF relu
  <2> QED BY <2>3 DEF z
<1> QED BY <1>2, <1>3

(* The part of Predict after the hidden layer. *)
Into(n, a, j) == [i \in 1..HiddenDim |-> a[i] * n.W2[At(i, j, OutputDim)]]
Out(n, a)     == [j \in 1..OutputDim |-> SumFunction(Into(n, a, j)) + n.B2[j]]

LEMMA PredictIs ==
  ASSUME NEW m, NEW x PROVE Predict(m, x) = Out(m, hidden(m, x))
  BY DEF Predict, Out, Into

(* What goes into an output is an integer, ... *)
LEMMA IntoInt ==
  ASSUME NEW m, Numbers(m), NEW a \in [1..HiddenDim -> Int], NEW j \in 1..OutputDim
  PROVE  Into(m, a, j) \in [1..HiddenDim -> Int] /\ SumFunction(Into(m, a, j)) \in Int
<1>1. \A i \in 1..HiddenDim : a[i] * m.W2[At(i, j, OutputDim)] \in Int
  <2> SUFFICES ASSUME NEW i \in 1..HiddenDim PROVE a[i] * m.W2[At(i, j, OutputDim)] \in Int
    OBVIOUS
  <2>1. At(i, j, OutputDim) \in 1..HiddenDim * OutputDim BY Sizes, Matrix
  <2>2. a[i] \in Int /\ m.W2[At(i, j, OutputDim)] \in Int BY <2>1 DEF Numbers
  <2> QED BY <2>2
<1>2. Into(m, a, j) \in [1..HiddenDim -> Int] BY <1>1 DEF Into
<1> QED BY <1>2, Sizes, SumFunctionInt

(* ... so are the outputs, ... *)
LEMMA PredictInt ==
  ASSUME NEW m, Numbers(m), NEW x \in [1..InputDim -> Int]
  PROVE  Predict(m, x) \in [1..OutputDim -> Int]
<1> DEFINE h == hidden(m, x)
<1>1. h \in [1..HiddenDim -> Int] BY HiddenInt
<1> HIDE DEF h
<1>2. \A j \in 1..OutputDim : SumFunction(Into(m, h, j)) + m.B2[j] \in Int
  <2> SUFFICES ASSUME NEW j \in 1..OutputDim PROVE SumFunction(Into(m, h, j)) + m.B2[j] \in Int
    OBVIOUS
  <2>1. m.B2[j] \in Int BY DEF Numbers
  <2>2. SumFunction(Into(m, h, j)) \in Int BY <1>1, IntoInt
  <2> QED BY <2>1, <2>2
<1>3. Out(m, h) \in [1..OutputDim -> Int] BY <1>2 DEF Out
<1> QED BY <1>3, PredictIs DEF h

(* ... what comes back to a hidden unit, ... *)
LEMMA BackInt ==
  ASSUME NEW m, Numbers(m), NEW d \in [1..OutputDim -> Int], NEW q \in 1..HiddenDim
  PROVE  Back(m, d, q) \in [1..OutputDim -> Int] /\ SumFunction(Back(m, d, q)) \in Int
<1>1. \A r \in 1..OutputDim : d[r] * m.W2[At(q, r, OutputDim)] \in Int
  <2> SUFFICES ASSUME NEW r \in 1..OutputDim PROVE d[r] * m.W2[At(q, r, OutputDim)] \in Int
    OBVIOUS
  <2>1. At(q, r, OutputDim) \in 1..HiddenDim * OutputDim BY Sizes, Matrix
  <2>2. d[r] \in Int /\ m.W2[At(q, r, OutputDim)] \in Int BY <2>1 DEF Numbers
  <2> QED BY <2>2
<1>2. Back(m, d, q) \in [1..OutputDim -> Int] BY <1>1 DEF Back
<1> QED BY <1>2, Sizes, SumFunctionInt

(* ... the derivative by the outputs, ... *)
LEMMA DeltaInt ==
  ASSUME NEW m, Numbers(m), NEW x \in [1..InputDim -> Int], NEW t \in [1..OutputDim -> Int]
  PROVE  Delta(m, x, t) \in [1..OutputDim -> Int]
<1>1. Predict(m, x) \in [1..OutputDim -> Int] BY PredictInt
<1>2. \A j \in 1..OutputDim : 2 * (Predict(m, x)[j] - t[j]) \in Int BY <1>1
<1> QED BY <1>2 DEF Delta

(* ... and by the hidden units. *)
LEMMA BlameInt ==
  ASSUME NEW m, Numbers(m), NEW h, NEW d \in [1..OutputDim -> Int]
  PROVE  Blame(m, h, d) \in [1..HiddenDim -> Int]
<1>1. \A q \in 1..HiddenDim : SumFunction(Back(m, d, q)) \in Int BY BackInt
<1> QED BY <1>1 DEF Blame

(* Training keeps the integers integers. *)
LEMMA TrainNumbers ==
  ASSUME NEW m, Numbers(m), NEW x \in [1..InputDim -> Int], NEW t \in [1..OutputDim -> Int]
  PROVE  Numbers(Train(m, x, t))
<1> DEFINE n == Train(m, x, t)
           h == hidden(m, x)
           d == Delta(m, x, t)
           e == Blame(m, h, d)
<1>1. n = [W1 |-> [k \in 1..InputDim * HiddenDim |->
                     m.W1[k] - Rate * e[Col(k, HiddenDim)] * x[Row(k, HiddenDim)]],
           B1 |-> [k \in 1..HiddenDim |-> m.B1[k] - Rate * e[k]],
           W2 |-> [k \in 1..HiddenDim * OutputDim |->
                     m.W2[k] - Rate * d[Col(k, OutputDim)] * h[Row(k, OutputDim)]],
           B2 |-> [k \in 1..OutputDim |-> m.B2[k] - Rate * d[k]]]
  BY TrainIs
<1>2. h \in [1..HiddenDim -> Int] BY HiddenInt
<1>3. d \in [1..OutputDim -> Int] BY DeltaInt
<1>4. e \in [1..HiddenDim -> Int] BY <1>3, BlameInt
<1>5. Rate \in Int BY LearningAssumption
<1> HIDE DEF n, h, d, e
<1>6. \A k \in 1..InputDim * HiddenDim :
        m.W1[k] - Rate * e[Col(k, HiddenDim)] * x[Row(k, HiddenDim)] \in Int
  <2> SUFFICES ASSUME NEW k \in 1..InputDim * HiddenDim
               PROVE  m.W1[k] - Rate * e[Col(k, HiddenDim)] * x[Row(k, HiddenDim)] \in Int
    OBVIOUS
  <2>1. Row(k, HiddenDim) \in 1..InputDim /\ Col(k, HiddenDim) \in 1..HiddenDim
    BY Sizes, MatrixPlaces
  <2>2. m.W1[k] \in Int /\ e[Col(k, HiddenDim)] \in Int /\ x[Row(k, HiddenDim)] \in Int
    BY <1>4, <2>1 DEF Numbers
  <2> QED BY <1>5, <2>2
<1>7. \A k \in 1..HiddenDim * OutputDim :
        m.W2[k] - Rate * d[Col(k, OutputDim)] * h[Row(k, OutputDim)] \in Int
  <2> SUFFICES ASSUME NEW k \in 1..HiddenDim * OutputDim
               PROVE  m.W2[k] - Rate * d[Col(k, OutputDim)] * h[Row(k, OutputDim)] \in Int
    OBVIOUS
  <2>1. Row(k, OutputDim) \in 1..HiddenDim /\ Col(k, OutputDim) \in 1..OutputDim
    BY Sizes, MatrixPlaces
  <2>2. m.W2[k] \in Int /\ d[Col(k, OutputDim)] \in Int /\ h[Row(k, OutputDim)] \in Int
    BY <1>2, <1>3, <2>1 DEF Numbers
  <2> QED BY <1>5, <2>2
<1>8. \A k \in 1..HiddenDim : m.B1[k] - Rate * e[k] \in Int
  <2> SUFFICES ASSUME NEW k \in 1..HiddenDim PROVE m.B1[k] - Rate * e[k] \in Int OBVIOUS
  <2>1. m.B1[k] \in Int /\ e[k] \in Int BY <1>4 DEF Numbers
  <2> QED BY <1>5, <2>1
<1>9. \A k \in 1..OutputDim : m.B2[k] - Rate * d[k] \in Int
  <2> SUFFICES ASSUME NEW k \in 1..OutputDim PROVE m.B2[k] - Rate * d[k] \in Int OBVIOUS
  <2>1. m.B2[k] \in Int /\ d[k] \in Int BY <1>3 DEF Numbers
  <2> QED BY <1>5, <2>1
<1>10. n.W1 \in [1..InputDim * HiddenDim -> Int] BY <1>1, <1>6
<1>11. n.B1 \in [1..HiddenDim -> Int] BY <1>1, <1>8
<1>12. n.W2 \in [1..HiddenDim * OutputDim -> Int] BY <1>1, <1>7
<1>13. n.B2 \in [1..OutputDim -> Int] BY <1>1, <1>9
<1> QED BY <1>10, <1>11, <1>12, <1>13 DEF Numbers, n

-----------------------------------------------------------------------------
(* 4. Counting. *)

(* What the update of a sensor says is true of its network and its data. *)
Honest(u, nets, sets, steps) ==
  /\ u.sensor \in Clients
  /\ steps[u.sensor] = Epochs * Len(sets[u.sensor])
  /\ u.weights = Weights(nets[u.sensor])
  /\ u.numSamples = Len(sets[u.sensor])
  /\ u.loss = ComputeLoss(nets[u.sensor], sets[u.sensor])

(* Every sensor sends one. *)
OneEach(U) == \A j, k \in 1..Len(U) : U[j].sensor = U[k].sensor => j = k

(* The inductive invariant behind EverySampleCounts: an update is what its   *)
(* sensor sent when its training was over, no sensor sends two, and an       *)
(* average is made of one update of every sensor.                            *)
Counting ==
  /\ \A c \in Clients : Numbers(mlp[c])
  /\ \A k \in 1..Len(updates) : Honest(updates[k], mlp, data, step)
  /\ OneEach(updates)
  /\ average # Nil => /\ Len(updates) = Cardinality(Clients)
                       /\ average.num \in [1..NumWeights -> Int]
                       /\ average.den \in Nat \ {0}
  /\ EverySampleCounts

(* The data of a sensor, and the numbers of samples. *)
LEMMA DataAre ==
  ASSUME NEW D \in DataSets
  PROVE  /\ D \in Seq(Samples) /\ D # <<>>
         /\ Len(D) \in Nat \ {0}
         /\ Epochs * Len(D) \in Nat \ {0}
         /\ \A k \in 1..Len(D) : /\ D[k].features \in [1..InputDim -> Int]
                                 /\ D[k].target \in [1..OutputDim -> Int]
<1>1. D \in Seq(Samples) /\ D # <<>> /\ Epochs \in Nat \ {0} BY LearningAssumption
<1>2. Len(D) \in Nat \ {0} BY <1>1, EmptySeq
<1>3. Epochs * Len(D) \in Nat \ {0} BY <1>1, <1>2, SMT
<1>4. \A k \in 1..Len(D) : D[k] \in Samples BY <1>1
<1>5. \A k \in 1..Len(D) : /\ D[k].features \in [1..InputDim -> Int]
                           /\ D[k].target \in [1..OutputDim -> Int]
  BY <1>4 DEF Samples
<1> QED BY <1>1, <1>2, <1>3, <1>5

(* Updates from as many sensors as there are come from all of them. *)
LEMMA AllSent ==
  ASSUME NEW U, Slice(U, Len(U)), Len(U) = Cardinality(Clients), OneEach(U),
         \A k \in 1..Len(U) : U[k].sensor \in Clients
  PROVE  [k \in 1..Len(U) |-> U[k].sensor] \in Bijection(1..Len(U), Clients)
<1> DEFINE f == [k \in 1..Len(U) |-> U[k].sensor]
<1>1. IsFiniteSet(Clients) BY LearningAssumption
<1>2. Len(U) \in Nat BY <1>1, FS_CardinalityType
<1>3. f \in Injection(1..Len(U), Clients) BY DEF Injection, IsInjective, OneEach
<1>4. Cardinality(1..Len(U)) = Len(U) BY <1>2, FS_Interval
<1> HIDE DEF f
<1>5. f \in Surjection(1..Len(U), Clients) BY <1>1, <1>3, <1>4, FS_Injection
<1>6. f \in Bijection(1..Len(U), Clients) BY <1>3, <1>5 DEF Bijection
<1> QED BY <1>6 DEF f

(* The updates in another order. *)
LEMMA Permuted ==
  ASSUME NEW U, Slice(U, Len(U)), Len(U) \in Nat, OneEach(U),
         NEW p \in SetToSeqs(Range(U))
  PROVE  /\ Slice(p, Len(U)) /\ Len(p) = Len(U)
         /\ \A k \in 1..Len(U) : \E r \in 1..Len(U) : p[k] = U[r]
         /\ OneEach(p)
<1> DEFINE n == Len(U)
           R == Range(U)
<1>1. DOMAIN U = 1..n BY SliceIs
<1>2. \A k \in 1..n : U[k] \in R BY <1>1 DEF Range
<1>3. \A e \in R : \E k \in 1..n : U[k] = e BY <1>1 DEF Range
<1>4. p \in [1..Cardinality(R) -> R] /\ \A i, j \in 1..Cardinality(R) : i # j => p[i] # p[j]
  BY DEF SetToSeqs
<1>5. U \in Bijection(1..n, R)
  <2>1. U \in [1..n -> R] BY <1>2 DEF Slice
  <2>2. \A i, j \in 1..n : U[i] = U[j] => i = j BY DEF OneEach
  <2> HIDE DEF R, n
  <2> QED BY <1>3, <2>1, <2>2 DEF Bijection, Injection, Surjection, IsInjective
<1> HIDE DEF R
<1>6. Cardinality(R) = n BY <1>5, FS_CountingElements DEF ExistsBijection
<1>7. p \in [1..n -> R] /\ \A i, j \in 1..n : p[i] = p[j] => i = j BY <1>4, <1>6
<1>8. p \in Seq(R) /\ Len(p) = n BY <1>7
<1>9. Slice(p, n) BY <1>7 DEF Slice
<1>10. \A k \in 1..n : \E r \in 1..n : p[k] = U[r] BY <1>3, <1>7
<1>11. OneEach(p)
  <2> SUFFICES ASSUME NEW j \in 1..n, NEW k \in 1..n, p[j].sensor = p[k].sensor PROVE j = k
    BY <1>8 DEF OneEach
  <2>1. PICK r \in 1..n : p[j] = U[r] BY <1>10
  <2>2. PICK s \in 1..n : p[k] = U[s] BY <1>10
  <2>3. r = s BY <2>1, <2>2 DEF OneEach
  <2> QED BY <1>7, <2>1, <2>2, <2>3
<1> QED BY <1>8, <1>9, <1>10, <1>11

(* The samples of every sensor, and what every sensor adds to weight k. *)
Holding(sets) == [c \in Clients |-> Len(sets[c])]
Share(nets, sets, k) ==
  [c \in Clients |-> SumFunction([i \in 1..Len(sets[c]) |-> Weights(nets[c])[k]])]

(* The same number for each sample of a sensor. *)
LEMMA ShareIs ==
  ASSUME NEW n \in Nat, NEW v \in Int
  PROVE  SumFunction([i \in 1..n |-> v]) = n * v
<1> DEFINE f == [i \in 1..n |-> v]
<1>1. SumFunction(f) = SumFunctionOnSet(f, 1..n) BY DEF SumFunction
<1>2. IsFiniteSet(1..n) /\ Cardinality(1..n) = n BY FS_Interval
<1>3. \A i \in 1..n : f[i] = v OBVIOUS
<1> HIDE DEF f
<1>4. SumFunctionOnSet(f, 1..n) = Cardinality(1..n) * v BY <1>2, <1>3, SumConstant
<1>5. SumFunction(f) = n * v BY <1>1, <1>2, <1>4
<1> QED BY <1>5 DEF f

(* A sum along a sequence that goes through T in some order. *)
LEMMA SumInOrder ==
  ASSUME NEW n \in Nat, NEW T, NEW f, NEW g, DOMAIN f = 1..n, DOMAIN g = T,
         NEW b, Renamed(f, 1..n, g, T, b)
  PROVE  SumFunction(f) = SumFunction(g) /\ SumFunction(f) \in Int
<1>1. IsFiniteSet(1..n) BY FS_Interval
<1>2. SumFunction(f) = SumFunctionOnSet(f, 1..n) /\ SumFunction(g) = SumFunctionOnSet(g, T)
  BY DEF SumFunction
<1>3. \A i \in 1..n : f[i] \in Int BY DEF Renamed
<1>4. SumFunctionOnSet(f, 1..n) = SumFunctionOnSet(g, T) BY <1>1, SumRenamed
<1>5. SumFunctionOnSet(f, 1..n) \in Int BY <1>1, <1>3, SumInt
<1> QED BY <1>2, <1>4, <1>5

(* The slices handed to FedAvg. *)
WeightsOf(p) == [i \in 1..Len(p) |-> p[i].weights]
SamplesOf(p) == [i \in 1..Len(p) |-> p[i].numSamples]

(* One honest update of every sensor, and an average in which every sample   *)
(* counts.                                                                   *)
Complete(U, nets, sets, steps) ==
  /\ Slice(U, Len(U)) /\ Len(U) = Cardinality(Clients) /\ OneEach(U)
  /\ \A k \in 1..Len(U) : Honest(U[k], nets, sets, steps)
  /\ \A c \in Clients : Numbers(nets[c])
  /\ \A c \in Clients : sets[c] \in DataSets

Counted(a, nets, sets) ==
  /\ a.den = SumFunction(Holding(sets))
  /\ a.den \in Nat \ {0}
  /\ a.num \in [1..NumWeights -> Int]
  /\ \A k \in 1..NumWeights : a.num[k] = SumFunction(Share(nets, sets, k))

(* Weighting by the number of samples gives every sample the same weight, in *)
(* whatever order the sensors come.                                          *)
LEMMA AverageCounts ==
  ASSUME NEW nets, NEW sets, NEW steps, NEW U, NEW p \in SetToSeqs(Range(U)),
         Complete(U, nets, sets, steps), FedAvg(WeightsOf(p), SamplesOf(p)) # Nil
  PROVE  Counted(FedAvg(WeightsOf(p), SamplesOf(p)), nets, sets)
<1> DEFINE n == Len(p)
           cw == WeightsOf(p)
           ns == SamplesOf(p)
           b == [k \in 1..n |-> p[k].sensor]
           g == Holding(sets)
<1>1. Len(U) \in Nat BY LearningAssumption, FS_CardinalityType DEF Complete
<1>2. /\ Slice(U, Len(U)) /\ Len(U) = Cardinality(Clients) /\ OneEach(U)
      /\ \A k \in 1..Len(U) : Honest(U[k], nets, sets, steps)
      /\ \A c \in Clients : Numbers(nets[c])
      /\ \A c \in Clients : sets[c] \in DataSets
  BY DEF Complete
<1>3. /\ Slice(p, n) /\ n = Len(U) /\ n = Cardinality(Clients) /\ n \in Nat /\ OneEach(p)
      /\ \A k \in 1..n : \E r \in 1..Len(U) : p[k] = U[r]
  BY <1>1, <1>2, Permuted
<1>4. \A k \in 1..n : Honest(p[k], nets, sets, steps) BY <1>2, <1>3
<1>5. \A k \in 1..n : p[k].sensor \in Clients BY <1>4 DEF Honest
<1>6. b \in Bijection(1..n, Clients) BY <1>3, <1>5, AllSent
<1>7. \A k \in 1..n : b[k] = p[k].sensor OBVIOUS
<1>8. \A k \in 1..n : b[k] \in Clients BY <1>5, <1>7
<1> HIDE DEF b, n
<1>9. /\ Slice(cw, n) /\ Slice(ns, n)
      /\ \A k \in 1..n : cw[k] = p[k].weights /\ ns[k] = p[k].numSamples
  BY DEF Slice, WeightsOf, SamplesOf, n
<1>10. FedAvg(cw, ns) # Nil OBVIOUS
<1> HIDE DEF cw, ns
<1>11. \A k \in 1..n : cw[k] = Weights(nets[b[k]]) /\ ns[k] = Len(sets[b[k]])
  BY <1>4, <1>7, <1>9 DEF Honest
<1>12. \A c \in Clients : Len(sets[c]) \in Nat \ {0} BY <1>2, DataAre
<1>13. \A c \in Clients : Weights(nets[c]) \in [1..NumWeights -> Int]
  BY <1>2, NumbersShape, NumbersWeights
<1>14. IsFiniteSet(1..n) BY <1>3, FS_Interval
<1>15. Len(cw) = n /\ DOMAIN cw = 1..n /\ Len(ns) = n /\ DOMAIN ns = 1..n BY <1>3, <1>9, SliceIs
<1>16. \A k \in 1..n : ns[k] = g[b[k]] /\ ns[k] \in Nat BY <1>8, <1>11, <1>12 DEF Holding
<1>17. SumFunction(ns) = SumFunction(g)
  <2> HIDE DEF g
  <2>1. \A k \in 1..n : ns[k] \in Int BY <1>16
  <2>2. \A k \in 1..n : ns[k] = g[b[k]] BY <1>16
  <2>3. DOMAIN g = Clients BY DEF g, Holding
  <2>4. Renamed(ns, 1..n, g, Clients, b) BY <1>6, <2>1, <2>2 DEF Renamed
  <2> QED BY <1>3, <1>15, <2>3, <2>4, SumInOrder
<1>18. SumFunction(ns) \in Nat
  <2>1. SumFunction(ns) = SumFunctionOnSet(ns, 1..n) BY <1>15 DEF SumFunction
  <2> QED BY <1>14, <1>16, <2>1, SumNat
<1>19. cw # <<>> /\ SumFunction(ns) # 0 BY <1>10 DEF FedAvg
<1>20. n # 0 BY <1>15, <1>19
<1>21. Len(cw[1]) = NumWeights
  <2>1. 1 \in 1..n BY <1>3, <1>20
  <2>2. cw[1] \in [1..NumWeights -> Int] BY <1>8, <1>11, <1>13, <2>1
  <2>3. Slice(cw[1], NumWeights) BY <2>2 DEF Slice
  <2> QED BY <2>3, Sizes, SliceIs
<1> DEFINE a == FedAvg(cw, ns)
<1>22. /\ a.den = SumFunction(ns)
       /\ a.num = [k \in 1..NumWeights |-> SumFunction(Column(cw, ns, k))]
  BY <1>19, <1>10, <1>21 DEF FedAvg, Column
<1> HIDE DEF a
<1>23. ASSUME NEW k \in 1..NumWeights
       PROVE  SumFunction(Column(cw, ns, k)) = SumFunction(Share(nets, sets, k))
              /\ SumFunction(Column(cw, ns, k)) \in Int
  <2> DEFINE f == Column(cw, ns, k)
             h == Share(nets, sets, k)
  <2>1. f = [c \in 1..n |-> cw[c][k] * ns[c]] BY <1>15 DEF Column
  <2>2. \A c \in Clients : Len(sets[c]) \in Nat /\ Weights(nets[c])[k] \in Int
    BY <1>12, <1>13
  <2>3. \A c \in Clients : h[c] = Len(sets[c]) * Weights(nets[c])[k]
    <3>1. \A c \in Clients :
            h[c] = SumFunction([i \in 1..Len(sets[c]) |-> Weights(nets[c])[k]])
      BY DEF Share
    <3> HIDE DEF h
    <3> QED BY <2>2, <3>1, ShareIs
  <2> HIDE DEF f, h
  <2>4. ASSUME NEW c \in 1..n PROVE f[c] = h[b[c]] /\ f[c] \in Int
    <3> DEFINE v == Weights(nets[b[c]])[k]
               l == Len(sets[b[c]])
    <3>1. f[c] = v * l BY <1>11, <2>1
    <3>2. h[b[c]] = l * v /\ v \in Int /\ l \in Int BY <1>8, <2>2, <2>3
    <3> HIDE DEF v, l
    <3> QED BY <3>1, <3>2
  <2>5. \A c \in 1..n : f[c] \in Int BY <2>4
  <2>6. \A c \in 1..n : f[c] = h[b[c]] BY <2>4
  <2>7. DOMAIN f = 1..n /\ DOMAIN h = Clients BY <2>1 DEF h, Share
  <2>8. Renamed(f, 1..n, h, Clients, b) BY <1>6, <2>5, <2>6 DEF Renamed
  <2>9. SumFunction(f) = SumFunction(h) /\ SumFunction(f) \in Int
    BY <1>3, <2>7, <2>8, SumInOrder
  <2> QED BY <2>9 DEF f, h
<1>24. a.num \in [1..NumWeights -> Int] BY <1>22, <1>23
<1>25. \A k \in 1..NumWeights : a.num[k] = SumFunction(Share(nets, sets, k)) BY <1>22, <1>23
<1>26. a.den = SumFunction(g) /\ a.den \in Nat \ {0} BY <1>17, <1>18, <1>19, <1>22
<1> QED BY <1>24, <1>25, <1>26 DEF a, cw, ns, Counted

(* A sensor that is not done has sent nothing, and there is no average.      *)
LEMMA NotDone ==
  ASSUME Inv, Counting, NEW c \in Clients,
         \/ step[c] # Epochs * Len(data[c])
         \/ \A k \in 1..Len(updates) : updates[k].sensor # c
  PROVE  /\ \A k \in 1..Len(updates) : updates[k].sensor # c
         /\ average = Nil
<1>1. \A k \in 1..Len(updates) : Honest(updates[k], mlp, data, step) BY DEF Counting
<1>2. \A k \in 1..Len(updates) : updates[k].sensor # c
  <2> SUFFICES ASSUME NEW k \in 1..Len(updates), updates[k].sensor = c PROVE FALSE OBVIOUS
  <2>1. step[c] = Epochs * Len(data[c]) BY <1>1 DEF Honest
  <2> QED BY <2>1
<1>3. average = Nil
  <2> SUFFICES ASSUME average # Nil PROVE FALSE OBVIOUS
  <2> DEFINE b == [k \in 1..Len(updates) |-> updates[k].sensor]
  <2>1. /\ Slice(updates, Len(updates)) /\ Len(updates) = Cardinality(Clients) /\ OneEach(updates)
        /\ \A k \in 1..Len(updates) : updates[k].sensor \in Clients
    BY <1>1 DEF Inv, Types, Counting, Honest
  <2>2. b \in Bijection(1..Len(updates), Clients) BY <2>1, AllSent
  <2>3. \A k \in 1..Len(updates) : b[k] = updates[k].sensor OBVIOUS
  <2> HIDE DEF b
  <2>4. \E k \in 1..Len(updates) : b[k] = c BY <2>2 DEF Bijection, Surjection
  <2> QED BY <1>2, <2>3, <2>4
<1> QED BY <1>2, <1>3

(* A sensor that has not sent its update may change its network. *)
LEMMA QuietStep ==
  ASSUME Inv, Counting, NEW c \in Clients, step[c] # Epochs * Len(data[c]),
         NEW n, Numbers(n), NEW k,
         mlp' = [mlp EXCEPT ![c] = n], step' = [step EXCEPT ![c] = k],
         UNCHANGED <<global, data, updates, average>>
  PROVE  Counting'
<1>1. \A e \in Clients : e # c => mlp'[e] = mlp[e] /\ step'[e] = step[e] BY DEF Inv, Types
<1>2. \A e \in Clients : Numbers(mlp'[e])
  <2>1. mlp'[c] = n BY DEF Inv, Types
  <2> QED BY <1>1, <2>1 DEF Counting
<1>3. /\ \A i \in 1..Len(updates) : updates[i].sensor # c
      /\ average = Nil
  BY NotDone
<1>4. ASSUME NEW i \in 1..Len(updates') PROVE Honest(updates'[i], mlp', data', step')
  <2> DEFINE u == updates[i]
             e == u.sensor
  <2>1. i \in 1..Len(updates) /\ updates'[i] = u /\ data' = data OBVIOUS
  <2>2. Honest(u, mlp, data, step) BY <2>1 DEF Counting
  <2>3. e \in Clients /\ e # c BY <1>3, <2>1, <2>2 DEF Honest
  <2>4. mlp'[e] = mlp[e] /\ step'[e] = step[e] BY <1>1, <2>3
  <2> HIDE DEF u
  <2> QED BY <2>1, <2>2, <2>4 DEF Honest
<1>5. OneEach(updates') BY DEF Counting
<1>6. average' = Nil BY <1>3
<1> QED BY <1>2, <1>4, <1>5, <1>6 DEF Counting, EverySampleCounts

(* The global weights are integers. *)
LEMMA GlobalNumbers ==
  ASSUME NEW m, Shape(m), NEW w \in Globals PROVE Numbers(SetWeights(m, w))
<1>1. w \in [1..NumWeights -> Int] BY LearningAssumption
<1>2. Slice(w, NumWeights) BY <1>1 DEF Slice
<1>3. Shape(SetWeights(m, w)) /\ Weights(SetWeights(m, w)) = w BY <1>2, SetWeightsExact
<1> QED BY <1>1, <1>3, NumbersWeights

(* The four actions keep Counting. *)
LEMMA StartTrainingCounting ==
  ASSUME Inv, Counting, NEW c \in Clients, StartTraining(c) PROVE Counting'
<1> DEFINE n == SetWeights(mlp[c], global)
           k == 0
<1>1. Numbers(n) BY GlobalNumbers DEF Inv, Types
<1>2. mlp' = [mlp EXCEPT ![c] = n] /\ step' = [step EXCEPT ![c] = k]
  BY DEF StartTraining, Inv, Types
<1>3. UNCHANGED <<global, data, updates, average>> BY DEF StartTraining
<1>4. step[c] # Epochs * Len(data[c])
  <2>1. data[c] \in DataSets BY DEF Inv, Types
  <2>2. Epochs * Len(data[c]) \in Nat /\ step[c] = -1 BY <2>1, DataAre DEF StartTraining
  <2> QED BY <2>2
<1> HIDE DEF n, k
<1> QED BY <1>1, <1>2, <1>3, <1>4, QuietStep

LEMMA TrainSampleCounting ==
  ASSUME Inv, Counting, NEW c \in Clients, TrainSample(c) PROVE Counting'
<1> DEFINE L == Len(data[c])
           i == (step[c] % L) + 1
           s == data[c][i]
           n == Train(mlp[c], s.features, s.target)
           k == step[c] + 1
<1>1. data[c] \in DataSets /\ step[c] \in Int BY DEF Inv, Types
<1>2. L \in Nat \ {0} /\ Epochs * L \in Nat BY <1>1, DataAre
<1>3. step[c] \in 0..Epochs * L - 1 BY DEF TrainSample
<1>4. i \in 1..L BY <1>1, <1>2, SMT
<1>5. s.features \in [1..InputDim -> Int] /\ s.target \in [1..OutputDim -> Int]
  BY <1>1, <1>4, DataAre
<1>6. Numbers(n) BY <1>5, TrainNumbers DEF Counting
<1>7. mlp' = [mlp EXCEPT ![c] = n] /\ step' = [step EXCEPT ![c] = k]
  BY DEF TrainSample, Inv, Types
<1>8. UNCHANGED <<global, data, updates, average>> BY DEF TrainSample
<1>9. step[c] # Epochs * L
  <2> DEFINE e == Epochs * L
  <2>1. e \in Nat /\ step[c] \in 0..e - 1 BY <1>2, <1>3
  <2> HIDE DEF e
  <2>2. step[c] # e BY <2>1
  <2> QED BY <2>2 DEF e
<1> HIDE DEF n, k
<1> QED BY <1>6, <1>7, <1>8, <1>9, QuietStep

LEMMA ModelUpdateCounting ==
  ASSUME Inv, Counting, NEW c \in Clients, ModelUpdate(c) PROVE Counting'
<1> DEFINE e == [sensor |-> c, weights |-> Weights(mlp[c]), numSamples |-> Len(data[c]),
                 loss |-> ComputeLoss(mlp[c], data[c])]
           n == Len(updates)
<1>1. updates' = Append(updates, e) /\ UNCHANGED <<global, data, mlp, step, average>>
  BY DEF ModelUpdate
<1>2. n \in Nat /\ Slice(updates, n) BY DEF Inv, Types
<1>3. average = Nil /\ \A k \in 1..n : updates[k].sensor # c BY NotDone DEF ModelUpdate
<1>4. Honest(e, mlp, data, step) BY DEF ModelUpdate, Honest
<1>5. e.sensor = c OBVIOUS
<1>6. Appended(updates', updates, e, n)
  <2> HIDE DEF e, n
  <2> QED BY <1>1, <1>2, AppendSlice
<1> DEFINE v == updates'
<1>7. /\ Len(v) = n + 1
      /\ \A k \in 1..n : v[k] = updates[k]
      /\ v[n + 1] = e
  BY <1>6 DEF Appended
<1>8. /\ \A k \in 1..n : Honest(updates[k], mlp, data, step)
      /\ \A j, k \in 1..n : updates[j].sensor = updates[k].sensor => j = k
  BY DEF Counting, OneEach
<1> HIDE DEF e, n, v
<1>9. \A k \in 1..n + 1 : k \in 1..n \/ k = n + 1 BY <1>2
<1>10. \A k \in 1..n + 1 : Honest(v[k], mlp, data, step) BY <1>4, <1>7, <1>8, <1>9
<1>11. \A j, k \in 1..n + 1 : v[j].sensor = v[k].sensor => j = k
  <2> SUFFICES ASSUME NEW j \in 1..n + 1, NEW k \in 1..n + 1, v[j].sensor = v[k].sensor
               PROVE  j = k
    OBVIOUS
  <2>1. CASE j \in 1..n /\ k \in 1..n BY <1>7, <1>8, <2>1
  <2>2. CASE j = n + 1 /\ k \in 1..n BY <1>3, <1>5, <1>7, <2>2
  <2>3. CASE j \in 1..n /\ k = n + 1 BY <1>3, <1>5, <1>7, <2>3
  <2>4. CASE j = n + 1 /\ k = n + 1 BY <2>4
  <2> QED BY <1>9, <2>1, <2>2, <2>3, <2>4
<1>12. OneEach(v) BY <1>7, <1>11 DEF OneEach
<1>13. \A k \in 1..Len(v) : Honest(v[k], mlp', data', step') BY <1>1, <1>7, <1>10
<1>14. average' = Nil /\ \A d \in Clients : Numbers(mlp'[d]) BY <1>1, <1>3 DEF Counting
<1> QED BY <1>12, <1>13, <1>14 DEF Counting, EverySampleCounts, v

LEMMA AggregateCounting ==
  ASSUME Inv, Counting, Aggregate PROVE Counting'
<1>1. PICK p \in SetToSeqs(Range(updates)) : average' = FedAvg(WeightsOf(p), SamplesOf(p))
  BY DEF Aggregate, WeightsOf, SamplesOf
<1>2. UNCHANGED <<global, data, mlp, step, updates>> BY DEF Aggregate
<1>3. /\ Slice(updates, Len(updates)) /\ Len(updates) = Cardinality(Clients) /\ OneEach(updates)
      /\ \A k \in 1..Len(updates) : Honest(updates[k], mlp, data, step)
      /\ \A c \in Clients : Numbers(mlp[c])
      /\ \A c \in Clients : data[c] \in DataSets
  BY DEF Inv, Types, Counting, Aggregate
<1>4. average' # Nil => Counted(average', mlp, data)
  <2>1. Complete(updates, mlp, data, step) BY <1>3 DEF Complete
  <2> QED BY <1>1, <2>1, AverageCounts
<1>5. EverySampleCounts'
  <2>1. average' # Nil => /\ average'.den = SumFunction(Holding(data))
                          /\ \A k \in 1..NumWeights :
                               average'.num[k] = SumFunction(Share(mlp, data, k))
    BY <1>4 DEF Counted
  <2>2. Holding(data)' = Holding(data) /\ \A k \in 1..NumWeights : Share(mlp, data, k)' = Share(mlp, data, k)
    BY <1>2 DEF Holding, Share
  <2> QED BY <1>2, <2>1, <2>2 DEF EverySampleCounts, Holding, Share
<1>6. average' # Nil => /\ Len(updates) = Cardinality(Clients)
                        /\ average'.num \in [1..NumWeights -> Int]
                        /\ average'.den \in Nat \ {0}
  BY <1>3, <1>4 DEF Counted
<1> QED BY <1>2, <1>3, <1>5, <1>6 DEF Counting

(* A new network has integers. *)
LEMMA NewMLPNumbers ==
  ASSUME NEW w \in RandomWeights PROVE Numbers(NewMLP(w))
<1> DEFINE na == InputDim * HiddenDim
           nx == HiddenDim * OutputDim
<1>1. /\ na \in Nat /\ nx \in Nat /\ HiddenDim \in Nat /\ OutputDim \in Nat
      /\ NumWeights \in Nat /\ na <= NumWeights /\ nx <= NumWeights
  BY Sizes
<1>2. w \in Seq(Int) /\ Len(w) = NumWeights BY <1>1, LearningAssumption
<1> HIDE DEF na, nx
<1>3. ASSUME NEW n \in Nat, n <= NumWeights PROVE SubSeq(w, 1, n) \in [1..n -> Int]
  <2> DEFINE v == SubSeq(w, 1, n)
  <2>1. v \in Seq(Int) /\ Len(v) = n BY <1>1, <1>2, <1>3
  <2> HIDE DEF v
  <2>2. v \in [1..n -> Int] BY <2>1
  <2> QED BY <2>2 DEF v
<1>4. \A n \in Nat : Zeros(n) \in [1..n -> Int] BY DEF Zeros
<1>5. SubSeq(w, 1, na) \in [1..na -> Int] /\ SubSeq(w, 1, nx) \in [1..nx -> Int] BY <1>1, <1>3
<1> QED BY <1>1, <1>4, <1>5 DEF NewMLP, Numbers, na, nx

LEMMA InitCounting == Init => Counting
<1> SUFFICES ASSUME Init PROVE Counting OBVIOUS
<1>1. PICK w \in [Clients -> RandomWeights] : mlp = [c \in Clients |-> NewMLP(w[c])] BY DEF Init
<1>2. \A c \in Clients : Numbers(mlp[c]) BY <1>1, NewMLPNumbers
<1>3. Len(updates) = 0 /\ average = Nil BY DEF Init
<1> QED BY <1>2, <1>3 DEF Counting, EverySampleCounts, OneEach

(* Theorem: a model update that has reached the coordinator stays true to its *)
(* sensor: the network, the number of samples and the loss it was made of are *)
(* still those of the sensor, which sends only one and trains no further     *)
(* (sensor.go:180-201 and 252-305, coordinator.go:260-285).                  *)
THEOREM CountingInvariant == Spec => []Counting
<1>1. ASSUME Inv, Counting, [Next]_vars PROVE Counting'
  <2>1. CASE \E c \in Clients : StartTraining(c) \/ TrainSample(c) \/ ModelUpdate(c)
    BY <1>1, <2>1, StartTrainingCounting, TrainSampleCounting, ModelUpdateCounting
  <2>2. CASE Aggregate BY <1>1, <2>2, AggregateCounting
  <2>3. CASE UNCHANGED vars
    BY <1>1, <2>3 DEF vars, Counting, OneEach, EverySampleCounts
  <2> QED BY <1>1, <2>1, <2>2, <2>3 DEF Next
<1> QED BY LearningInvariant, InitCounting, <1>1, PTL DEF Spec

(* Theorem: every sample of every sensor has the same share in the new global *)
(* weights, whatever the number of samples of each sensor and in whatever order *)
(* Go iterates over the map of updates (coordinator.go:293-321,              *)
(* fedavg.go:26-34). It rests on sums not depending on the order of their    *)
(* places, and on Counting.                                                  *)
THEOREM SamplesCountEqually == Spec => []EverySampleCounts
<1>1. Counting => EverySampleCounts BY DEF Counting
<1> QED BY CountingInvariant, <1>1, PTL

(* Theorem: all weights, of the networks, of the updates and of the average, *)
(* stay vectors of the right length (mlp.go:138-157, fedavg.go:25-34).       *)
THEOREM LearningTypes == Spec => []TypeOK
<1>1. Inv /\ Counting => TypeOK
  <2> SUFFICES ASSUME Inv, Counting PROVE TypeOK OBVIOUS
  <2>1. \A c \in Clients : Weights(mlp[c]) \in [1..NumWeights -> Int]
    BY NumbersShape, NumbersWeights DEF Counting
  <2>2. \A i \in 1..Len(updates) : updates[i].weights \in [1..NumWeights -> Int]
    BY <2>1 DEF Counting, Honest
  <2> QED BY <2>1, <2>2 DEF TypeOK, Inv, Types, Counting
<1> QED BY LearningInvariant, CountingInvariant, <1>1, PTL

-----------------------------------------------------------------------------
(* 5. Gradients. *)

(* Sums of slices. *)
LEMMA SumCombined ==
  ASSUME NEW n, NEW f, NEW g, NEW h, NEW a, NEW b, Combined(h, f, g, a, b, 1..n),
         DOMAIN f = 1..n, DOMAIN g = 1..n, DOMAIN h = 1..n
  PROVE  SumFunction(h) = a * SumFunction(f) + b * SumFunction(g)
<1>1. SumFunctionOnSet(h, 1..n) = a * SumFunctionOnSet(f, 1..n) + b * SumFunctionOnSet(g, 1..n)
  BY SumLinear
<1> QED BY <1>1 DEF SumFunction

(* All numbers multiplied by the same one. *)
Scaled(h, f, a, n) == /\ n \in Nat /\ a \in Int /\ f \in [1..n -> Int] /\ DOMAIN h = 1..n
                      /\ \A i \in 1..n : h[i] = a * f[i]

LEMMA SumScaled ==
  ASSUME NEW n, NEW f, NEW h, NEW a, Scaled(h, f, a, n)
  PROVE  SumFunction(h) = a * SumFunction(f)
<1> DEFINE z == 0
<1>1. IsFiniteSet(1..n) BY FS_Interval DEF Scaled
<1>2. \A i \in 1..n : f[i] \in Int /\ h[i] = a * f[i] + z * f[i]
  <2> SUFFICES ASSUME NEW i \in 1..n PROVE f[i] \in Int /\ h[i] = a * f[i] + 0 * f[i] OBVIOUS
  <2>1. h[i] = a * f[i] /\ f[i] \in Int BY DEF Scaled
  <2>2. 0 * f[i] = 0 /\ a * f[i] \in Int BY <2>1 DEF Scaled
  <2> QED BY <2>1, <2>2
<1>3. z \in Int OBVIOUS
<1>4. SumFunction(f) \in Int BY SumFunctionInt DEF Scaled
<1>5. z * SumFunction(f) = 0 /\ a * SumFunction(f) \in Int BY <1>4 DEF Scaled
<1> HIDE DEF z
<1>6. Combined(h, f, f, a, z, 1..n) BY <1>1, <1>2, <1>3 DEF Combined, Scaled
<1>7. SumFunction(h) = a * SumFunction(f) + z * SumFunction(f) BY <1>6, SumCombined DEF Scaled
<1> QED BY <1>5, <1>7

(* A sum in which all but one number are 0. *)
OnlyAt(f, n, r) == /\ n \in Nat /\ r \in 1..n /\ f \in [1..n -> Int]
                   /\ \A i \in 1..n : i # r => f[i] = 0

LEMMA SumSingle ==
  ASSUME NEW n, NEW f, NEW r, OnlyAt(f, n, r)
  PROVE  SumFunction(f) = f[r]
<1> DEFINE S == 1..n
           R == S \ {r}
<1>1. IsFiniteSet(S) BY FS_Interval DEF OnlyAt
<1>2. \A i \in S : f[i] \in Int BY DEF OnlyAt
<1>3. \A i \in R : f[i] = 0 BY DEF OnlyAt
<1>4. r \in S BY DEF OnlyAt
<1>5. SumFunction(f) = SumFunctionOnSet(f, S) BY DEF SumFunction, OnlyAt
<1> HIDE DEF S
<1>6. IsFiniteSet(R) BY <1>1, FS_Subset
<1>7. SumFunctionOnSet(f, S) = f[r] + SumFunctionOnSet(f, R) BY <1>1, <1>2, <1>4, SumRemove
<1> HIDE DEF R
<1>8. SumFunctionOnSet(f, R) = Cardinality(R) * 0 BY <1>3, <1>6, SumConstant
<1>9. SumFunctionOnSet(f, R) = 0 BY <1>6, <1>8, FS_CardinalityType
<1>10. f[r] \in Int BY <1>2, <1>4
<1> QED BY <1>5, <1>7, <1>9, <1>10

(* The sum of zeros. *)
LEMMA SumZero ==
  ASSUME NEW n \in Nat, NEW f, DOMAIN f = 1..n, \A i \in 1..n : f[i] = 0
  PROVE  SumFunction(f) = 0
<1>1. IsFiniteSet(1..n) /\ Cardinality(1..n) = n BY FS_Interval
<1>2. SumFunction(f) = SumFunctionOnSet(f, 1..n) BY DEF SumFunction
<1>3. SumFunctionOnSet(f, 1..n) = Cardinality(1..n) * 0 BY <1>1, SumConstant
<1> QED BY <1>1, <1>2, <1>3

(* The squared error, and its difference quotient. *)
Squares(o, t) == [j \in 1..OutputDim |-> (o[j] - t[j]) * (o[j] - t[j])]
Products(d, c) == [j \in 1..OutputDim |-> d[j] * c[j]]

(* Outputs v and w, the same step c above and below o, and the derivative d. *)
Nudged(v, w, o, c, d, t) ==
  /\ {o, t, c, v, w, d} \subseteq [1..OutputDim -> Int]
  /\ \A j \in 1..OutputDim : v[j] = o[j] + 1 * c[j]
  /\ \A j \in 1..OutputDim : w[j] = o[j] + (-1) * c[j]
  /\ \A j \in 1..OutputDim : d[j] = 2 * (o[j] - t[j])

(* The difference quotient of the squared error, for a step of the outputs. *)
LEMMA ErrorDifference ==
  ASSUME NEW o, NEW t, NEW c, NEW v, NEW w, NEW d, Nudged(v, w, o, c, d, t)
  PROVE  (SumFunction(Squares(v, t)) - SumFunction(Squares(w, t))) \div 2
            = SumFunction(Products(d, c))
<1> DEFINE A == Squares(v, t)
           B == Squares(w, t)
           P == Products(d, c)
           H == [j \in 1..OutputDim |-> 2 * P[j]]
<1>1. OutputDim \in Nat BY Sizes
<1>2. ASSUME NEW j \in 1..OutputDim
      PROVE  A[j] \in Int /\ B[j] \in Int /\ P[j] \in Int /\ 2 * P[j] = 1 * A[j] + (-1) * B[j]
  <2> DEFINE oj == o[j]
             tj == t[j]
             cj == c[j]
  <2>1. oj \in Int /\ tj \in Int /\ cj \in Int
    <3>1. {o, t, c} \subseteq [1..OutputDim -> Int] BY DEF Nudged
    <3> QED BY <3>1
  <2>2. v[j] = oj + cj /\ w[j] = oj - cj /\ d[j] = 2 * (oj - tj) BY <2>1 DEF Nudged
  <2>3. A[j] = (v[j] - tj) * (v[j] - tj) /\ B[j] = (w[j] - tj) * (w[j] - tj) /\ P[j] = d[j] * cj
    BY DEF Squares, Products
  <2> HIDE DEF oj, tj, cj, A, B, P
  <2>4. A[j] = (oj + cj - tj) * (oj + cj - tj) /\ B[j] = (oj - cj - tj) * (oj - cj - tj)
        /\ P[j] = 2 * (oj - tj) * cj
    BY <2>1, <2>2, <2>3
  <2> QED BY <2>1, <2>4
<1>3. A \in [1..OutputDim -> Int] /\ B \in [1..OutputDim -> Int] /\ P \in [1..OutputDim -> Int]
  <2>1. /\ A = [j \in 1..OutputDim |-> A[j]]
        /\ B = [j \in 1..OutputDim |-> B[j]]
        /\ P = [j \in 1..OutputDim |-> P[j]]
    BY DEF Squares, Products
  <2> HIDE DEF A, B, P
  <2> QED BY <1>2, <2>1
<1> HIDE DEF A, B, P
<1> DEFINE k == -1
           u == 1
           v2 == 2
<1>4. k \in Int /\ u \in Int /\ v2 \in Int /\ IsFiniteSet(1..OutputDim) BY <1>1, FS_Interval
<1>5. \A j \in 1..OutputDim : H[j] = u * A[j] + k * B[j] BY <1>2
<1>6. \A j \in 1..OutputDim : H[j] = v2 * P[j] OBVIOUS
<1>7. DOMAIN H = 1..OutputDim OBVIOUS
<1> HIDE DEF H, k, u, v2
<1>8. Combined(H, A, B, u, k, 1..OutputDim) BY <1>3, <1>4, <1>5 DEF Combined
<1>9. SumFunction(H) = u * SumFunction(A) + k * SumFunction(B) BY <1>3, <1>7, <1>8, SumCombined
<1>10. Scaled(H, P, v2, OutputDim) BY <1>1, <1>3, <1>4, <1>6, <1>7 DEF Scaled
<1>11. SumFunction(H) = v2 * SumFunction(P) BY <1>10, SumScaled
<1>12. SumFunction(A) \in Int /\ SumFunction(B) \in Int /\ SumFunction(P) \in Int
  BY <1>1, <1>3, SumFunctionInt
<1> DEFINE a == SumFunction(A)
           b == SumFunction(B)
           p == SumFunction(P)
<1>13. a \in Int /\ b \in Int /\ p \in Int /\ 2 * p = a - b BY <1>9, <1>11, <1>12 DEF k, u, v2
<1> HIDE DEF a, b, p
<1>14. (a - b) \div 2 = p BY <1>13
<1> QED BY <1>14 DEF a, b, p, A, B, P

(* The hidden layer of n with the units linear that are not dead in h. *)
Act(n, h, x) == [j \in 1..HiddenDim |-> IF h[j] = 0 THEN 0 ELSE SumFunction(In(n, x, j)) + n.B1[j]]

(* QuadraticError, by the weighted sums of the network. *)
LEMMA QuadraticIs ==
  ASSUME NEW m, NEW w, NEW s
  PROVE  LET n == SetWeights(m, w)
             h == hidden(m, s.features)
         IN  QuadraticError(m, w, s) = SumFunction(Squares(Out(n, Act(n, h, s.features)), s.target))
BY DEF QuadraticError, Squares, Out, Into, Act, In

(* The weighted sums, and what the hidden units make of them, are integers. *)
LEMMA InInt ==
  ASSUME NEW m, Numbers(m), NEW x \in [1..InputDim -> Int], NEW q \in 1..HiddenDim
  PROVE  In(m, x, q) \in [1..InputDim -> Int] /\ SumFunction(In(m, x, q)) \in Int
<1>1. \A r \in 1..InputDim : x[r] * m.W1[At(r, q, HiddenDim)] \in Int
  <2> SUFFICES ASSUME NEW r \in 1..InputDim PROVE x[r] * m.W1[At(r, q, HiddenDim)] \in Int
    OBVIOUS
  <2>1. At(r, q, HiddenDim) \in 1..InputDim * HiddenDim BY Sizes, Matrix
  <2>2. x[r] \in Int /\ m.W1[At(r, q, HiddenDim)] \in Int BY <2>1 DEF Numbers
  <2> QED BY <2>2
<1>2. In(m, x, q) \in [1..InputDim -> Int] BY <1>1 DEF In
<1> QED BY <1>2, Sizes, SumFunctionInt

LEMMA ActInt ==
  ASSUME NEW m, Numbers(m), NEW x \in [1..InputDim -> Int], NEW h
  PROVE  Act(m, h, x) \in [1..HiddenDim -> Int]
<1>1. ASSUME NEW q \in 1..HiddenDim PROVE SumFunction(In(m, x, q)) + m.B1[q] \in Int
  <2>1. SumFunction(In(m, x, q)) \in Int /\ m.B1[q] \in Int BY InInt DEF Numbers
  <2> QED BY <2>1
<1> QED BY <1>1 DEF Act

(* Where the network is, Act is its hidden layer. *)
LEMMA ActHidden ==
  ASSUME NEW m, Numbers(m), NEW x \in [1..InputDim -> Int]
  PROVE  Act(m, hidden(m, x), x) = hidden(m, x)
<1> DEFINE h == hidden(m, x)
           z(q) == SumFunction(In(m, x, q)) + m.B1[q]
<1>1. h = [q \in 1..HiddenDim |-> relu(z(q))] BY DEF hidden, In
<1>2. ASSUME NEW q \in 1..HiddenDim PROVE z(q) \in Int
  <2>1. SumFunction(In(m, x, q)) \in Int /\ m.B1[q] \in Int BY InInt DEF Numbers
  <2> QED BY <2>1
<1>3. Act(m, h, x) = [q \in 1..HiddenDim |-> IF h[q] = 0 THEN 0 ELSE z(q)] BY DEF Act
<1> HIDE DEF h, z
<1>4. ASSUME NEW q \in 1..HiddenDim PROVE (IF h[q] = 0 THEN 0 ELSE z(q)) = relu(z(q))
  <2>1. h[q] = relu(z(q)) BY <1>1
  <2> QED BY <1>2, <2>1 DEF relu
<1>5. Act(m, h, x) = h BY <1>1, <1>3, <1>4
<1> QED BY <1>5 DEF h

(* h is f moved along g by e. *)
Moved(h, f, g, e, n) ==
  /\ n \in Nat /\ e \in Int /\ f \in [1..n -> Int] /\ g \in [1..n -> Int] /\ DOMAIN h = 1..n
  /\ \A i \in 1..n : h[i] = f[i] + e * g[i]

LEMMA SumMoved ==
  ASSUME NEW h, NEW f, NEW g, NEW e, NEW n, Moved(h, f, g, e, n)
  PROVE  SumFunction(h) = SumFunction(f) + e * SumFunction(g)
<1> DEFINE u == 1
<1>1. u \in Int /\ e \in Int /\ IsFiniteSet(1..n) BY FS_Interval DEF Moved
<1>2. \A i \in 1..n : f[i] \in Int /\ g[i] \in Int /\ h[i] = u * f[i] + e * g[i]
  <2> SUFFICES ASSUME NEW i \in 1..n
               PROVE  f[i] \in Int /\ g[i] \in Int /\ h[i] = 1 * f[i] + e * g[i]
    OBVIOUS
  <2>1. f[i] \in Int /\ g[i] \in Int /\ h[i] = f[i] + e * g[i] BY DEF Moved
  <2> QED BY <2>1
<1>3. SumFunction(f) \in Int /\ SumFunction(g) \in Int BY SumFunctionInt DEF Moved
<1> HIDE DEF u
<1>4. Combined(h, f, g, u, e, 1..n) BY <1>1, <1>2 DEF Combined
<1>5. SumFunction(h) = u * SumFunction(f) + e * SumFunction(g) BY <1>4, SumCombined DEF Moved
<1>6. u * SumFunction(f) = SumFunction(f) BY <1>3 DEF u
<1> QED BY <1>5, <1>6

(* The network n is m moved along d by e. *)
Along(n, m, d, e) ==
  /\ Numbers(n) /\ Numbers(m) /\ Numbers(d) /\ e \in Int
  /\ \A i \in 1..InputDim * HiddenDim : n.W1[i] = m.W1[i] + e * d.W1[i]
  /\ \A i \in 1..HiddenDim : n.B1[i] = m.B1[i] + e * d.B1[i]
  /\ \A i \in 1..HiddenDim * OutputDim : n.W2[i] = m.W2[i] + e * d.W2[i]
  /\ \A i \in 1..OutputDim : n.B2[i] = m.B2[i] + e * d.B2[i]

(* What a step along d does to the inputs of hidden unit q, ... *)
LEMMA InAlong ==
  ASSUME NEW n, NEW m, NEW d, NEW e, Along(n, m, d, e),
         NEW x \in [1..InputDim -> Int], NEW q \in 1..HiddenDim
  PROVE  SumFunction(In(n, x, q)) = SumFunction(In(m, x, q)) + e * SumFunction(In(d, x, q))
<1> DEFINE f == In(m, x, q)
           g == In(d, x, q)
           h == In(n, x, q)
<1>1. Numbers(n) /\ Numbers(m) /\ Numbers(d) /\ e \in Int BY DEF Along
<1>2. f \in [1..InputDim -> Int] /\ g \in [1..InputDim -> Int] /\ h \in [1..InputDim -> Int]
  BY <1>1, InInt
<1>3. ASSUME NEW r \in 1..InputDim PROVE h[r] = f[r] + e * g[r]
  <2> DEFINE k == At(r, q, HiddenDim)
             xr == x[r]
             mk == m.W1[k]
             dk == d.W1[k]
             nk == n.W1[k]
  <2>1. k \in 1..InputDim * HiddenDim BY Sizes, Matrix
  <2>2. nk = mk + e * dk BY <2>1 DEF Along
  <2>3. mk \in Int /\ dk \in Int /\ xr \in Int BY <1>1, <2>1 DEF Numbers
  <2>4. h[r] = xr * nk /\ f[r] = xr * mk /\ g[r] = xr * dk BY DEF In
  <2> HIDE DEF k, xr, mk, dk, nk, f, g, h
  <2> QED BY <1>1, <2>2, <2>3, <2>4
<1> HIDE DEF f, g, h
<1>4. Moved(h, f, g, e, InputDim) BY <1>1, <1>2, <1>3, Sizes DEF Moved
<1>5. SumFunction(h) = SumFunction(f) + e * SumFunction(g) BY <1>4, SumMoved
<1> QED BY <1>5 DEF f, g, h

(* ... to the hidden layer, ... *)
LEMMA ActAlong ==
  ASSUME NEW n, NEW m, NEW d, NEW e, Along(n, m, d, e), NEW x \in [1..InputDim -> Int], NEW h
  PROVE  \A q \in 1..HiddenDim : Act(n, h, x)[q] = Act(m, h, x)[q] + e * Act(d, h, x)[q]
<1> SUFFICES ASSUME NEW q \in 1..HiddenDim
             PROVE  Act(n, h, x)[q] = Act(m, h, x)[q] + e * Act(d, h, x)[q]
  OBVIOUS
<1>1. Numbers(n) /\ Numbers(m) /\ Numbers(d) /\ e \in Int BY DEF Along
<1> DEFINE a == SumFunction(In(m, x, q))
           b == SumFunction(In(d, x, q))
           c == SumFunction(In(n, x, q))
           ma == m.B1[q]
           da == d.B1[q]
           na == n.B1[q]
<1>2. a \in Int /\ b \in Int /\ c = a + e * b BY <1>1, InInt, InAlong
<1>3. ma \in Int /\ da \in Int /\ na = ma + e * da BY <1>1 DEF Along, Numbers
<1>4. /\ Act(m, h, x)[q] = IF h[q] = 0 THEN 0 ELSE a + ma
      /\ Act(d, h, x)[q] = IF h[q] = 0 THEN 0 ELSE b + da
      /\ Act(n, h, x)[q] = IF h[q] = 0 THEN 0 ELSE c + na
  BY DEF Act
<1> HIDE DEF a, b, c, ma, da, na
<1>5. c + na = (a + ma) + e * (b + da) BY <1>1, <1>2, <1>3
<1>6. e * 0 = 0 BY <1>1
<1> QED BY <1>4, <1>5, <1>6

(* The weights of the output layer stay, its inputs move. *)
LEMMA OutMoved ==
  ASSUME NEW n, NEW m, Numbers(n), Numbers(m), NEW a, NEW b, NEW g, NEW e,
         Moved(b, a, g, e, HiddenDim), b \in [1..HiddenDim -> Int],
         \A i \in 1..HiddenDim * OutputDim : n.W2[i] = m.W2[i],
         \A i \in 1..OutputDim : n.B2[i] = m.B2[i]
  PROVE  \A j \in 1..OutputDim : Out(n, b)[j] = Out(m, a)[j] + e * SumFunction(Into(m, g, j))
<1> SUFFICES ASSUME NEW j \in 1..OutputDim
             PROVE  Out(n, b)[j] = Out(m, a)[j] + e * SumFunction(Into(m, g, j))
  OBVIOUS
<1> DEFINE fb == Into(n, b, j)
           fa == Into(m, a, j)
           fg == Into(m, g, j)
<1>1. e \in Int /\ a \in [1..HiddenDim -> Int] /\ g \in [1..HiddenDim -> Int] BY DEF Moved
<1>2. /\ fb \in [1..HiddenDim -> Int] /\ fa \in [1..HiddenDim -> Int] /\ fg \in [1..HiddenDim -> Int]
      /\ SumFunction(fa) \in Int /\ SumFunction(fg) \in Int
  BY <1>1, IntoInt
<1>3. ASSUME NEW i \in 1..HiddenDim PROVE fb[i] = fa[i] + e * fg[i]
  <2> DEFINE k == At(i, j, OutputDim)
             w == m.W2[k]
             ai == a[i]
             gi == g[i]
             bi == b[i]
  <2>1. k \in 1..HiddenDim * OutputDim BY Sizes, Matrix
  <2>2. w \in Int /\ n.W2[k] = w BY <2>1 DEF Numbers
  <2>3. ai \in Int /\ gi \in Int /\ bi = ai + e * gi BY <1>1 DEF Moved
  <2>4. fb[i] = bi * n.W2[k] /\ fa[i] = ai * w /\ fg[i] = gi * w BY DEF Into
  <2>5. fb[i] = bi * w BY <2>2, <2>4
  <2> HIDE DEF k, w, ai, gi, bi, fa, fb, fg
  <2> QED BY <1>1, <2>2, <2>3, <2>4, <2>5
<1> DEFINE bb == m.B2[j]
<1>4. bb \in Int /\ n.B2[j] = bb BY DEF Numbers
<1>5. Out(n, b)[j] = SumFunction(fb) + n.B2[j] /\ Out(m, a)[j] = SumFunction(fa) + bb BY DEF Out
<1> HIDE DEF fa, fb, fg, bb
<1>6. Moved(fb, fa, fg, e, HiddenDim) BY <1>1, <1>2, <1>3, Sizes DEF Moved
<1>7. SumFunction(fb) = SumFunction(fa) + e * SumFunction(fg) BY <1>6, SumMoved
<1> DEFINE sa == SumFunction(fa)
           sg == SumFunction(fg)
<1>8. Out(n, b)[j] = sa + e * sg + bb /\ Out(m, a)[j] = sa + bb /\ sa \in Int /\ sg \in Int
  BY <1>2, <1>4, <1>5, <1>7
<1> HIDE DEF sa, sg
<1>9. Out(n, b)[j] = Out(m, a)[j] + e * sg BY <1>1, <1>4, <1>8
<1> QED BY <1>9 DEF sg, fg

(* The inputs of the output layer stay, its weights move. *)
LEMMA OutAlong ==
  ASSUME NEW n, NEW m, NEW d, NEW e, Along(n, m, d, e), NEW a \in [1..HiddenDim -> Int]
  PROVE  \A j \in 1..OutputDim : Out(n, a)[j] = Out(m, a)[j] + e * Out(d, a)[j]
<1> SUFFICES ASSUME NEW j \in 1..OutputDim
             PROVE  Out(n, a)[j] = Out(m, a)[j] + e * Out(d, a)[j]
  OBVIOUS
<1> DEFINE fn == Into(n, a, j)
           fm == Into(m, a, j)
           fd == Into(d, a, j)
<1>1. Numbers(n) /\ Numbers(m) /\ Numbers(d) /\ e \in Int BY DEF Along
<1>2. /\ fn \in [1..HiddenDim -> Int] /\ fm \in [1..HiddenDim -> Int] /\ fd \in [1..HiddenDim -> Int]
      /\ SumFunction(fm) \in Int /\ SumFunction(fd) \in Int
  BY <1>1, IntoInt
<1>3. ASSUME NEW i \in 1..HiddenDim PROVE fn[i] = fm[i] + e * fd[i]
  <2> DEFINE k == At(i, j, OutputDim)
             ai == a[i]
             mk == m.W2[k]
             dk == d.W2[k]
             nk == n.W2[k]
  <2>1. k \in 1..HiddenDim * OutputDim BY Sizes, Matrix
  <2>2. nk = mk + e * dk BY <2>1 DEF Along
  <2>3. mk \in Int /\ dk \in Int /\ ai \in Int BY <1>1, <2>1 DEF Numbers
  <2>4. fn[i] = ai * nk /\ fm[i] = ai * mk /\ fd[i] = ai * dk BY DEF Into
  <2> HIDE DEF k, ai, mk, dk, nk, fn, fm, fd
  <2> QED BY <1>1, <2>2, <2>3, <2>4
<1> DEFINE bm == m.B2[j]
           bd == d.B2[j]
           sm == SumFunction(fm)
           sd == SumFunction(fd)
<1>4. bm \in Int /\ bd \in Int /\ n.B2[j] = bm + e * bd BY <1>1 DEF Along, Numbers
<1>5. Out(n, a)[j] = SumFunction(fn) + n.B2[j] /\ Out(m, a)[j] = sm + bm /\ Out(d, a)[j] = sd + bd
  BY DEF Out
<1> HIDE DEF fn, fm, fd
<1>6. Moved(fn, fm, fd, e, HiddenDim) BY <1>1, <1>2, <1>3, Sizes DEF Moved
<1>7. SumFunction(fn) = sm + e * sd BY <1>6, SumMoved
<1> HIDE DEF bm, bd, sm, sd
<1>8. sm \in Int /\ sd \in Int BY <1>2 DEF sm, sd
<1> QED BY <1>1, <1>4, <1>5, <1>7, <1>8

(* The four slices of m are those of the flat vector w. *)
Cut(m, w) ==
  LET n1 == InputDim * HiddenDim
      n2 == n1 + HiddenDim
      n3 == n2 + HiddenDim * OutputDim
  IN  /\ \A k \in 1..n1 : w[k] = m.W1[k]
      /\ \A k \in 1..HiddenDim : w[n1 + k] = m.B1[k]
      /\ \A k \in 1..HiddenDim * OutputDim : w[n2 + k] = m.W2[k]
      /\ \A k \in 1..OutputDim : w[n3 + k] = m.B2[k]

(* Cut inverts Weights, and SetWeights inverts it. *)
LEMMA WeightsCut ==
  ASSUME NEW m, Shape(m) PROVE Cut(m, Weights(m))
BY WeightsAre DEF Cut

LEMMA SetWeightsCut ==
  ASSUME NEW m, Numbers(m), NEW w \in [1..NumWeights -> Int]
  PROVE  Numbers(SetWeights(m, w)) /\ Cut(SetWeights(m, w), w)
<1>1. Slice(w, NumWeights) BY DEF Slice
<1>2. Shape(SetWeights(m, w)) /\ Weights(SetWeights(m, w)) = w
  BY <1>1, NumbersShape, SetWeightsExact
<1> QED BY <1>2, NumbersWeights, WeightsCut

(* The direction of weight k. *)
Unit(k) == [i \in 1..NumWeights |-> IF i = k THEN 1 ELSE 0]

(* SetWeights with one weight more or less is a step along Unit. *)
LEMMA NudgeAlong ==
  ASSUME NEW m, Numbers(m), NEW k \in 1..NumWeights, NEW e \in Int, NEW v \in [1..NumWeights -> Int],
         \A i \in 1..NumWeights : v[i] = Weights(m)[i] + e * Unit(k)[i]
  PROVE  Along(SetWeights(m, v), m, SetWeights(m, Unit(k)), e)
<1> DEFINE n == SetWeights(m, v)
           d == SetWeights(m, Unit(k))
           u == Unit(k)
           w == Weights(m)
           na == InputDim * HiddenDim
           nb == HiddenDim
           nx == HiddenDim * OutputDim
           ny == OutputDim
<1>1. na \in Nat /\ nb \in Nat /\ nx \in Nat /\ ny \in Nat /\ NumWeights = na + nb + nx + ny
  BY Sizes
<1>2. u \in [1..NumWeights -> Int] BY DEF Unit
<1>3. Shape(m) BY NumbersShape
<1>4. \A i \in 1..NumWeights : v[i] = w[i] + e * u[i] OBVIOUS
<1>5. /\ \A i \in 1..na : w[i] = m.W1[i]
      /\ \A i \in 1..nb : w[na + i] = m.B1[i]
      /\ \A i \in 1..nx : w[na + nb + i] = m.W2[i]
      /\ \A i \in 1..ny : w[na + nb + nx + i] = m.B2[i]
  BY <1>3, WeightsCut DEF Cut
<1>6. /\ Numbers(n)
      /\ \A i \in 1..na : v[i] = n.W1[i]
      /\ \A i \in 1..nb : v[na + i] = n.B1[i]
      /\ \A i \in 1..nx : v[na + nb + i] = n.W2[i]
      /\ \A i \in 1..ny : v[na + nb + nx + i] = n.B2[i]
  <2>1. Numbers(n) /\ Cut(n, v) BY SetWeightsCut
  <2> HIDE DEF n
  <2> QED BY <2>1 DEF Cut
<1>7. /\ Numbers(d)
      /\ \A i \in 1..na : u[i] = d.W1[i]
      /\ \A i \in 1..nb : u[na + i] = d.B1[i]
      /\ \A i \in 1..nx : u[na + nb + i] = d.W2[i]
      /\ \A i \in 1..ny : u[na + nb + nx + i] = d.B2[i]
  <2>1. Numbers(d) /\ Cut(d, u) BY <1>2, SetWeightsCut
  <2> HIDE DEF d, u
  <2> QED BY <2>1 DEF Cut
<1>8. Along(n, m, d, e) <=>
        /\ Numbers(n) /\ Numbers(m) /\ Numbers(d) /\ e \in Int
        /\ \A i \in 1..na : n.W1[i] = m.W1[i] + e * d.W1[i]
        /\ \A i \in 1..nb : n.B1[i] = m.B1[i] + e * d.B1[i]
        /\ \A i \in 1..nx : n.W2[i] = m.W2[i] + e * d.W2[i]
        /\ \A i \in 1..ny : n.B2[i] = m.B2[i] + e * d.B2[i]
  BY DEF Along
<1> HIDE DEF n, d, u, w, na, nb, nx, ny
<1>9. \A i \in 1..na : n.W1[i] = m.W1[i] + e * d.W1[i]
  <2> SUFFICES ASSUME NEW i \in 1..na PROVE n.W1[i] = m.W1[i] + e * d.W1[i] OBVIOUS
  <2>1. i \in 1..NumWeights BY <1>1
  <2> QED BY <1>4, <1>5, <1>6, <1>7, <2>1
<1>10. \A i \in 1..nb : n.B1[i] = m.B1[i] + e * d.B1[i]
  <2> SUFFICES ASSUME NEW i \in 1..nb PROVE n.B1[i] = m.B1[i] + e * d.B1[i] OBVIOUS
  <2>1. na + i \in 1..NumWeights BY <1>1
  <2> QED BY <1>4, <1>5, <1>6, <1>7, <2>1
<1>11. \A i \in 1..nx : n.W2[i] = m.W2[i] + e * d.W2[i]
  <2> SUFFICES ASSUME NEW i \in 1..nx PROVE n.W2[i] = m.W2[i] + e * d.W2[i] OBVIOUS
  <2>1. na + nb + i \in 1..NumWeights BY <1>1
  <2> QED BY <1>4, <1>5, <1>6, <1>7, <2>1
<1>12. \A i \in 1..ny : n.B2[i] = m.B2[i] + e * d.B2[i]
  <2> SUFFICES ASSUME NEW i \in 1..ny PROVE n.B2[i] = m.B2[i] + e * d.B2[i] OBVIOUS
  <2>1. na + nb + nx + i \in 1..NumWeights BY <1>1
  <2> QED BY <1>4, <1>5, <1>6, <1>7, <2>1
<1>13. Along(n, m, d, e) BY <1>6, <1>7, <1>8, <1>9, <1>10, <1>11, <1>12
<1> QED BY <1>13 DEF n, d

(* Along d the outputs move along c, as long as the dead units are dead. *)
Linear(m, d, x, c) ==
  \A n : \A e \in Int : Along(n, m, d, e) =>
    \A j \in 1..OutputDim : Out(n, Act(n, hidden(m, x), x))[j] = Predict(m, x)[j] + e * c[j]

(* The outputs are integers. *)
LEMMA OutInt ==
  ASSUME NEW n, Numbers(n), NEW a \in [1..HiddenDim -> Int]
  PROVE  Out(n, a) \in [1..OutputDim -> Int]
<1>1. ASSUME NEW j \in 1..OutputDim PROVE SumFunction(Into(n, a, j)) + n.B2[j] \in Int
  <2>1. SumFunction(Into(n, a, j)) \in Int /\ n.B2[j] \in Int BY IntoInt DEF Numbers
  <2> QED BY <2>1
<1> QED BY <1>1 DEF Out

(* Derivative, where the outputs are linear along Unit(k). *)
LEMMA DerivativeIs ==
  ASSUME NEW m, Numbers(m), NEW s \in Samples, NEW k \in 1..NumWeights,
         NEW c \in [1..OutputDim -> Int], Linear(m, SetWeights(m, Unit(k)), s.features, c)
  PROVE  Derivative(m, s, k) = SumFunction(Products(Delta(m, s.features, s.target), c))
<1> DEFINE x == s.features
           t == s.target
           w == Weights(m)
           vp == [w EXCEPT ![k] = @ + 1]
           vm == [w EXCEPT ![k] = @ - 1]
           np == SetWeights(m, vp)
           nm == SetWeights(m, vm)
           d == SetWeights(m, Unit(k))
           h == hidden(m, x)
           op == Out(np, Act(np, h, x))
           om == Out(nm, Act(nm, h, x))
           o == Predict(m, x)
           D == Delta(m, x, t)
           ep == 1
           em == -1
<1>1. x \in [1..InputDim -> Int] /\ t \in [1..OutputDim -> Int] BY DEF Samples
<1>2. w \in [1..NumWeights -> Int] BY NumbersShape, NumbersWeights
<1>3. Derivative(m, s, k) = (QuadraticError(m, vp, s) - QuadraticError(m, vm, s)) \div 2
  BY DEF Derivative
<1>4. /\ QuadraticError(m, vp, s) = SumFunction(Squares(op, t))
      /\ QuadraticError(m, vm, s) = SumFunction(Squares(om, t))
  BY QuadraticIs
<1>5. /\ vp \in [1..NumWeights -> Int] /\ vm \in [1..NumWeights -> Int]
      /\ \A i \in 1..NumWeights : /\ vp[i] = w[i] + ep * Unit(k)[i]
                                  /\ vm[i] = w[i] + em * Unit(k)[i]
  <2> HIDE DEF w
  <2>1. vp \in [1..NumWeights -> Int] /\ vm \in [1..NumWeights -> Int] BY <1>2
  <2>2. ASSUME NEW i \in 1..NumWeights
        PROVE  vp[i] = w[i] + 1 * Unit(k)[i] /\ vm[i] = w[i] + (-1) * Unit(k)[i]
    <3>1. w[i] \in Int BY <1>2
    <3>2. Unit(k)[i] = IF i = k THEN 1 ELSE 0 BY DEF Unit
    <3>3. CASE i = k BY <1>2, <3>1, <3>2, <3>3
    <3>4. CASE i # k BY <1>2, <3>1, <3>2, <3>4
    <3> QED BY <3>3, <3>4
  <2> QED BY <2>1, <2>2
<1>6. ep \in Int /\ em \in Int OBVIOUS
<1> HIDE DEF vp, vm, ep, em
<1>7. Along(np, m, d, ep) /\ Along(nm, m, d, em) BY <1>5, <1>6, NudgeAlong
<1> HIDE DEF np, nm, d
<1>8. /\ \A j \in 1..OutputDim : op[j] = o[j] + ep * c[j]
      /\ \A j \in 1..OutputDim : om[j] = o[j] + em * c[j]
  BY <1>6, <1>7 DEF Linear, d
<1>9. Numbers(np) /\ Numbers(nm) BY <1>7 DEF Along
<1>10. op \in [1..OutputDim -> Int] /\ om \in [1..OutputDim -> Int]
  <2>1. Act(np, h, x) \in [1..HiddenDim -> Int] /\ Act(nm, h, x) \in [1..HiddenDim -> Int]
    BY <1>1, <1>9, ActInt
  <2> QED BY <1>9, <2>1, OutInt
<1>11. o \in [1..OutputDim -> Int] BY <1>1, PredictInt
<1>12. D \in [1..OutputDim -> Int] /\ \A j \in 1..OutputDim : D[j] = 2 * (o[j] - t[j])
  <2>1. D \in [1..OutputDim -> Int] BY <1>1, DeltaInt
  <2> QED BY <2>1 DEF Delta
<1> HIDE DEF x, t, op, om, o, D
<1>13. (SumFunction(Squares(op, t)) - SumFunction(Squares(om, t))) \div 2 = SumFunction(Products(D, c))
  <2>1. /\ \A j \in 1..OutputDim : op[j] = o[j] + 1 * c[j]
        /\ \A j \in 1..OutputDim : om[j] = o[j] + (-1) * c[j]
    BY <1>8 DEF ep, em
  <2>2. {o, t, c, op, om, D} \subseteq [1..OutputDim -> Int] BY <1>1, <1>10, <1>11, <1>12
  <2>3. Nudged(op, om, o, c, D, t) BY <1>12, <2>1, <2>2 DEF Nudged
  <2> QED BY <2>3, ErrorDifference
<1> QED BY <1>3, <1>4, <1>13 DEF D, x, t

(* A direction in the weights of the hidden layer. *)
LEMMA LinearHidden ==
  ASSUME NEW m, NEW d, Numbers(m), Numbers(d), NEW x \in [1..InputDim -> Int],
         \A i \in 1..HiddenDim * OutputDim : d.W2[i] = 0,
         \A i \in 1..OutputDim : d.B2[i] = 0,
         NEW c, \A j \in 1..OutputDim : c[j] = SumFunction(Into(m, Act(d, hidden(m, x), x), j))
  PROVE  Linear(m, d, x, c)
<1> DEFINE h == hidden(m, x)
           g == Act(d, h, x)
<1>1. ASSUME NEW n, NEW e \in Int, Along(n, m, d, e)
      PROVE  \A j \in 1..OutputDim : Out(n, Act(n, h, x))[j] = Predict(m, x)[j] + e * c[j]
  <2> DEFINE b == Act(n, h, x)
  <2>1. Numbers(n) BY <1>1 DEF Along
  <2>2. h \in [1..HiddenDim -> Int] /\ Act(m, h, x) = h BY HiddenInt, ActHidden
  <2>3. g \in [1..HiddenDim -> Int] /\ b \in [1..HiddenDim -> Int] BY <2>1, ActInt
  <2>4. \A q \in 1..HiddenDim : b[q] = h[q] + e * g[q]
    <3>1. \A q \in 1..HiddenDim : Act(n, h, x)[q] = Act(m, h, x)[q] + e * Act(d, h, x)[q]
      BY <1>1, ActAlong
    <3> HIDE DEF h
    <3> QED BY <2>2, <3>1
  <2>5. Predict(m, x) = Out(m, h) BY PredictIs
  <2>6. \A j \in 1..OutputDim : c[j] = SumFunction(Into(m, g, j)) OBVIOUS
  <2> HIDE DEF h, g, b
  <2>7. Moved(b, h, g, e, HiddenDim) BY <2>2, <2>3, <2>4, Sizes DEF Moved
  <2>8. \A i \in 1..HiddenDim * OutputDim : n.W2[i] = m.W2[i]
    <3> SUFFICES ASSUME NEW i \in 1..HiddenDim * OutputDim PROVE n.W2[i] = m.W2[i] OBVIOUS
    <3>1. n.W2[i] = m.W2[i] + e * d.W2[i] /\ d.W2[i] = 0 BY <1>1 DEF Along
    <3>2. m.W2[i] \in Int BY DEF Numbers
    <3> QED BY <3>1, <3>2
  <2>9. \A i \in 1..OutputDim : n.B2[i] = m.B2[i]
    <3> SUFFICES ASSUME NEW i \in 1..OutputDim PROVE n.B2[i] = m.B2[i] OBVIOUS
    <3>1. n.B2[i] = m.B2[i] + e * d.B2[i] /\ d.B2[i] = 0 BY <1>1 DEF Along
    <3>2. m.B2[i] \in Int BY DEF Numbers
    <3> QED BY <3>1, <3>2
  <2>10. \A j \in 1..OutputDim : Out(n, b)[j] = Out(m, h)[j] + e * SumFunction(Into(m, g, j))
    BY <2>1, <2>3, <2>7, <2>8, <2>9, OutMoved
  <2>11. \A j \in 1..OutputDim : Out(n, b)[j] = Predict(m, x)[j] + e * c[j]
    BY <2>5, <2>6, <2>10
  <2> QED BY <2>11 DEF b
<1> QED BY <1>1 DEF Linear, h

(* A direction in the weights of the output layer. *)
LEMMA LinearOutput ==
  ASSUME NEW m, NEW d, Numbers(m), Numbers(d), NEW x \in [1..InputDim -> Int],
         \A i \in 1..InputDim * HiddenDim : d.W1[i] = 0,
         \A i \in 1..HiddenDim : d.B1[i] = 0
  PROVE  Linear(m, d, x, Out(d, hidden(m, x)))
<1> DEFINE h == hidden(m, x)
<1>1. h \in [1..HiddenDim -> Int] /\ Act(m, h, x) = h BY HiddenInt, ActHidden
<1>2. ASSUME NEW q \in 1..HiddenDim PROVE Act(d, h, x)[q] = 0
  <2>1. \A r \in 1..InputDim : In(d, x, q)[r] = 0
    <3> SUFFICES ASSUME NEW r \in 1..InputDim PROVE In(d, x, q)[r] = 0 OBVIOUS
    <3>1. At(r, q, HiddenDim) \in 1..InputDim * HiddenDim BY Sizes, Matrix
    <3>2. d.W1[At(r, q, HiddenDim)] = 0 /\ x[r] \in Int BY <3>1
    <3>3. In(d, x, q)[r] = x[r] * d.W1[At(r, q, HiddenDim)] BY DEF In
    <3> QED BY <3>2, <3>3
  <2>2. DOMAIN In(d, x, q) = 1..InputDim BY DEF In
  <2>3. SumFunction(In(d, x, q)) = 0 BY <2>1, <2>2, Sizes, SumZero
  <2>4. Act(d, h, x)[q] = IF h[q] = 0 THEN 0 ELSE SumFunction(In(d, x, q)) + d.B1[q] BY DEF Act
  <2>5. d.B1[q] = 0 OBVIOUS
  <2> QED BY <2>3, <2>4, <2>5
<1>3. ASSUME NEW n, NEW e \in Int, Along(n, m, d, e)
      PROVE  \A j \in 1..OutputDim : Out(n, Act(n, h, x))[j] = Predict(m, x)[j] + e * Out(d, h)[j]
  <2>1. \A q \in 1..HiddenDim : Act(n, h, x)[q] = Act(m, h, x)[q] + e * Act(d, h, x)[q]
    BY <1>3, ActAlong
  <2>2. ASSUME NEW q \in 1..HiddenDim PROVE Act(n, h, x)[q] = h[q]
    <3>1. Act(n, h, x)[q] = h[q] + e * 0 BY <1>1, <1>2, <2>1
    <3>2. h[q] \in Int BY <1>1
    <3> HIDE DEF h
    <3> QED BY <3>1, <3>2
  <2>3. Act(n, h, x) = [q \in 1..HiddenDim |-> Act(n, h, x)[q]] BY DEF Act
  <2> HIDE DEF h
  <2>4. Act(n, h, x) = h BY <1>1, <2>2, <2>3
  <2>5. \A j \in 1..OutputDim : Out(n, h)[j] = Out(m, h)[j] + e * Out(d, h)[j]
    BY <1>1, <1>3, OutAlong
  <2>6. Predict(m, x) = Out(m, h) BY PredictIs DEF h
  <2> QED BY <2>4, <2>5, <2>6
<1> QED BY <1>3 DEF Linear, h

(* The derivative by a weight of hidden unit q: what comes back to it. *)
LEMMA HiddenGradient ==
  ASSUME NEW m, Numbers(m), NEW D \in [1..OutputDim -> Int], NEW q \in 1..HiddenDim,
         NEW g, OnlyAt(g, HiddenDim, q)
  PROVE  LET c == [j \in 1..OutputDim |-> SumFunction(Into(m, g, j))]
         IN  /\ c \in [1..OutputDim -> Int]
             /\ SumFunction(Products(D, c)) = g[q] * SumFunction(Back(m, D, q))
<1> DEFINE c == [j \in 1..OutputDim |-> SumFunction(Into(m, g, j))]
           P == Products(D, c)
           B == Back(m, D, q)
<1>1. g \in [1..HiddenDim -> Int] /\ g[q] \in Int /\ HiddenDim \in Nat BY DEF OnlyAt
<1>2. ASSUME NEW j \in 1..OutputDim
      PROVE  c[j] \in Int /\ c[j] = g[q] * m.W2[At(q, j, OutputDim)]
  <2> DEFINE f == Into(m, g, j)
  <2>1. f \in [1..HiddenDim -> Int] BY <1>1, IntoInt
  <2>2. ASSUME NEW i \in 1..HiddenDim, i # q PROVE f[i] = 0
    <3>1. At(i, j, OutputDim) \in 1..HiddenDim * OutputDim BY Sizes, Matrix
    <3>2. m.W2[At(i, j, OutputDim)] \in Int BY <3>1 DEF Numbers
    <3>3. f[i] = g[i] * m.W2[At(i, j, OutputDim)] BY DEF Into
    <3>4. g[i] = 0 BY <2>2 DEF OnlyAt
    <3> QED BY <3>2, <3>3, <3>4
  <2>3. f[q] = g[q] * m.W2[At(q, j, OutputDim)] BY DEF Into
  <2>4. f[q] \in Int BY <2>1
  <2>5. c[j] = SumFunction(f) OBVIOUS
  <2> HIDE DEF f
  <2>6. OnlyAt(f, HiddenDim, q) BY <1>1, <2>1, <2>2 DEF OnlyAt
  <2>7. SumFunction(f) = f[q] BY <2>6, SumSingle
  <2> QED BY <2>3, <2>4, <2>5, <2>7
<1>3. c \in [1..OutputDim -> Int] BY <1>2
<1>4. B \in [1..OutputDim -> Int] BY BackInt
<1>5. ASSUME NEW j \in 1..OutputDim PROVE P[j] = g[q] * B[j]
  <2> DEFINE w == m.W2[At(q, j, OutputDim)]
             v == g[q]
             dj == D[j]
  <2>1. At(q, j, OutputDim) \in 1..HiddenDim * OutputDim BY Sizes, Matrix
  <2>2. w \in Int /\ v \in Int /\ dj \in Int BY <1>1, <2>1 DEF Numbers
  <2>3. P[j] = dj * c[j] BY DEF Products
  <2>4. c[j] = v * w BY <1>2
  <2>5. B[j] = dj * w BY DEF Back
  <2> HIDE DEF c, w, v, dj, P, B
  <2>6. P[j] = v * B[j] BY <2>2, <2>3, <2>4, <2>5
  <2> QED BY <2>6 DEF v
<1>6. DOMAIN P = 1..OutputDim BY DEF Products
<1> HIDE DEF c, P, B
<1>7. Scaled(P, B, g[q], OutputDim) BY <1>1, <1>4, <1>5, <1>6, Sizes DEF Scaled
<1>8. SumFunction(P) = g[q] * SumFunction(B) BY <1>7, SumScaled
<1> QED BY <1>3, <1>8 DEF c, P, B

(* The derivative by a weight of output unit r. *)
LEMMA OutputGradient ==
  ASSUME NEW D \in [1..OutputDim -> Int], NEW r \in 1..OutputDim, NEW c, OnlyAt(c, OutputDim, r)
  PROVE  SumFunction(Products(D, c)) = D[r] * c[r]
<1> DEFINE P == Products(D, c)
<1>1. \A j \in 1..OutputDim : P[j] = D[j] * c[j] BY DEF Products
<1>2. DOMAIN P = 1..OutputDim /\ P = [j \in 1..OutputDim |-> P[j]] BY DEF Products
<1> HIDE DEF P
<1>3. ASSUME NEW j \in 1..OutputDim PROVE P[j] \in Int /\ (j # r => P[j] = 0)
  <2>1. D[j] \in Int /\ c[j] \in Int /\ (j # r => c[j] = 0) BY DEF OnlyAt
  <2> QED BY <1>1, <2>1
<1>4. P \in [1..OutputDim -> Int] BY <1>2, <1>3
<1>5. OnlyAt(P, OutputDim, r) BY <1>3, <1>4 DEF OnlyAt
<1>6. SumFunction(P) = P[r] BY <1>5, SumSingle
<1> QED BY <1>1, <1>6 DEF P

(* Place i of the network whose only weight is the one at place k. *)
LEMMA UnitSlices ==
  ASSUME NEW m, Numbers(m), NEW k \in 1..NumWeights, NEW d, d = SetWeights(m, Unit(k))
  PROVE  LET n1 == InputDim * HiddenDim
             n2 == n1 + HiddenDim
             n3 == n2 + HiddenDim * OutputDim
         IN  /\ Numbers(d)
             /\ \A i \in 1..n1 : d.W1[i] = IF i = k THEN 1 ELSE 0
             /\ \A i \in 1..HiddenDim : d.B1[i] = IF n1 + i = k THEN 1 ELSE 0
             /\ \A i \in 1..HiddenDim * OutputDim : d.W2[i] = IF n2 + i = k THEN 1 ELSE 0
             /\ \A i \in 1..OutputDim : d.B2[i] = IF n3 + i = k THEN 1 ELSE 0
<1> DEFINE u == Unit(k)
           na == InputDim * HiddenDim
           nb == HiddenDim
           nx == HiddenDim * OutputDim
           ny == OutputDim
<1>1. na \in Nat /\ nb \in Nat /\ nx \in Nat /\ ny \in Nat /\ NumWeights = na + nb + nx + ny
  BY Sizes
<1>2. u \in [1..NumWeights -> Int] BY DEF Unit
<1>3. Numbers(d) /\ Cut(d, u) BY <1>2, SetWeightsCut
<1>4. \A i \in 1..NumWeights : u[i] = IF i = k THEN 1 ELSE 0 BY DEF Unit
<1> HIDE DEF u
<1>5. /\ \A i \in 1..na : u[i] = d.W1[i]
      /\ \A i \in 1..nb : u[na + i] = d.B1[i]
      /\ \A i \in 1..nx : u[na + nb + i] = d.W2[i]
      /\ \A i \in 1..ny : u[na + nb + nx + i] = d.B2[i]
  BY <1>3 DEF Cut
<1> HIDE DEF na, nb, nx, ny
<1>6. /\ \A i \in 1..na : i \in 1..NumWeights
      /\ \A i \in 1..nb : na + i \in 1..NumWeights
      /\ \A i \in 1..nx : na + nb + i \in 1..NumWeights
      /\ \A i \in 1..ny : na + nb + nx + i \in 1..NumWeights
  BY <1>1
<1>7. /\ \A i \in 1..na : d.W1[i] = IF i = k THEN 1 ELSE 0
      /\ \A i \in 1..nb : d.B1[i] = IF na + i = k THEN 1 ELSE 0
      /\ \A i \in 1..nx : d.W2[i] = IF na + nb + i = k THEN 1 ELSE 0
      /\ \A i \in 1..ny : d.B2[i] = IF na + nb + nx + i = k THEN 1 ELSE 0
  BY <1>4, <1>5, <1>6
<1> QED BY <1>3, <1>7 DEF na, nb, nx, ny

(* The derivative by a weight that goes into a hidden unit, ... *)
LEMMA HiddenDerivative ==
  ASSUME NEW m, Numbers(m), NEW s \in Samples, NEW k \in 1..NumWeights,
         NEW d, d = SetWeights(m, Unit(k)), Numbers(d),
         \A i \in 1..HiddenDim * OutputDim : d.W2[i] = 0,
         \A i \in 1..OutputDim : d.B2[i] = 0,
         NEW q \in 1..HiddenDim, NEW v \in Int,
         \A i \in 1..HiddenDim :
           SumFunction(In(d, s.features, i)) + d.B1[i] = IF i = q THEN v ELSE 0
  PROVE  Derivative(m, s, k)
           = v * Blame(m, hidden(m, s.features), Delta(m, s.features, s.target))[q]
<1> DEFINE x == s.features
           t == s.target
           h == hidden(m, x)
           D == Delta(m, x, t)
           g == Act(d, h, x)
           c == [j \in 1..OutputDim |-> SumFunction(Into(m, g, j))]
<1>1. x \in [1..InputDim -> Int] /\ t \in [1..OutputDim -> Int] BY DEF Samples
<1>2. h \in [1..HiddenDim -> Int] /\ h[q] >= 0 BY <1>1, HiddenInt
<1>3. D \in [1..OutputDim -> Int] BY <1>1, DeltaInt
<1>4. g \in [1..HiddenDim -> Int] BY <1>1, ActInt
<1>5. \A i \in 1..HiddenDim :
        g[i] = IF h[i] = 0 THEN 0 ELSE SumFunction(In(d, x, i)) + d.B1[i]
  BY DEF Act
<1>6. \A i \in 1..HiddenDim : SumFunction(In(d, x, i)) + d.B1[i] = IF i = q THEN v ELSE 0
  OBVIOUS
<1>7. Linear(m, d, x, c)
  <2>1. \A j \in 1..OutputDim : c[j] = SumFunction(Into(m, Act(d, hidden(m, x), x), j)) OBVIOUS
  <2> HIDE DEF c, x
  <2> QED BY <1>1, <2>1, LinearHidden
<1>8. Blame(m, h, D)[q] = IF h[q] > 0 THEN SumFunction(Back(m, D, q)) ELSE 0 BY DEF Blame
<1>9. SumFunction(Back(m, D, q)) \in Int BY <1>3, BackInt
<1> HIDE DEF g, h, D
<1>10. OnlyAt(g, HiddenDim, q) BY <1>4, <1>5, <1>6, Sizes DEF OnlyAt
<1>11. c \in [1..OutputDim -> Int] /\ SumFunction(Products(D, c)) = g[q] * SumFunction(Back(m, D, q))
  BY <1>3, <1>10, HiddenGradient
<1> HIDE DEF c
<1>12. Derivative(m, s, k) = SumFunction(Products(D, c)) BY <1>7, <1>11, DerivativeIs DEF D
<1>13. g[q] = IF h[q] = 0 THEN 0 ELSE v BY <1>5, <1>6
<1> DEFINE z == SumFunction(Back(m, D, q))
<1>14. h[q] \in Int BY <1>2
<1> HIDE DEF z, x
<1>15. g[q] * z = v * (IF h[q] > 0 THEN z ELSE 0)
  <2>1. z \in Int BY <1>9 DEF z
  <2>2. CASE h[q] = 0 BY <1>13, <2>1, <2>2
  <2>3. CASE h[q] > 0 BY <1>13, <1>14, <2>1, <2>3
  <2> QED BY <1>2, <1>14, <2>2, <2>3
<1>16. Derivative(m, s, k) = v * Blame(m, h, D)[q] BY <1>8, <1>11, <1>12, <1>15 DEF z
<1> QED BY <1>16 DEF h, D, x

(* ... which is a number of W1 ... *)
LEMMA DerivativeW1 ==
  ASSUME NEW m, Numbers(m), NEW s \in Samples, NEW k \in 1..InputDim * HiddenDim
  PROVE  Derivative(m, s, k)
           = s.features[Row(k, HiddenDim)]
               * Blame(m, hidden(m, s.features), Delta(m, s.features, s.target))[Col(k, HiddenDim)]
<1> DEFINE d == SetWeights(m, Unit(k))
           na == InputDim * HiddenDim
           nx == HiddenDim * OutputDim
           x == s.features
           r == Row(k, HiddenDim)
           q == Col(k, HiddenDim)
<1>1. x \in [1..InputDim -> Int] BY DEF Samples
<1>2. /\ na \in Nat /\ HiddenDim \in Nat /\ nx \in Nat /\ OutputDim \in Nat
      /\ NumWeights = na + HiddenDim + nx + OutputDim
  BY Sizes
<1>3. r \in 1..InputDim /\ q \in 1..HiddenDim /\ At(r, q, HiddenDim) = k
  BY Sizes, MatrixPlaces
<1>4. k \in 1..na OBVIOUS
<1>5. k \in 1..NumWeights
  <2> HIDE DEF na, nx
  <2> QED BY <1>2, <1>4
<1>6. /\ Numbers(d)
      /\ \A i \in 1..na : d.W1[i] = IF i = k THEN 1 ELSE 0
      /\ \A i \in 1..HiddenDim : d.B1[i] = IF na + i = k THEN 1 ELSE 0
      /\ \A i \in 1..nx : d.W2[i] = IF na + HiddenDim + i = k THEN 1 ELSE 0
      /\ \A i \in 1..OutputDim : d.B2[i] = IF na + HiddenDim + nx + i = k THEN 1 ELSE 0
  BY <1>5, UnitSlices
<1>7. \A i \in 1..InputDim : \A j \in 1..HiddenDim :
        /\ At(i, j, HiddenDim) \in 1..na
        /\ (At(i, j, HiddenDim) = k <=> i = r /\ j = q)
  BY <1>3, Sizes, Matrix
<1> HIDE DEF r, q, x
<1>8. /\ \A i \in 1..HiddenDim : d.B1[i] = 0
      /\ \A i \in 1..nx : d.W2[i] = 0
      /\ \A i \in 1..OutputDim : d.B2[i] = 0
  <2> HIDE DEF na, nx, d
  <2> QED BY <1>2, <1>4, <1>6
<1>9. ASSUME NEW j \in 1..HiddenDim
      PROVE  SumFunction(In(d, x, j)) + d.B1[j] = IF j = q THEN x[r] ELSE 0
  <2> DEFINE f == In(d, x, j)
  <2>1. f \in [1..InputDim -> Int] BY <1>1, <1>6, InInt
  <2>2. \A i \in 1..InputDim : f[i] = x[i] * d.W1[At(i, j, HiddenDim)] BY DEF In
  <2> HIDE DEF d, na, nx, f
  <2>3. \A i \in 1..InputDim : d.W1[At(i, j, HiddenDim)] = IF i = r /\ j = q THEN 1 ELSE 0
    BY <1>6, <1>7
  <2>4. ASSUME NEW i \in 1..InputDim PROVE f[i] = IF i = r /\ j = q THEN x[r] ELSE 0
    <3>1. x[i] \in Int /\ f[i] = x[i] * (IF i = r /\ j = q THEN 1 ELSE 0) BY <1>1, <2>2, <2>3
    <3>2. CASE i = r /\ j = q BY <3>1, <3>2
    <3>3. CASE ~(i = r /\ j = q) BY <3>1, <3>3
    <3> QED BY <3>2, <3>3
  <2>5. x[r] \in Int BY <1>1, <1>3
  <2>6. SumFunction(f) = IF j = q THEN x[r] ELSE 0
    <3>1. OnlyAt(f, InputDim, r) BY <1>3, <2>1, <2>4, Sizes DEF OnlyAt
    <3>2. SumFunction(f) = f[r] BY <3>1, SumSingle
    <3> QED BY <1>3, <2>4, <3>2
  <2>7. d.B1[j] = 0 BY <1>8
  <2>8. SumFunction(f) + d.B1[j] = IF j = q THEN x[r] ELSE 0 BY <2>5, <2>6, <2>7
  <2> QED BY <2>8 DEF f
<1>10. x[r] \in Int BY <1>1, <1>3
<1> DEFINE v == x[r]
           e == d
<1>11. v \in Int /\ e = SetWeights(m, Unit(k)) /\ Numbers(e) BY <1>6, <1>10
<1>12. /\ \A i \in 1..HiddenDim * OutputDim : e.W2[i] = 0
       /\ \A i \in 1..OutputDim : e.B2[i] = 0
       /\ \A i \in 1..HiddenDim : SumFunction(In(e, s.features, i)) + e.B1[i] = IF i = q THEN v ELSE 0
  BY <1>8, <1>9 DEF x
<1> HIDE DEF v, e, d
<1>13. Derivative(m, s, k)
         = v * Blame(m, hidden(m, s.features), Delta(m, s.features, s.target))[q]
  BY <1>3, <1>5, <1>11, <1>12, HiddenDerivative
<1> QED BY <1>13 DEF v, x, r, q

(* ... or of B1; ... *)
LEMMA DerivativeB1 ==
  ASSUME NEW m, Numbers(m), NEW s \in Samples, NEW q \in 1..HiddenDim
  PROVE  Derivative(m, s, InputDim * HiddenDim + q)
           = Blame(m, hidden(m, s.features), Delta(m, s.features, s.target))[q]
<1> DEFINE na == InputDim * HiddenDim
           nx == HiddenDim * OutputDim
           k == na + q
           d == SetWeights(m, Unit(k))
           x == s.features
           v == 1
           B == Blame(m, hidden(m, s.features), Delta(m, s.features, s.target))
<1>1. x \in [1..InputDim -> Int] /\ s.target \in [1..OutputDim -> Int] BY DEF Samples
<1>2. /\ na \in Nat /\ HiddenDim \in Nat /\ nx \in Nat /\ OutputDim \in Nat
      /\ NumWeights = na + HiddenDim + nx + OutputDim
  BY Sizes
<1>3. k \in 1..NumWeights
  <2> HIDE DEF na, nx
  <2> QED BY <1>2
<1>4. /\ Numbers(d)
      /\ \A i \in 1..na : d.W1[i] = IF i = k THEN 1 ELSE 0
      /\ \A i \in 1..HiddenDim : d.B1[i] = IF na + i = k THEN 1 ELSE 0
      /\ \A i \in 1..nx : d.W2[i] = IF na + HiddenDim + i = k THEN 1 ELSE 0
      /\ \A i \in 1..OutputDim : d.B2[i] = IF na + HiddenDim + nx + i = k THEN 1 ELSE 0
  <2> HIDE DEF k
  <2> QED BY <1>3, UnitSlices
<1>5. /\ \A i \in 1..na : d.W1[i] = 0
      /\ \A i \in 1..HiddenDim : d.B1[i] = IF i = q THEN 1 ELSE 0
      /\ \A i \in 1..nx : d.W2[i] = 0
      /\ \A i \in 1..OutputDim : d.B2[i] = 0
  <2> HIDE DEF na, nx, d
  <2> QED BY <1>2, <1>4
<1> HIDE DEF d, k, x, B
<1>6. ASSUME NEW j \in 1..HiddenDim
      PROVE  SumFunction(In(d, x, j)) + d.B1[j] = IF j = q THEN 1 ELSE 0
  <2> DEFINE f == In(d, x, j)
  <2>1. \A i \in 1..InputDim : f[i] = 0
    <3> SUFFICES ASSUME NEW i \in 1..InputDim PROVE f[i] = 0 OBVIOUS
    <3>1. At(i, j, HiddenDim) \in 1..na BY Sizes, Matrix
    <3>2. d.W1[At(i, j, HiddenDim)] = 0 /\ x[i] \in Int BY <1>1, <1>5, <3>1
    <3>3. f[i] = x[i] * d.W1[At(i, j, HiddenDim)] BY DEF In
    <3> QED BY <3>2, <3>3
  <2>2. DOMAIN f = 1..InputDim BY DEF In
  <2> HIDE DEF f
  <2>3. SumFunction(f) = 0 BY <2>1, <2>2, Sizes, SumZero
  <2>4. SumFunction(f) + d.B1[j] = IF j = q THEN 1 ELSE 0 BY <1>5, <2>3
  <2> QED BY <2>4 DEF f
<1>7. v \in Int /\ d = SetWeights(m, Unit(k)) /\ Numbers(d) BY <1>4 DEF d
<1>8. /\ \A i \in 1..HiddenDim * OutputDim : d.W2[i] = 0
      /\ \A i \in 1..OutputDim : d.B2[i] = 0
      /\ \A i \in 1..HiddenDim : SumFunction(In(d, s.features, i)) + d.B1[i] = IF i = q THEN v ELSE 0
  BY <1>5, <1>6 DEF x
<1>9. B \in [1..HiddenDim -> Int]
  <2>1. Delta(m, s.features, s.target) \in [1..OutputDim -> Int] BY <1>1, DeltaInt DEF x
  <2> QED BY <2>1, BlameInt DEF B
<1> HIDE DEF v
<1>10. Derivative(m, s, k) = v * B[q] BY <1>3, <1>7, <1>8, HiddenDerivative DEF B
<1>11. Derivative(m, s, k) = B[q]
  <2>1. B[q] \in Int BY <1>9
  <2> QED BY <1>10, <2>1 DEF v
<1> QED BY <1>11 DEF B, k

(* The derivative by a weight of the output layer. *)
LEMMA OutputDerivative ==
  ASSUME NEW m, Numbers(m), NEW s \in Samples, NEW k \in 1..NumWeights,
         NEW d, d = SetWeights(m, Unit(k)), Numbers(d),
         \A i \in 1..InputDim * HiddenDim : d.W1[i] = 0,
         \A i \in 1..HiddenDim : d.B1[i] = 0,
         NEW r \in 1..OutputDim, NEW v \in Int,
         \A j \in 1..OutputDim : Out(d, hidden(m, s.features))[j] = IF j = r THEN v ELSE 0
  PROVE  Derivative(m, s, k) = Delta(m, s.features, s.target)[r] * v
<1> DEFINE x == s.features
           h == hidden(m, x)
           D == Delta(m, x, s.target)
           c == Out(d, h)
<1>1. x \in [1..InputDim -> Int] /\ s.target \in [1..OutputDim -> Int] BY DEF Samples
<1>2. h \in [1..HiddenDim -> Int] BY <1>1, HiddenInt
<1>3. D \in [1..OutputDim -> Int] BY <1>1, DeltaInt
<1>4. c \in [1..OutputDim -> Int] BY <1>2, OutInt
<1>5. Linear(m, d, x, c) BY <1>1, LinearOutput
<1>6. \A j \in 1..OutputDim : c[j] = IF j = r THEN v ELSE 0 OBVIOUS
<1> HIDE DEF c
<1>7. OnlyAt(c, OutputDim, r) BY <1>4, <1>6, Sizes DEF OnlyAt
<1>8. Derivative(m, s, k) = SumFunction(Products(D, c)) BY <1>4, <1>5, DerivativeIs
<1> HIDE DEF D
<1>9. SumFunction(Products(D, c)) = D[r] * c[r] BY <1>3, <1>7, OutputGradient
<1>10. c[r] = v BY <1>6
<1> QED BY <1>8, <1>9, <1>10 DEF D

(* ... which is a number of W2 ... *)
LEMMA DerivativeW2 ==
  ASSUME NEW m, Numbers(m), NEW s \in Samples, NEW i \in 1..HiddenDim * OutputDim
  PROVE  Derivative(m, s, InputDim * HiddenDim + HiddenDim + i)
           = Delta(m, s.features, s.target)[Col(i, OutputDim)]
               * hidden(m, s.features)[Row(i, OutputDim)]
<1> DEFINE na == InputDim * HiddenDim
           nx == HiddenDim * OutputDim
           k == na + HiddenDim + i
           d == SetWeights(m, Unit(k))
           x == s.features
           h == hidden(m, x)
           q == Row(i, OutputDim)
           r == Col(i, OutputDim)
<1>1. x \in [1..InputDim -> Int] BY DEF Samples
<1>2. /\ na \in Nat /\ HiddenDim \in Nat /\ nx \in Nat /\ OutputDim \in Nat
      /\ NumWeights = na + HiddenDim + nx + OutputDim
  BY Sizes
<1>3. q \in 1..HiddenDim /\ r \in 1..OutputDim /\ At(q, r, OutputDim) = i
  BY Sizes, MatrixPlaces
<1>4. i \in 1..nx OBVIOUS
<1>5. k \in 1..NumWeights
  <2> HIDE DEF na, nx
  <2> QED BY <1>2, <1>4
<1>6. /\ Numbers(d)
      /\ \A j \in 1..na : d.W1[j] = IF j = k THEN 1 ELSE 0
      /\ \A j \in 1..HiddenDim : d.B1[j] = IF na + j = k THEN 1 ELSE 0
      /\ \A j \in 1..nx : d.W2[j] = IF na + HiddenDim + j = k THEN 1 ELSE 0
      /\ \A j \in 1..OutputDim : d.B2[j] = IF na + HiddenDim + nx + j = k THEN 1 ELSE 0
  <2> HIDE DEF k
  <2> QED BY <1>5, UnitSlices
<1>7. /\ \A j \in 1..na : d.W1[j] = 0
      /\ \A j \in 1..HiddenDim : d.B1[j] = 0
      /\ \A j \in 1..nx : d.W2[j] = IF j = i THEN 1 ELSE 0
      /\ \A j \in 1..OutputDim : d.B2[j] = 0
  <2> HIDE DEF na, nx, d
  <2> QED BY <1>2, <1>4, <1>6
<1>8. h \in [1..HiddenDim -> Int] BY <1>1, HiddenInt
<1>9. \A p \in 1..HiddenDim : \A j \in 1..OutputDim :
        /\ At(p, j, OutputDim) \in 1..nx
        /\ (At(p, j, OutputDim) = i <=> p = q /\ j = r)
  BY <1>3, Sizes, Matrix
<1>10. k \in 1..NumWeights /\ d = SetWeights(m, Unit(k)) BY <1>5
<1> HIDE DEF d, k, x, h, q, r
<1>11. ASSUME NEW j \in 1..OutputDim PROVE Out(d, h)[j] = IF j = r THEN h[q] ELSE 0
  <2> DEFINE f == Into(d, h, j)
  <2>1. f \in [1..HiddenDim -> Int] BY <1>6, <1>8, IntoInt
  <2>2. \A p \in 1..HiddenDim : f[p] = h[p] * d.W2[At(p, j, OutputDim)] BY DEF Into
  <2>3. Out(d, h)[j] = SumFunction(f) + d.B2[j] BY DEF Out
  <2> HIDE DEF f, na, nx
  <2>4. \A p \in 1..HiddenDim : d.W2[At(p, j, OutputDim)] = IF p = q /\ j = r THEN 1 ELSE 0
    BY <1>7, <1>9
  <2>5. ASSUME NEW p \in 1..HiddenDim PROVE f[p] = IF p = q /\ j = r THEN h[q] ELSE 0
    <3>1. h[p] \in Int /\ f[p] = h[p] * (IF p = q /\ j = r THEN 1 ELSE 0) BY <1>8, <2>2, <2>4
    <3>2. CASE p = q /\ j = r BY <3>1, <3>2
    <3>3. CASE ~(p = q /\ j = r) BY <3>1, <3>3
    <3> QED BY <3>2, <3>3
  <2>6. SumFunction(f) = IF j = r THEN h[q] ELSE 0
    <3>1. OnlyAt(f, HiddenDim, q) BY <1>3, <2>1, <2>5, Sizes DEF OnlyAt
    <3>2. SumFunction(f) = f[q] BY <3>1, SumSingle
    <3> QED BY <1>3, <2>5, <3>2
  <2>7. d.B2[j] = 0 /\ h[q] \in Int BY <1>3, <1>7, <1>8
  <2> QED BY <2>3, <2>6, <2>7
<1> DEFINE v == h[q]
<1>12. v \in Int BY <1>3, <1>8
<1>13. \A j \in 1..OutputDim : Out(d, hidden(m, s.features))[j] = IF j = r THEN v ELSE 0
  BY <1>11 DEF h, x
<1> HIDE DEF v
<1>14. Derivative(m, s, k) = Delta(m, s.features, s.target)[r] * v
  BY <1>3, <1>6, <1>7, <1>12, <1>13, <1>10, OutputDerivative
<1> QED BY <1>14 DEF v, h, x, q, r, k

(* ... or of B2. *)
LEMMA DerivativeB2 ==
  ASSUME NEW m, Numbers(m), NEW s \in Samples, NEW r \in 1..OutputDim
  PROVE  Derivative(m, s, InputDim * HiddenDim + HiddenDim + HiddenDim * OutputDim + r)
           = Delta(m, s.features, s.target)[r]
<1> DEFINE na == InputDim * HiddenDim
           nx == HiddenDim * OutputDim
           k == na + HiddenDim + nx + r
           d == SetWeights(m, Unit(k))
           x == s.features
           h == hidden(m, x)
           D == Delta(m, s.features, s.target)
           v == 1
<1>1. x \in [1..InputDim -> Int] /\ s.target \in [1..OutputDim -> Int] BY DEF Samples
<1>2. /\ na \in Nat /\ HiddenDim \in Nat /\ nx \in Nat /\ OutputDim \in Nat
      /\ NumWeights = na + HiddenDim + nx + OutputDim
  BY Sizes
<1>3. k \in 1..NumWeights
  <2> HIDE DEF na, nx
  <2> QED BY <1>2
<1>4. /\ Numbers(d)
      /\ \A j \in 1..na : d.W1[j] = IF j = k THEN 1 ELSE 0
      /\ \A j \in 1..HiddenDim : d.B1[j] = IF na + j = k THEN 1 ELSE 0
      /\ \A j \in 1..nx : d.W2[j] = IF na + HiddenDim + j = k THEN 1 ELSE 0
      /\ \A j \in 1..OutputDim : d.B2[j] = IF na + HiddenDim + nx + j = k THEN 1 ELSE 0
  <2> HIDE DEF k
  <2> QED BY <1>3, UnitSlices
<1>5. /\ \A j \in 1..na : d.W1[j] = 0
      /\ \A j \in 1..HiddenDim : d.B1[j] = 0
      /\ \A j \in 1..nx : d.W2[j] = 0
      /\ \A j \in 1..OutputDim : d.B2[j] = IF j = r THEN 1 ELSE 0
  <2> HIDE DEF na, nx, d
  <2> QED BY <1>2, <1>4
<1>6. h \in [1..HiddenDim -> Int] BY <1>1, HiddenInt
<1>7. k \in 1..NumWeights /\ d = SetWeights(m, Unit(k)) BY <1>3
<1>8. D \in [1..OutputDim -> Int] BY <1>1, DeltaInt
<1> HIDE DEF d, k, x, h, D
<1>9. ASSUME NEW j \in 1..OutputDim PROVE Out(d, h)[j] = IF j = r THEN 1 ELSE 0
  <2> DEFINE f == Into(d, h, j)
  <2>1. \A p \in 1..HiddenDim : f[p] = 0
    <3> SUFFICES ASSUME NEW p \in 1..HiddenDim PROVE f[p] = 0 OBVIOUS
    <3>1. At(p, j, OutputDim) \in 1..nx BY Sizes, Matrix
    <3>2. d.W2[At(p, j, OutputDim)] = 0 /\ h[p] \in Int BY <1>5, <1>6, <3>1
    <3>3. f[p] = h[p] * d.W2[At(p, j, OutputDim)] BY DEF Into
    <3> QED BY <3>2, <3>3
  <2>2. DOMAIN f = 1..HiddenDim BY DEF Into
  <2>3. Out(d, h)[j] = SumFunction(f) + d.B2[j] BY DEF Out
  <2> HIDE DEF f
  <2>4. SumFunction(f) = 0 BY <2>1, <2>2, Sizes, SumZero
  <2> QED BY <1>5, <2>3, <2>4
<1>10. v \in Int OBVIOUS
<1>11. \A j \in 1..OutputDim : Out(d, hidden(m, s.features))[j] = IF j = r THEN v ELSE 0
  BY <1>9 DEF h, x
<1> HIDE DEF v
<1>12. Derivative(m, s, k) = D[r] * v
  BY <1>4, <1>5, <1>10, <1>11, <1>7, OutputDerivative DEF D
<1>13. Derivative(m, s, k) = D[r]
  <2>1. D[r] \in Int BY <1>8
  <2> QED BY <1>12, <2>1 DEF v
<1> QED BY <1>13 DEF D, k

(* One step of training, at every place of the flat vector. *)
Descends(n, m, s) ==
  \A k \in 1..NumWeights : Weights(n)[k] = Weights(m)[k] - Rate * Derivative(m, s, k)

(* One call of Train moves every weight against its derivative. *)
LEMMA TrainGradient ==
  ASSUME NEW m, Numbers(m), NEW s \in Samples
  PROVE  Descends(Train(m, s.features, s.target), m, s)
<1> DEFINE x == s.features
           t == s.target
           n == Train(m, x, t)
           h == hidden(m, x)
           D == Delta(m, x, t)
           B == Blame(m, h, D)
           w == Weights(m)
           v == Weights(n)
           na == InputDim * HiddenDim
           nb == HiddenDim
           nx == HiddenDim * OutputDim
           ny == OutputDim
           G(k) == Derivative(m, s, k)
<1>1. x \in [1..InputDim -> Int] /\ t \in [1..OutputDim -> Int] BY DEF Samples
<1>2. /\ h \in [1..HiddenDim -> Int] /\ D \in [1..OutputDim -> Int] /\ B \in [1..HiddenDim -> Int]
      /\ Rate \in Int
  <2>1. h \in [1..HiddenDim -> Int] /\ D \in [1..OutputDim -> Int] BY <1>1, HiddenInt, DeltaInt
  <2> HIDE DEF h, D
  <2>2. B \in [1..HiddenDim -> Int] BY <2>1, BlameInt
  <2> QED BY <2>1, <2>2, LearningAssumption
<1>3. n = [W1 |-> [k \in 1..na |-> m.W1[k] - Rate * B[Col(k, HiddenDim)] * x[Row(k, HiddenDim)]],
           B1 |-> [k \in 1..nb |-> m.B1[k] - Rate * B[k]],
           W2 |-> [k \in 1..nx |-> m.W2[k] - Rate * D[Col(k, OutputDim)] * h[Row(k, OutputDim)]],
           B2 |-> [k \in 1..ny |-> m.B2[k] - Rate * D[k]]]
  BY TrainIs
<1>4. Cut(m, w) /\ Cut(n, v) BY <1>1, TrainNumbers, NumbersShape, WeightsCut
<1>5. /\ \A k \in 1..na : G(k) = x[Row(k, HiddenDim)] * B[Col(k, HiddenDim)]
      /\ \A k \in 1..nb : G(na + k) = B[k]
      /\ \A k \in 1..nx : G(na + nb + k) = D[Col(k, OutputDim)] * h[Row(k, OutputDim)]
      /\ \A k \in 1..ny : G(na + nb + nx + k) = D[k]
  BY DerivativeW1, DerivativeB1, DerivativeW2, DerivativeB2
<1>6. na \in Nat /\ nb \in Nat /\ nx \in Nat /\ ny \in Nat /\ NumWeights = na + nb + nx + ny
  BY Sizes
<1>7. /\ \A k \in 1..na : Row(k, HiddenDim) \in 1..InputDim /\ Col(k, HiddenDim) \in 1..HiddenDim
      /\ \A k \in 1..nx : Row(k, OutputDim) \in 1..HiddenDim /\ Col(k, OutputDim) \in 1..OutputDim
  BY Sizes, MatrixPlaces
<1> HIDE DEF x, t, n, h, D, B, w, v, G
<1>8. /\ \A k \in 1..na : w[k] = m.W1[k] /\ v[k] = n.W1[k]
      /\ \A k \in 1..nb : w[na + k] = m.B1[k] /\ v[na + k] = n.B1[k]
      /\ \A k \in 1..nx : w[na + nb + k] = m.W2[k] /\ v[na + nb + k] = n.W2[k]
      /\ \A k \in 1..ny : w[na + nb + nx + k] = m.B2[k] /\ v[na + nb + nx + k] = n.B2[k]
  BY <1>4 DEF Cut
<1>9. /\ n.W1 = [k \in 1..na |-> m.W1[k] - Rate * B[Col(k, HiddenDim)] * x[Row(k, HiddenDim)]]
      /\ n.B1 = [k \in 1..nb |-> m.B1[k] - Rate * B[k]]
      /\ n.W2 = [k \in 1..nx |-> m.W2[k] - Rate * D[Col(k, OutputDim)] * h[Row(k, OutputDim)]]
      /\ n.B2 = [k \in 1..ny |-> m.B2[k] - Rate * D[k]]
  BY <1>3
<1> HIDE DEF na, nx
<1>10. ASSUME NEW k \in 1..na PROVE v[k] = w[k] - Rate * G(k)
  <2> DEFINE b == B[Col(k, HiddenDim)]
             xr == x[Row(k, HiddenDim)]
  <2>1. b \in Int /\ xr \in Int BY <1>1, <1>2, <1>7
  <2>2. v[k] = w[k] - Rate * b * xr BY <1>8, <1>9
  <2>3. G(k) = xr * b BY <1>5
  <2> HIDE DEF b, xr
  <2>4. Rate * b * xr = Rate * (xr * b) BY <1>2, <2>1
  <2> QED BY <2>2, <2>3, <2>4
<1>11. ASSUME NEW k \in 1..nb PROVE v[na + k] = w[na + k] - Rate * G(na + k)
  BY <1>5, <1>8, <1>9
<1>12. ASSUME NEW k \in 1..nx PROVE v[na + nb + k] = w[na + nb + k] - Rate * G(na + nb + k)
  <2> DEFINE b == D[Col(k, OutputDim)]
             hr == h[Row(k, OutputDim)]
  <2>1. b \in Int /\ hr \in Int BY <1>2, <1>7
  <2>2. v[na + nb + k] = w[na + nb + k] - Rate * b * hr BY <1>8, <1>9
  <2>3. G(na + nb + k) = b * hr BY <1>5
  <2> HIDE DEF b, hr
  <2>4. Rate * b * hr = Rate * (b * hr) BY <1>2, <2>1
  <2> QED BY <2>2, <2>3, <2>4
<1>13. ASSUME NEW k \in 1..ny
       PROVE  v[na + nb + nx + k] = w[na + nb + nx + k] - Rate * G(na + nb + nx + k)
  BY <1>5, <1>8, <1>9
<1>14. ASSUME NEW k \in 1..NumWeights PROVE v[k] = w[k] - Rate * G(k)
  <2> HIDE DEF nb, ny
  <2>1. CASE k <= na
    <3>1. k \in 1..na BY <1>6, <2>1
    <3> QED BY <1>10, <3>1
  <2>2. CASE k > na /\ k <= na + nb
    <3>1. k - na \in 1..nb /\ na + (k - na) = k BY <1>6, <2>2
    <3> QED BY <1>11, <3>1
  <2>3. CASE k > na + nb /\ k <= na + nb + nx
    <3>1. k - (na + nb) \in 1..nx /\ na + nb + (k - (na + nb)) = k BY <1>6, <2>3
    <3> QED BY <1>12, <3>1
  <2>4. CASE k > na + nb + nx
    <3>1. k - (na + nb + nx) \in 1..ny /\ na + nb + nx + (k - (na + nb + nx)) = k BY <1>6, <2>4
    <3> QED BY <1>13, <3>1
  <2> QED BY <1>6, <2>1, <2>2, <2>3, <2>4
<1> QED BY <1>14 DEF Descends, v, w, G, n, x, t

(* A step that moves the training of a sensor on by one sample. *)
LEMMA OneSample ==
  ASSUME Inv, Counting, [Next]_vars, NEW c \in Clients, step[c] >= 0, step'[c] = step[c] + 1
  PROVE  Descends(mlp'[c], mlp[c], data[c][(step[c] % Len(data[c])) + 1])
<1>1. step[c] \in Int /\ step[c] # step'[c] BY DEF Inv, Types
<1>2. TrainSample(c)
  <2>1. CASE \E e \in Clients : StartTraining(e) \/ TrainSample(e) \/ ModelUpdate(e)
    <3>1. PICK e \in Clients : StartTraining(e) \/ TrainSample(e) \/ ModelUpdate(e) BY <2>1
    <3>2. CASE StartTraining(e)
      <4>1. step[e] = -1 /\ step' = [step EXCEPT ![e] = 0] BY <3>2 DEF StartTraining
      <4>2. e # c BY <1>1, <4>1
      <4> QED BY <1>1, <4>1, <4>2 DEF Inv, Types
    <3>3. CASE TrainSample(e)
      <4>1. step' = [step EXCEPT ![e] = step[e] + 1] BY <3>3 DEF TrainSample
      <4>2. e = c BY <1>1, <4>1 DEF Inv, Types
      <4> QED BY <3>3, <4>2
    <3>4. CASE ModelUpdate(e) BY <1>1, <3>4 DEF ModelUpdate
    <3> QED BY <3>1, <3>2, <3>3, <3>4
  <2>2. CASE Aggregate BY <1>1, <2>2 DEF Aggregate
  <2>3. CASE UNCHANGED vars BY <1>1, <2>3 DEF vars
  <2> QED BY <2>1, <2>2, <2>3 DEF Next
<1> DEFINE L == Len(data[c])
           i == (step[c] % L) + 1
           s == data[c][i]
<1>3. data[c] \in DataSets BY DEF Inv, Types
<1>4. L \in Nat \ {0} /\ data[c] \in Seq(Samples) BY <1>3, DataAre
<1>5. i \in 1..L BY <1>1, <1>4, SMT
<1>6. s \in Samples BY <1>4, <1>5
<1>7. mlp'[c] = Train(mlp[c], s.features, s.target) BY <1>2 DEF TrainSample, Inv, Types
<1>8. Numbers(mlp[c]) BY DEF Counting
<1> HIDE DEF s
<1>9. Descends(mlp'[c], mlp[c], s) BY <1>6, <1>7, <1>8, TrainGradient
<1> QED BY <1>9 DEF s

(* Theorem: Train is gradient descent. Every call moves each weight by Rate  *)
(* times the derivative of the squared error of its sample by that weight, as *)
(* the difference quotient gives it: the error goes back through the weights *)
(* the outputs were computed with (mlp.go:80-133, sensor.go:183-187).        *)
THEOREM TrainingIsGradientDescent == Spec => GradientDescent
<1> DEFINE P == \A c \in Clients : step[c] >= 0 /\ step'[c] = step[c] + 1 =>
                  LET s == data[c][(step[c] % Len(data[c])) + 1] IN
                    \A k \in 1..NumWeights :
                      Weights(mlp'[c])[k] = Weights(mlp[c])[k] - Rate * Derivative(mlp[c], s, k)
<1>1. ASSUME Inv, Counting, [Next]_vars PROVE P
  <2>1. \A c \in Clients : step[c] >= 0 /\ step'[c] = step[c] + 1 =>
          Descends(mlp'[c], mlp[c], data[c][(step[c] % Len(data[c])) + 1])
    BY <1>1, OneSample
  <2> QED BY <2>1 DEF Descends
<1>2. GradientDescent <=> [][P]_vars BY DEF GradientDescent
<1> HIDE DEF P
<1> QED BY LearningInvariant, CountingInvariant, <1>1, <1>2, PTL DEF Spec

-----------------------------------------------------------------------------
(* 6. Metrics. *)

(* FlattenSeq is defined by recursion: the function exists. *)
Flattens(g, s, n) == g = [i \in 1..n |-> IF i = 1 THEN s[i] ELSE g[i - 1] \o s[i]]

LEMMA FlattensExist ==
  ASSUME NEW s, NEW n \in Nat PROVE \E g : Flattens(g, s, n)
<1> DEFINE T == {k \in Nat : ~ \E g : Flattens(g, s, k)}
<1>1. CASE T = {} BY <1>1
<1>2. CASE T # {}
  <2>1. PICK k \in T : \A r \in T : k <= r BY <1>2, LeastNumber
  <2>2. k \in Nat /\ ~ \E g : Flattens(g, s, k) BY <2>1
  <2>3. CASE k = 0
    <3> DEFINE g == [i \in 1..0 |-> 0]
    <3>1. Flattens(g, s, 0) BY DEF Flattens
    <3> QED BY <2>2, <2>3, <3>1
  <2>4. CASE k # 0
    <3>1. k - 1 \in Nat /\ ~(k <= k - 1) BY <2>2, <2>4
    <3>2. k - 1 \notin T BY <2>1, <3>1
    <3>3. PICK g : Flattens(g, s, k - 1) BY <3>1, <3>2
    <3> DEFINE Body(f, i) == IF i = 1 THEN s[i] ELSE f[i - 1] \o s[i]
               h == [i \in 1..k |-> Body(g, i)]
    <3>4. ASSUME NEW i \in 1..k, i # 1 PROVE h[i - 1] = g[i - 1]
      <4>1. i - 1 \in 1..k /\ i - 1 \in 1..k - 1 BY <2>2, <3>4
      <4> DEFINE p == i - 1
      <4> HIDE DEF p
      <4>2. p \in 1..k /\ p \in 1..k - 1 BY <4>1 DEF p
      <4>3. h[p] = Body(g, p) BY <4>2
      <4>4. g[p] = Body(g, p) BY <3>3, <4>2 DEF Flattens
      <4> QED BY <4>3, <4>4 DEF p
    <3>5. \A i \in 1..k : Body(h, i) = Body(g, i)
      <4> HIDE DEF h
      <4> QED BY <3>4
    <3>6. h = [i \in 1..k |-> Body(h, i)]
      <4> HIDE DEF Body
      <4> QED BY <3>5
    <3>7. Flattens(h, s, k)
      <4> HIDE DEF h
      <4> QED BY <3>6 DEF Flattens
    <3> QED BY <2>2, <3>7
  <2> QED BY <2>3, <2>4
<1> QED BY <1>1, <1>2

(* f is the first n slices of s, of w numbers each, one after the other. *)
Flat(f, s, n, w) == /\ Slice(f, n * w)
                    /\ \A i \in 1..n : \A j \in 1..w : f[At(i, j, w)] = s[i][j]

LEMMA FlattenIs ==
  ASSUME NEW n \in Nat \ {0}, NEW w \in Nat \ {0}, NEW s, Slice(s, n), \A i \in 1..n : Slice(s[i], w)
  PROVE  Flat(FlattenSeq(s), s, n, w)
<1> DEFINE g == CHOOSE f : Flattens(f, s, n)
<1>1. Len(s) = n BY SliceIs
<1>2. FlattenSeq(s) = g[n] BY <1>1 DEF FlattenSeq, Flattens
<1>3. Flattens(g, s, n) BY FlattensExist
<1> HIDE DEF g
<1>4. \A i \in 1..n : g[i] = IF i = 1 THEN s[i] ELSE g[i - 1] \o s[i] BY <1>3 DEF Flattens
<1> DEFINE T == {i \in 1..n : ~ Flat(g[i], s, i, w)}
<1>5. T = {}
  <2> SUFFICES ASSUME T # {} PROVE FALSE OBVIOUS
  <2>1. T \subseteq Nat OBVIOUS
  <2>2. PICK k \in T : \A r \in T : k <= r BY <2>1, LeastNumber
  <2>3. k \in 1..n /\ k \in Nat /\ ~ Flat(g[k], s, k, w) BY <2>2
  <2>4. CASE k = 1
    <3>1. g[1] = s[1] /\ Slice(s[1], w) BY <1>4, <2>3, <2>4
    <3>2. 1 * w = w /\ \A j \in 1..w : At(1, j, w) = j BY DEF At
    <3>3. \A i \in 1..1 : i = 1 OBVIOUS
    <3>4. Slice(g[1], 1 * w) BY <3>1, <3>2
    <3>5. \A i \in 1..1 : \A j \in 1..w : g[1][At(i, j, w)] = s[i][j] BY <3>1, <3>2, <3>3
    <3>6. Flat(g[1], s, 1, w) BY <3>4, <3>5 DEF Flat
    <3> QED BY <2>3, <2>4, <3>6
  <2>5. CASE k # 1
    <3> DEFINE p == k - 1
               a == g[p]
               b == s[k]
               f == g[k]
               u == p * w
    <3>1. p \in 1..n /\ p \in Nat /\ ~(k <= p) /\ k = p + 1 BY <2>3, <2>5
    <3>2. p \notin T BY <2>2, <3>1
    <3>3. Flat(a, s, p, w) BY <3>1, <3>2
    <3>4. f = a \o b BY <1>4, <2>3, <2>5
    <3>5. Slice(b, w) BY <2>3
    <3>6. u \in Nat /\ u + w = k * w BY <3>1, SMT
    <3> HIDE DEF a, b, f, p
    <3>7. Slice(a, u) /\ \A i \in 1..p : \A j \in 1..w : a[At(i, j, w)] = s[i][j] BY <3>3 DEF Flat
    <3>8. \A i \in 1..p : \A j \in 1..w : At(i, j, w) \in 1..u BY <3>1, Matrix
    <3>9. \A j \in 1..w : At(k, j, w) = u + j
      <4> SUFFICES ASSUME NEW j \in 1..w PROVE At(k, j, w) = u + j OBVIOUS
      <4>1. At(k, j, w) = (k - 1) * w + j /\ k - 1 = p BY <3>1 DEF At
      <4> QED BY <4>1
    <3> HIDE DEF u
    <3>10. Joined(f, a, b, u, w)
      <4>1. Joined(a \o b, a, b, u, w) BY <3>5, <3>6, <3>7, Join
      <4> QED BY <3>4, <4>1
    <3>11. Slice(f, k * w) BY <3>6, <3>10 DEF Joined
    <3>12. ASSUME NEW i \in 1..k, NEW j \in 1..w PROVE f[At(i, j, w)] = s[i][j]
      <4>1. CASE i \in 1..p
        <5>1. f[At(i, j, w)] = a[At(i, j, w)] BY <3>8, <3>10, <4>1 DEF Joined
        <5> QED BY <3>7, <4>1, <5>1
      <4>2. CASE i = k
        <5>1. f[u + j] = b[j] BY <3>10 DEF Joined
        <5>2. At(i, j, w) = u + j BY <3>9, <4>2
        <5> QED BY <4>2, <5>1, <5>2 DEF b
      <4> QED BY <3>1, <4>1, <4>2
    <3>13. Flat(f, s, k, w) BY <3>11, <3>12 DEF Flat
    <3> QED BY <2>3, <3>13 DEF f
  <2> QED BY <2>4, <2>5
<1>6. n \in 1..n OBVIOUS
<1>7. Flat(g[n], s, n, w) BY <1>5, <1>6
<1> QED BY <1>2, <1>7

(* The sum over two sets. *)
LEMMA SumUnion ==
  ASSUME NEW f, NEW S, NEW T, IsFiniteSet(S), IsFiniteSet(T), S \cap T = {},
         \A i \in S \cup T : f[i] \in Int
  PROVE  SumFunctionOnSet(f, S \cup T) = SumFunctionOnSet(f, S) + SumFunctionOnSet(f, T)
<1> DEFINE F(t) == SumFunctionOnSet(f, t)
           Q == {t \in SUBSET T : F(S \cup t) = F(S) + F(t)}
<1>1. F(S) \in Int BY SumInt
<1>2. {} \in Q
  <2>1. S \cup {} = S /\ F({}) = 0 BY SumEmpty
  <2> HIDE DEF F
  <2>2. F(S \cup {}) = F(S) + F({}) BY <1>1, <2>1
  <2> QED BY <2>2
<1>3. ASSUME NEW t \in SUBSET T, t # {}, \A x \in t : t \ {x} \in Q PROVE t \in Q
  <2> DEFINE x == Pick(t)
             r == t \ {x}
             A == S \cup t
  <2>1. x \in t BY <1>3, PickIn
  <2>2. IsFiniteSet(t) /\ IsFiniteSet(r) BY FS_Subset
  <2>3. IsFiniteSet(A) BY <2>2, FS_Union
  <2> HIDE DEF x
  <2>4. A \ {x} = S \cup r /\ x \in A BY <2>1
  <2>5. \A i \in A : f[i] \in Int OBVIOUS
  <2> HIDE DEF A
  <2>6. F(A) = f[x] + F(A \ {x}) BY <2>3, <2>4, <2>5, SumRemove
  <2>7. F(t) = f[x] + F(r) BY <2>1, <2>2, SumRemove
  <2>8. F(S \cup r) = F(S) + F(r) BY <1>3, <2>1
  <2>9. F(r) \in Int /\ f[x] \in Int BY <2>1, <2>2, SumInt
  <2> HIDE DEF F, r
  <2> DEFINE fS == F(S)
             fr == F(r)
             fx == f[x]
  <2>10. F(A) = fx + (fS + fr) BY <2>4, <2>6, <2>8
  <2>11. F(t) = fx + fr BY <2>7
  <2>12. fS \in Int /\ fr \in Int /\ fx \in Int BY <1>1, <2>9 DEF F
  <2> HIDE DEF fS, fr, fx
  <2>13. fx + (fS + fr) = fS + (fx + fr) BY <2>12
  <2>14. F(A) = F(S) + F(t) BY <2>10, <2>11, <2>13 DEF fS
  <2> QED BY <2>14 DEF A
<1> HIDE DEF Q
<1>4. T \in Q BY <1>2, <1>3, SubsetInduction
<1> QED BY <1>4 DEF Q

(* The numbers of a matrix can be added up row by row. *)
LEMMA SumRow ==
  ASSUME NEW L \in Nat \ {0}, NEW w \in Nat \ {0}, NEW F, \A j \in 1..w : F[At(L, j, w)] \in Int
  PROVE  SumFunctionOnSet(F, (L - 1) * w + 1..L * w) = SumFunction([j \in 1..w |-> F[At(L, j, w)]])
<1> DEFINE r == [j \in 1..w |-> F[At(L, j, w)]]
           b == [j \in 1..w |-> At(L, j, w)]
           v == (L - 1) * w
           T == v + 1..L * w
<1>1. v \in Nat /\ L * w = v + w BY SMT
<1>2. \A j \in 1..w : At(L, j, w) = v + j BY DEF At
<1> HIDE DEF v
<1>3. T = v + 1..v + w BY <1>1
<1> HIDE DEF T
<1>4. b \in [1..w -> T] BY <1>1, <1>2, <1>3
<1>5. \A i, j \in 1..w : b[i] = b[j] => i = j BY <1>1, <1>2
<1>6. \A y \in T : \E i \in 1..w : b[i] = y
  <2> SUFFICES ASSUME NEW y \in T PROVE \E i \in 1..w : b[i] = y OBVIOUS
  <2>1. y - v \in 1..w /\ v + (y - v) = y BY <1>1, <1>3
  <2>2. b[y - v] = y BY <1>2, <2>1
  <2> QED BY <2>1, <2>2
<1>7. b \in Bijection(1..w, T)
  <2> HIDE DEF b
  <2> QED BY <1>4, <1>5, <1>6 DEF Bijection, Injection, Surjection, IsInjective
<1>8. \A i \in 1..w : r[i] = F[b[i]] /\ r[i] \in Int OBVIOUS
<1> DEFINE I == 1..w
<1> HIDE DEF r, b
<1>9. Renamed(r, I, F, T, b) BY <1>7, <1>8 DEF Renamed
<1>10. IsFiniteSet(I) BY FS_Interval
<1> HIDE DEF I
<1>11. SumFunctionOnSet(r, I) = SumFunctionOnSet(F, T) BY <1>9, <1>10, SumRenamed
<1>12. DOMAIN r = I BY DEF r, I
<1>13. SumFunction(r) = SumFunctionOnSet(F, T) BY <1>11, <1>12 DEF SumFunction, FoldFunction, SumFunctionOnSet
<1> QED BY <1>13 DEF r, T, v

(* R holds the sums of the rows of F. *)
Rows(R, F, N, w) == /\ F \in [1..N * w -> Int]
                    /\ R = [i \in 1..N |-> SumFunction([j \in 1..w |-> F[At(i, j, w)]])]

LEMMA DoubleSum ==
  ASSUME NEW N \in Nat, NEW w \in Nat \ {0}, NEW F, NEW R, Rows(R, F, N, w)
  PROVE  SumFunction(F) = SumFunction(R)
<1> DEFINE A(L) == SumFunctionOnSet(F, 1..L * w)
           B(L) == SumFunctionOnSet(R, 1..L)
           T == {L \in 0..N : A(L) # B(L)}
<1>1. /\ F \in [1..N * w -> Int]
      /\ R = [i \in 1..N |-> SumFunction([j \in 1..w |-> F[At(i, j, w)]])]
  BY DEF Rows
<1>2. \A i \in 1..N : \A j \in 1..w : F[At(i, j, w)] \in Int BY <1>1, Matrix
<1>3. \A i \in 1..N : R[i] = SumFunction([j \in 1..w |-> F[At(i, j, w)]]) BY <1>1
<1>4. \A i \in 1..N : R[i] \in Int
  <2> SUFFICES ASSUME NEW i \in 1..N PROVE R[i] \in Int OBVIOUS
  <2>1. [j \in 1..w |-> F[At(i, j, w)]] \in [1..w -> Int] BY <1>2
  <2>2. SumFunction([j \in 1..w |-> F[At(i, j, w)]]) \in Int BY <2>1, SumFunctionInt
  <2> QED BY <1>3, <2>2
<1>5. T = {}
  <2> SUFFICES ASSUME T # {} PROVE FALSE OBVIOUS
  <2>1. PICK L \in T : \A r \in T : L <= r
    <3>1. T \subseteq Nat OBVIOUS
    <3> HIDE DEF T
    <3> QED BY <3>1, LeastNumber
  <2>2. L \in 0..N /\ L \in Nat /\ A(L) # B(L) BY <2>1
  <2>3. CASE L = 0
    <3>1. 1..L * w = {} /\ 1..L = {}
      <4>1. L * w = 0 BY <2>3
      <4> QED BY <2>3, <4>1
    <3>2. A(L) = 0 /\ B(L) = 0 BY <3>1, SumEmpty
    <3> QED BY <2>2, <3>2
  <2>4. CASE L # 0
    <3> DEFINE p == L - 1
               u == p * w
               v == L * w
               P == 1..u
               Q == u + 1..v
               I == 1..p
    <3>1. p \in 0..N /\ ~(L <= p) /\ L \in 1..N /\ L \in Nat \ {0} BY <2>2, <2>4
    <3>2. A(p) = B(p) BY <2>1, <3>1
    <3>3. u \in Nat /\ v = u + w /\ v <= N * w
      <4>1. u \in Nat /\ v = u + w BY <3>1, SMT
      <4>2. N - L \in Nat /\ N * w = v + (N - L) * w BY <3>1, SMT
      <4>3. (N - L) * w \in Nat BY <4>2, SMT
      <4> DEFINE z == (N - L) * w
                 y == N * w
      <4>4. z \in Nat /\ y = v + z /\ v \in Nat BY <4>2, <4>3, <3>1
      <4> HIDE DEF z, y
      <4>5. v <= y BY <4>4
      <4> QED BY <4>1, <4>5 DEF y
    <3> DEFINE n == N * w
    <3>4. n \in Nat /\ v <= n /\ F \in [1..n -> Int] BY <1>1, <3>3
    <3>5. SumFunctionOnSet(F, Q) = R[L] BY <3>1, <1>2, <1>3, SumRow
    <3> HIDE DEF n
    <3>6. IsFiniteSet(P) /\ IsFiniteSet(Q) /\ IsFiniteSet(I) /\ IsFiniteSet(1..L)
      <4>1. u \in Int /\ v \in Int /\ u + 1 \in Int /\ p \in Int BY <3>1, <3>3
      <4> HIDE DEF u, v, p
      <4>2. \A a, b \in Int : IsFiniteSet(a..b) BY FS_Interval
      <4>3. IsFiniteSet(P) /\ IsFiniteSet(Q) BY <4>1, <4>2
      <4>4. IsFiniteSet(I) /\ IsFiniteSet(1..L) BY <4>1, <4>2, <3>1
      <4> QED BY <4>3, <4>4
    <3> HIDE DEF u, v
    <3>7. P \cap Q = {} /\ P \cup Q = 1..v /\ \A i \in P \cup Q : F[i] \in Int BY <3>3, <3>4
    <3>8. 1..L \ {L} = I /\ L \in 1..L /\ \A i \in 1..L : R[i] \in Int BY <3>1, <1>4
    <3>9. SumFunctionOnSet(F, 1..v) = SumFunctionOnSet(F, P) + SumFunctionOnSet(F, Q)
      <4> HIDE DEF P, Q, T, A, B
      <4>1. SumFunctionOnSet(F, P \cup Q) = SumFunctionOnSet(F, P) + SumFunctionOnSet(F, Q)
        BY <3>6, <3>7, SumUnion
      <4> QED BY <3>7, <4>1
    <3>10. SumFunctionOnSet(R, 1..L) = R[L] + SumFunctionOnSet(R, I)
      <4> DEFINE J == 1..L
      <4>1. IsFiniteSet(J) /\ L \in J /\ \A i \in J : R[i] \in Int BY <3>6, <3>8
      <4> HIDE DEF J, T, A, B
      <4>2. SumFunctionOnSet(R, J) = R[L] + SumFunctionOnSet(R, J \ {L}) BY <4>1, SumRemove
      <4> QED BY <3>8, <4>2 DEF J
    <3>11. SumFunctionOnSet(F, P) = SumFunctionOnSet(R, I) BY <3>2 DEF u
    <3>12. SumFunctionOnSet(R, I) \in Int /\ R[L] \in Int
      <4>1. \A i \in I : R[i] \in Int BY <3>1, <1>4
      <4> HIDE DEF I
      <4> QED BY <3>1, <3>6, <4>1, <1>4, SumInt
    <3>13. A(L) = B(L)
      <4> DEFINE x == SumFunctionOnSet(R, I)
                 y == R[L]
      <4>1. x \in Int /\ y \in Int BY <3>12
      <4>2. SumFunctionOnSet(F, 1..v) = x + y /\ SumFunctionOnSet(R, 1..L) = y + x
        BY <3>5, <3>9, <3>10, <3>11
      <4> HIDE DEF x, y
      <4>3. x + y = y + x BY <4>1
      <4> QED BY <4>2, <4>3 DEF v
    <3> QED BY <2>2, <3>13
  <2> QED BY <2>3, <2>4
<1>6. A(N) = B(N) BY <1>5
<1>7. DOMAIN F = 1..N * w /\ DOMAIN R = 1..N BY <1>1
<1> QED BY <1>6, <1>7 DEF SumFunction, FoldFunction, SumFunctionOnSet

(* A square is not negative. *)
LEMMA SquareNat == ASSUME NEW d \in Int PROVE d * d \in Nat
<1>1. CASE d >= 0 BY <1>1, SMT
<1>2. CASE d < 0
  <2>1. -d \in Nat /\ (-d) * (-d) = d * d BY <1>2, SMT
  <2> DEFINE e == -d
  <2> HIDE DEF e
  <2>2. e \in Nat /\ e * e = d * d BY <2>1 DEF e
  <2>3. e * e \in Nat BY <2>2, SMT
  <2> QED BY <2>2, <2>3
<1> QED BY <1>1, <1>2

(* The sum of numbers that are not negative is 0 only if all are. *)
LEMMA SumFunctionNat ==
  ASSUME NEW n \in Nat, NEW f \in [1..n -> Nat]
  PROVE  SumFunction(f) \in Nat /\ (SumFunction(f) = 0 <=> \A i \in 1..n : f[i] = 0)
<1> DEFINE S == 1..n
<1>1. IsFiniteSet(S) BY FS_Interval
<1>2. \A i \in S : f[i] \in Nat OBVIOUS
<1>3. SumFunction(f) = SumFunctionOnSet(f, S) BY DEF SumFunction
<1> HIDE DEF S
<1>4. SumFunctionOnSet(f, S) \in Nat /\ (SumFunctionOnSet(f, S) = 0 <=> \A i \in S : f[i] = 0)
  BY <1>1, <1>2, SumNat
<1> QED BY <1>3, <1>4 DEF S

(* The squares of a, and its deviations from the mean, times n. *)
SquaresOf(a, n) == [i \in 1..n |-> a[i] * a[i]]
Deviations(a, n) == [i \in 1..n |-> (n * a[i] - SumFunction(a)) * (n * a[i] - SumFunction(a))]

(* The sum of the squared deviations (times n, squared), by the sum of squares. *)
LEMMA Variance ==
  ASSUME NEW n \in Nat \ {0}, NEW a \in [1..n -> Int]
  PROVE  /\ SumFunction(a) \in Int /\ SumFunction(SquaresOf(a, n)) \in Int
         /\ Deviations(a, n) \in [1..n -> Nat]
         /\ SumFunction(Deviations(a, n))
              = n * (n * SumFunction(SquaresOf(a, n)) - SumFunction(a) * SumFunction(a))
<1> DEFINE A == SumFunction(a)
           q == SquaresOf(a, n)
           v == Deviations(a, n)
           one == [i \in 1..n |-> 1]
           k == 0 - 2 * n * A
           l == A * A
           nn == n * n
           e == 1
           S == 1..n
           g == [i \in 1..n |-> k * a[i] + l * one[i]]
           Q == SumFunction(q)
<1>1. A \in Int BY SumFunctionInt
<1>2. k \in Int /\ l \in Int /\ nn \in Int /\ e \in Int
  <2> HIDE DEF A
  <2> QED BY <1>1, SMT
<1>3. IsFiniteSet(S) BY FS_Interval
<1>4. q \in [1..n -> Int] BY SMT DEF SquaresOf
<1>5. Q \in Int BY <1>4, SumFunctionInt
<1>6. g \in [1..n -> Int]
  <2> HIDE DEF k, l
  <2>1. \A i \in 1..n : k * a[i] + l * 1 \in Int BY <1>2, SMT
  <2> QED BY <2>1
<1>7. \A i \in 1..n : n * a[i] - A \in Int
  <2> HIDE DEF A
  <2> QED BY <1>1, SMT
<1>8. v \in [1..n -> Nat]
  <2>1. \A i \in 1..n : (n * a[i] - A) * (n * a[i] - A) \in Nat BY <1>7, SquareNat
  <2> QED BY <2>1 DEF Deviations
<1>9. Combined(g, a, one, k, l, S)
  <2>1. \A i \in S : a[i] \in Int /\ one[i] \in Int /\ g[i] = k * a[i] + l * one[i] OBVIOUS
  <2> HIDE DEF S, g, one, k, l
  <2> QED BY <1>2, <1>3, <2>1 DEF Combined
<1>10. Combined(v, q, g, nn, e, S)
  <2>1. ASSUME NEW i \in S PROVE v[i] = nn * q[i] + e * g[i]
    <3>1. v[i] = (n * a[i] - A) * (n * a[i] - A) BY DEF Deviations
    <3>2. q[i] = a[i] * a[i] BY DEF SquaresOf
    <3>3. g[i] = k * a[i] + l * 1 OBVIOUS
    <3>4. a[i] \in Int OBVIOUS
    <3> DEFINE x == a[i]
    <3>5. v[i] = (n * x - A) * (n * x - A) /\ q[i] = x * x /\ g[i] = (0 - 2 * n * A) * x + (A * A) * 1
      BY <3>1, <3>2, <3>3
    <3> HIDE DEF A, x, v, q, g
    <3>6. x \in Int BY <3>4 DEF x
    <3>7. (n * x - A) * (n * x - A) = (n * n) * (x * x) + 1 * ((0 - 2 * n * A) * x + (A * A) * 1)
      BY <1>1, <3>6, SMT
    <3> QED BY <3>5, <3>7
  <2>2. \A i \in S : q[i] \in Int /\ g[i] \in Int BY <1>4, <1>6
  <2> HIDE DEF S, g, q, v, nn, e
  <2> QED BY <1>2, <1>3, <2>1, <2>2 DEF Combined
<1>11. DOMAIN v = 1..n /\ DOMAIN q = 1..n /\ DOMAIN g = 1..n /\ DOMAIN a = 1..n /\ DOMAIN one = 1..n
  BY DEF Deviations, SquaresOf
<1>12. SumFunction(one) = n
  <2>1. \A i \in S : one[i] = e OBVIOUS
  <2>2. SumFunction(one) = SumFunctionOnSet(one, S) BY DEF SumFunction
  <2>3. Cardinality(S) = n BY FS_Interval
  <2> HIDE DEF S, one, e
  <2>4. SumFunctionOnSet(one, S) = Cardinality(S) * e BY <1>2, <1>3, <2>1, SumConstant
  <2> QED BY <2>2, <2>3, <2>4 DEF e
<1>13. SumFunction(g) = k * A + l * n
  <2> HIDE DEF g, one, k, l
  <2>1. SumFunction(g) = k * SumFunction(a) + l * SumFunction(one) BY <1>9, <1>11, SumCombined DEF S
  <2> QED BY <1>12, <2>1
<1>14. SumFunction(v) = nn * Q + e * SumFunction(g)
  <2> HIDE DEF g, q, v, nn, e
  <2> QED BY <1>10, <1>11, SumCombined DEF S
<1>15. SumFunction(v) = n * n * Q + 1 * ((0 - 2 * n * A) * A + A * A * n) BY <1>13, <1>14
<1> HIDE DEF A, Q, v
<1>16. n * n * Q + 1 * ((0 - 2 * n * A) * A + A * A * n) = n * (n * Q - A * A) BY <1>1, <1>5, SMT
<1> QED BY <1>1, <1>5, <1>8, <1>15, <1>16 DEF A, Q, v

(* A number is not negative if a multiple is not. *)
LEMMA Positive ==
  ASSUME NEW n \in Nat \ {0}, NEW z \in Int, n * z \in Nat PROVE z \in Nat
<1> SUFFICES ASSUME z < 0 PROVE FALSE OBVIOUS
<1>1. -z \in Nat \ {0} OBVIOUS
<1> DEFINE y == -z
<1>2. n * z = -(n * y) BY SMT
<1> HIDE DEF y
<1>3. n * y \in Nat /\ n * y > 0 BY <1>1, SMT DEF y
<1>4. -(n * y) \notin Nat
  <2> DEFINE x == n * y
  <2>1. x \in Nat /\ x > 0 BY <1>3
  <2> HIDE DEF x
  <2>2. -x \notin Nat BY <2>1
  <2> QED BY <2>2 DEF x
<1> QED BY <1>2, <1>4

(* The square of a sum is at most n times the sum of the squares. *)
LEMMA CauchySchwarz ==
  ASSUME NEW n \in Nat \ {0}, NEW a \in [1..n -> Int]
  PROVE  SumFunction(a) * SumFunction(a) <= SumFunction(SquaresOf(a, n)) * n
<1> DEFINE A == SumFunction(a)
           Q == SumFunction(SquaresOf(a, n))
           z == n * Q - A * A
<1>1. A \in Int /\ Q \in Int BY Variance
<1>2. n * z \in Nat
  <2>1. SumFunction(Deviations(a, n)) \in Nat BY Variance, SumFunctionNat
  <2> QED BY <2>1, Variance
<1> HIDE DEF A, Q
<1>3. z \in Int BY <1>1, SMT
<1>4. z \in Nat
  <2> HIDE DEF z
  <2> QED BY <1>2, <1>3, Positive
<1>5. A * A <= Q * n BY <1>1, <1>4, SMT
<1> QED BY <1>5 DEF A, Q

(* evaluation.Calculate, for as many predictions as values. *)
Differences(a, p, n) == [i \in 1..n |-> a[i] - p[i]]
AbsoluteErrors(d, n) == [i \in 1..n |-> Abs(d[i])]

LEMMA CalculateIs ==
  ASSUME NEW n \in Nat \ {0}, NEW a \in [1..n -> Int], NEW p \in [1..n -> Int]
  PROVE  LET d == Differences(a, p, n)
             e == SumFunction(SquaresOf(d, n))
             t == SumFunction(Deviations(a, n))
         IN  Calculate(a, p) = [MSE |-> <<e, n>>, MAE |-> <<SumFunction(AbsoluteErrors(d, n)), n>>,
                                R2 |-> IF t > 0 THEN <<t - n * n * e, t>> ELSE <<1, 1>>]
<1> DEFINE d == Differences(a, p, n)
<1>1. Len(a) = n /\ Len(p) = n OBVIOUS
<1>2. SquaresOf(d, n) = [i \in 1..n |-> (a[i] - p[i]) * (a[i] - p[i])] BY DEF SquaresOf, Differences
<1>3. AbsoluteErrors(d, n) = [i \in 1..n |-> Abs(a[i] - p[i])] BY DEF AbsoluteErrors, Differences
<1>4. n # 0 OBVIOUS
<1> HIDE DEF d
<1>5. Calculate(a, p) = [MSE |-> <<SumFunction([i \in 1..n |-> (a[i] - p[i]) * (a[i] - p[i])]), n>>,
           MAE |-> <<SumFunction([i \in 1..n |-> Abs(a[i] - p[i])]), n>>,
           R2 |-> IF SumFunction(Deviations(a, n)) > 0
             THEN <<SumFunction(Deviations(a, n)) -
                    n * n * SumFunction([i \in 1..n |-> (a[i] - p[i]) * (a[i] - p[i])]),
                    SumFunction(Deviations(a, n))>> ELSE <<1, 1>>]
  BY <1>1, <1>4, Zenon DEF Calculate, Deviations
<1> QED BY <1>2, <1>3, <1>5 DEF d

(* The values do not vary just if they do not deviate from their mean. *)
LEMMA SpreadZero ==
  ASSUME NEW n \in Nat \ {0}, NEW a \in [1..n -> Int]
  PROVE  Cardinality(Range(a)) = 1 <=> SumFunction(Deviations(a, n)) = 0
<1> DEFINE A == SumFunction(a)
           R == Range(a)
           V == Deviations(a, n)
<1>1. A \in Int /\ V \in [1..n -> Nat] BY Variance
<1>2. SumFunction(V) = 0 <=> \A i \in 1..n : V[i] = 0 BY <1>1, SumFunctionNat
<1>3. \A i \in 1..n : V[i] = (n * a[i] - A) * (n * a[i] - A) BY DEF Deviations
<1>4. \A i \in 1..n : V[i] = 0 <=> n * a[i] = A
  <2> SUFFICES ASSUME NEW i \in 1..n PROVE V[i] = 0 <=> n * a[i] = A OBVIOUS
  <2> DEFINE x == a[i]
             y == n * x
  <2>1. x \in Int BY SMT
  <2>2. V[i] = (y - A) * (y - A) BY <1>3
  <2> HIDE DEF x, A
  <2>3. y \in Int BY <2>1, SMT
  <2> HIDE DEF y
  <2>4. (y - A) * (y - A) = 0 <=> y = A
    <3> DEFINE z == y - A
    <3>1. z \in Int /\ (z = 0 <=> y = A) BY <1>1, <2>3 DEF A
    <3> HIDE DEF z
    <3>2. z * z = 0 <=> z = 0 BY <3>1, SMT
    <3> QED BY <3>1, <3>2 DEF z
  <2> QED BY <2>2, <2>4 DEF x, y
<1>5. R = {a[i] : i \in 1..n} /\ 1 \in 1..n BY DEF Range
<1>6. ASSUME \A i \in 1..n : n * a[i] = A PROVE Cardinality(R) = 1
  <2>1. \A i \in 1..n : a[i] = a[1]
    <3> SUFFICES ASSUME NEW i \in 1..n PROVE a[i] = a[1] OBVIOUS
    <3> DEFINE x == a[i]
               y == a[1]
    <3>1. x \in Int /\ y \in Int /\ n * x = n * y BY <1>5, <1>6
    <3> HIDE DEF x, y
    <3>2. x = y BY <3>1, SMT
    <3> QED BY <3>2 DEF x, y
  <2>2. R = {a[1]} BY <1>5, <2>1
  <2> QED BY <2>2, FS_Singleton
<1>7. ASSUME Cardinality(R) = 1 PROVE \A i \in 1..n : n * a[i] = A
  <2> DEFINE S == 1..n
  <2>1. IsFiniteSet(S) /\ Cardinality(S) = n BY FS_Interval
  <2>2. IsFiniteSet(R)
    <3> DEFINE b == [i \in S |-> a[i]]
    <3>1. b \in Surjection(S, R) BY <1>5 DEF Surjection
    <3> HIDE DEF S, R, b
    <3> QED BY <2>1, <3>1, FS_Surjection
  <2>3. PICK x : R = {x}
    <3> HIDE DEF R
    <3> QED BY <1>7, <2>2, FS_Singleton
  <2>4. \A i \in S : a[i] = x BY <1>5, <2>3
  <2>5. x \in Int BY <1>5, <2>4
  <2>6. A = SumFunctionOnSet(a, S) BY DEF SumFunction
  <2> HIDE DEF S, A
  <2>7. SumFunctionOnSet(a, S) = Cardinality(S) * x BY <2>1, <2>4, <2>5, SumConstant
  <2>8. \A i \in S : n * a[i] = A BY <2>1, <2>4, <2>6, <2>7
  <2> QED BY <2>8 DEF S
<1> HIDE DEF A, V, R
<1>8. Cardinality(R) = 1 <=> SumFunction(V) = 0 BY <1>2, <1>4, <1>6, <1>7
<1> QED BY <1>8 DEF R, V

(* The three metrics of evaluation.Calculate, and how they are related. *)
LEMMA MetricsOf ==
  ASSUME NEW n \in Nat \ {0}, NEW a \in [1..n -> Int], NEW p \in [1..n -> Int]
  PROVE  LET m == Calculate(a, p)
         IN  /\ m.MSE = <<SumFunction(SquaresOf(Differences(a, p, n), n)), n>>
             /\ m.MAE[1] * m.MAE[1] <= m.MSE[1] * m.MSE[2]
             /\ m.R2[1] = m.R2[2] <=> m.MSE[1] = 0 \/ Cardinality(Range(a)) = 1
<1> DEFINE m == Calculate(a, p)
           d == Differences(a, p, n)
           q == SquaresOf(d, n)
           s == AbsoluteErrors(d, n)
           e == SumFunction(q)
           v == Deviations(a, n)
           t == SumFunction(v)
           ss == SumFunction(s)
<1>1. d \in [1..n -> Int] BY SMT DEF Differences
<1>2. s \in [1..n -> Int]
  <2> HIDE DEF d
  <2>1. \A i \in 1..n : Abs(d[i]) \in Int BY <1>1 DEF Abs
  <2> QED BY <2>1 DEF AbsoluteErrors
<1>3. SquaresOf(s, n) = q
  <2> HIDE DEF d
  <2>1. \A i \in 1..n : s[i] * s[i] = d[i] * d[i]
    <3> SUFFICES ASSUME NEW i \in 1..n PROVE s[i] * s[i] = d[i] * d[i] OBVIOUS
    <3>1. d[i] \in Int BY <1>1
    <3>2. s[i] = Abs(d[i]) BY DEF AbsoluteErrors
    <3> DEFINE x == d[i]
    <3> HIDE DEF x
    <3>3. Abs(x) * Abs(x) = x * x BY <3>1, SMT DEF Abs, x
    <3> QED BY <3>2, <3>3 DEF x
  <2> QED BY <2>1 DEF SquaresOf
<1>4. ss * ss <= e * n
  <2> HIDE DEF d, q, s
  <2>1. ss * ss <= SumFunction(SquaresOf(s, n)) * n BY <1>2, CauchySchwarz
  <2> QED BY <1>3, <2>1
<1>5. m = [MSE |-> <<e, n>>, MAE |-> <<ss, n>>, R2 |-> IF t > 0 THEN <<t - n * n * e, t>> ELSE <<1, 1>>]
  BY CalculateIs
<1>6. t \in Nat BY Variance, SumFunctionNat
<1>7. e \in Int
  <2> HIDE DEF d
  <2> QED BY <1>1, Variance
<1>8. Cardinality(Range(a)) = 1 <=> t = 0 BY SpreadZero
<1> HIDE DEF m, d, q, s, e, v, t, ss
<1>9. m.MSE = <<e, n>> /\ m.MSE[1] = e /\ m.MSE[2] = n /\ m.MAE[1] = ss BY <1>5
<1>10. m.R2[1] = m.R2[2] <=> e = 0 \/ t = 0
  <2>1. CASE t > 0
    <3>1. m.R2[1] = t - n * n * e /\ m.R2[2] = t BY <1>5, <2>1
    <3> DEFINE z == n * n * e
    <3>2. z \in Int /\ (z = 0 <=> e = 0) BY <1>7, SMT
    <3> HIDE DEF z
    <3>3. t - z = t <=> z = 0 BY <1>6, <3>2
    <3> QED BY <1>6, <2>1, <3>1, <3>2, <3>3 DEF z
  <2>2. CASE t = 0
    <3>1. m.R2 = <<1, 1>> BY <1>5, <2>2
    <3> QED BY <2>2, <3>1
  <2> QED BY <1>6, <2>1, <2>2
<1> QED BY <1>4, <1>8, <1>9, <1>10 DEF m, e, q, d

(* The numbers of n slices of w numbers each, in a row. *)
Slices(s, n, w) == Slice(s, n) /\ \A i \in 1..n : s[i] \in [1..w -> Int]

LEMMA FlatNumbers ==
  ASSUME NEW n \in Nat \ {0}, NEW w \in Nat \ {0}, NEW s, Slices(s, n, w)
  PROVE  /\ FlattenSeq(s) \in [1..n * w -> Int]
         /\ \A i \in 1..n : \A j \in 1..w : FlattenSeq(s)[At(i, j, w)] = s[i][j]
<1> DEFINE f == FlattenSeq(s)
           k == n * w
<1>1. Slice(s, n) /\ \A i \in 1..n : s[i] \in [1..w -> Int] BY DEF Slices
<1>2. \A i \in 1..n : Slice(s[i], w) BY <1>1 DEF Slice
<1>3. Flat(f, s, n, w) BY <1>1, <1>2, FlattenIs
<1> HIDE DEF f
<1>4. Slice(f, k) /\ \A i \in 1..n : \A j \in 1..w : f[At(i, j, w)] = s[i][j] BY <1>3 DEF Flat
<1>5. \A x \in 1..k : Row(x, w) \in 1..n /\ Col(x, w) \in 1..w /\ At(Row(x, w), Col(x, w), w) = x
  BY MatrixPlaces
<1> HIDE DEF k
<1>6. \A x \in 1..k : f[x] \in Int
  <2> SUFFICES ASSUME NEW x \in 1..k PROVE f[x] \in Int OBVIOUS
  <2> DEFINE i == Row(x, w)
             j == Col(x, w)
  <2>1. i \in 1..n /\ j \in 1..w /\ At(i, j, w) = x BY <1>5
  <2> HIDE DEF i, j
  <2>2. f[At(i, j, w)] = s[i][j] /\ s[i][j] \in Int BY <1>1, <1>4, <2>1
  <2> QED BY <2>1, <2>2
<1>7. f \in [1..k -> Int] BY <1>4, <1>6 DEF Slice
<1> QED BY <1>4, <1>7 DEF f, k

(* The sum of the sensor is the sum of the evaluator. *)
LEMMA LossIs ==
  ASSUME NEW D \in DataSets, NEW m, Numbers(m)
  PROVE  LET n == Len(D) * OutputDim
             a == Actuals(D)
             p == Predictions(m, D)
         IN  /\ n \in Nat \ {0} /\ a \in [1..n -> Int] /\ p \in [1..n -> Int]
             /\ ComputeLoss(m, D)[1] = SumFunction(SquaresOf(Differences(a, p, n), n))
             /\ ComputeLoss(m, D)[2] = Len(D) * 3
<1> DEFINE L == Len(D)
           w == OutputDim
           n == L * w
           t == [i \in 1..L |-> D[i].target]
           o == [i \in 1..L |-> Predict(m, D[i].features)]
           a == Actuals(D)
           p == Predictions(m, D)
           F == SquaresOf(Differences(a, p, n), n)
           R == [i \in 1..L |-> SquaredError(m, D[i])]
<1>1. L \in Nat \ {0} /\ w \in Nat \ {0} BY DataAre, Sizes
<1>2. \A i \in 1..L : D[i].features \in [1..InputDim -> Int] /\ D[i].target \in [1..OutputDim -> Int]
  BY DataAre
<1>3. \A i \in 1..L : t[i] \in [1..w -> Int] /\ o[i] \in [1..w -> Int]
  BY <1>2, PredictInt
<1>4. Slice(t, L) /\ Slice(o, L) BY DEF Slice
<1>5. a = FlattenSeq(t) /\ p = FlattenSeq(o) BY DEF Actuals, Predictions
<1>6. ComputeLoss(m, D) = <<SumFunction(R), L * 3>> BY DEF ComputeLoss
<1>7. \A i \in 1..L : R[i] = SumFunction([j \in 1..w |-> (o[i][j] - t[i][j]) * (o[i][j] - t[i][j])])
  BY DEF SquaredError
<1>8. n \in Nat \ {0} BY <1>1, SMT
<1> HIDE DEF L, w, t, o, a, p
<1>9. Slices(t, L, w) /\ Slices(o, L, w) BY <1>3, <1>4 DEF Slices
<1>10. a \in [1..n -> Int] /\ \A i \in 1..L : \A j \in 1..w : a[At(i, j, w)] = t[i][j]
  BY <1>1, <1>5, <1>9, FlatNumbers
<1>11. p \in [1..n -> Int] /\ \A i \in 1..L : \A j \in 1..w : p[At(i, j, w)] = o[i][j]
  BY <1>1, <1>5, <1>9, FlatNumbers
<1>12. \A i \in 1..L : \A j \in 1..w : At(i, j, w) \in 1..n BY <1>1, Matrix
<1> HIDE DEF n
<1>13. F \in [1..n -> Int] /\ \A k \in 1..n : F[k] = (a[k] - p[k]) * (a[k] - p[k])
  BY <1>10, <1>11, SMT DEF SquaresOf, Differences
<1> HIDE DEF F
<1>14. ASSUME NEW i \in 1..L, NEW j \in 1..w
      PROVE  F[At(i, j, w)] = (o[i][j] - t[i][j]) * (o[i][j] - t[i][j])
  <2> DEFINE x == t[i][j]
             y == o[i][j]
  <2>1. F[At(i, j, w)] = (x - y) * (x - y) BY <1>10, <1>11, <1>12, <1>13
  <2>2. x \in Int /\ y \in Int BY <1>3
  <2> HIDE DEF x, y
  <2>3. (x - y) * (x - y) = (y - x) * (y - x) BY <2>2, SMT
  <2> QED BY <2>1, <2>3 DEF x, y
<1>15. \A i \in 1..L : R[i] = SumFunction([j \in 1..w |-> F[At(i, j, w)]])
  <2> SUFFICES ASSUME NEW i \in 1..L PROVE R[i] = SumFunction([j \in 1..w |-> F[At(i, j, w)]]) OBVIOUS
  <2>1. [j \in 1..w |-> F[At(i, j, w)]] = [j \in 1..w |-> (o[i][j] - t[i][j]) * (o[i][j] - t[i][j])]
    BY <1>14
  <2> QED BY <1>7, <2>1
<1>16. R = [i \in 1..L |-> R[i]] OBVIOUS
<1> HIDE DEF R
<1>17. R = [i \in 1..L |-> SumFunction([j \in 1..w |-> F[At(i, j, w)]])] BY <1>15, <1>16
<1>18. Rows(R, F, L, w) BY <1>13, <1>17 DEF Rows, n
<1>19. SumFunction(F) = SumFunction(R) BY <1>1, <1>18, DoubleSum
<1>20. ComputeLoss(m, D)[1] = SumFunction(F) /\ ComputeLoss(m, D)[2] = L * 3 BY <1>6, <1>19
<1> QED BY <1>8, <1>10, <1>11, <1>20 DEF F, a, p, n, L, w

(* Theorem: for networks with three outputs, as all of the program have      *)
(* (coordinator.go:366, demo/main.go:220), the loss in a model update is the *)
(* mean squared error the evaluator computes for the same network and data; the *)
(* mean absolute error is at most its root, and R2 is 1 only for a network   *)
(* without error or targets that do not vary (sensor.go:203-213,             *)
(* metrics.go:18-54, evaluator.go:45-55). The number of outputs is a hypothesis *)
(* because computeLoss divides by the literal 3.                             *)
THEOREM ReportedLossIsTheError == OutputDim = 3 => (Spec => []MetricsAgree)
<1> SUFFICES ASSUME OutputDim = 3 PROVE Spec => []MetricsAgree OBVIOUS
<1>1. Inv /\ Counting => MetricsAgree
  <2> SUFFICES ASSUME Inv, Counting, NEW u \in Range(updates)
               PROVE  LET actual == Actuals(data[u.sensor])
                          m == Calculate(actual, Predictions(mlp[u.sensor], data[u.sensor]))
                      IN /\ u.loss[1] * m.MSE[2] = m.MSE[1] * u.loss[2]
                         /\ m.MAE[1] * m.MAE[1] <= m.MSE[1] * m.MSE[2]
                         /\ m.R2[1] = m.R2[2] <=> m.MSE[1] = 0 \/ Cardinality(Range(actual)) = 1
    BY DEF MetricsAgree
  <2>1. PICK k \in 1..Len(updates) : u = updates[k]
    <3>1. DOMAIN updates = 1..Len(updates) BY SliceIs DEF Inv, Types
    <3> QED BY <3>1 DEF Range
  <2> DEFINE c == u.sensor
             D == data[c]
             net == mlp[c]
             a == Actuals(D)
             p == Predictions(net, D)
             n == Len(D) * OutputDim
             m == Calculate(a, p)
             e == SumFunction(SquaresOf(Differences(a, p, n), n))
  <2>2. Honest(u, mlp, data, step) BY <2>1 DEF Counting
  <2>3. c \in Clients /\ u.loss = ComputeLoss(net, D) BY <2>2 DEF Honest
  <2>4. Numbers(net) /\ D \in DataSets BY <2>3 DEF Counting, Inv, Types
  <2> HIDE DEF D, net, c
  <2>5. /\ n \in Nat \ {0} /\ a \in [1..n -> Int] /\ p \in [1..n -> Int]
        /\ ComputeLoss(net, D)[1] = e /\ ComputeLoss(net, D)[2] = Len(D) * 3
    BY <2>4, LossIs
  <2>6. u.loss[1] = e /\ u.loss[2] = n BY <2>3, <2>5
  <2> HIDE DEF a, p, n
  <2>7. /\ m.MSE = <<e, n>>
        /\ m.MAE[1] * m.MAE[1] <= m.MSE[1] * m.MSE[2]
        /\ m.R2[1] = m.R2[2] <=> m.MSE[1] = 0 \/ Cardinality(Range(a)) = 1
    BY <2>5, MetricsOf
  <2> HIDE DEF m, e
  <2>8. u.loss[1] * m.MSE[2] = m.MSE[1] * u.loss[2] BY <2>6, <2>7
  <2> QED BY <2>7, <2>8 DEF m, a, p, D, net, c
<1> QED BY LearningInvariant, CountingInvariant, <1>1, PTL
=============================================================================
