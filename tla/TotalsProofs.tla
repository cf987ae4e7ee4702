----------------------------- MODULE TotalsProofs -----------------------------
(***************************************************************************)
(* What sums of natural numbers over finite sets are: the facts that the   *)
(* proofs about stock need of them.                                        *)
(***************************************************************************)
EXTENDS Totals, FiniteSetTheorems, TLAPS

(* n gives each element of the finite set S a natural number.               *)
Countable(n, S) == IsFiniteSet(S) /\ \A x \in S : n[x] \in Nat

-------------------------------------------------------------------------------
(* A piece is an element of S and a number up to that of the element.       *)
LEMMA PieceOf ==
  ASSUME NEW n, NEW S
  PROVE  \A e : e \in Pieces(n, S) <=> \E x \in S : \E k \in 1..n[x] : e = <<x, k>>
  BY DEF Pieces

(* The pieces of one element.                                               *)
LEMMA PiecesOfOne ==
  ASSUME NEW n, NEW x, n[x] \in Nat
  PROVE  /\ IsFiniteSet({x} \X (1..n[x])) /\ Cardinality({x} \X (1..n[x])) = n[x]
         /\ Pieces(n, {x}) = {x} \X (1..n[x])
PROOF
  <1>1. IsFiniteSet(1..n[x]) /\ Cardinality(1..n[x]) = n[x]
    BY FS_Interval
  <1>2. IsFiniteSet({x}) /\ Cardinality({x}) = 1
    BY FS_Singleton
  <1>3. /\ IsFiniteSet({x} \X (1..n[x]))
        /\ Cardinality({x} \X (1..n[x])) = Cardinality({x}) * Cardinality(1..n[x])
    BY <1>1, <1>2, FS_Product
  <1>4. 1 * n[x] = n[x]
    OBVIOUS
  <1>5. Pieces(n, {x}) = {x} \X (1..n[x])
    BY DEF Pieces
  <1> QED
    BY <1>1, <1>2, <1>3, <1>4, <1>5

(* A sum is a natural number.                                               *)
LEMMA SumIsNat ==
  ASSUME NEW n, NEW S, Countable(n, S)
  PROVE  IsFiniteSet(Pieces(n, S)) /\ SumOver(n, S) \in Nat
PROOF
  <1> PICK T : T = {{x} \X (1..n[x]) : x \in S}
    OBVIOUS
  <1> PICK f : f = [x \in S |-> {x} \X (1..n[x])]
    OBVIOUS
  <1>1. f \in Surjection(S, T)
    BY DEF Surjection
  <1>2. IsFiniteSet(T)
    BY <1>1, FS_Surjection DEF Countable
  <1>3. \A U \in T : IsFiniteSet(U)
    BY PiecesOfOne DEF Countable
  <1>4. IsFiniteSet(UNION T)
    BY <1>2, <1>3, FS_UNION
  <1>5. IsFiniteSet(Pieces(n, S))
    BY <1>4 DEF Pieces
  <1> QED
    BY <1>5, FS_CardinalityType DEF SumOver

LEMMA SumOfNone == \A n : SumOver(n, {}) = 0
PROOF
  <1>1. \A n : Pieces(n, {}) = {}
    BY DEF Pieces
  <1> QED
    BY <1>1, FS_EmptySet DEF SumOver

LEMMA SumOfOne ==
  ASSUME NEW n, NEW x, n[x] \in Nat
  PROVE  SumOver(n, {x}) = n[x]
  BY PiecesOfOne DEF SumOver

(* Only the numbers of its elements matter to a sum.                        *)
LEMMA SumSame ==
  ASSUME NEW n, NEW m, NEW S, \A x \in S : n[x] = m[x]
  PROVE  SumOver(n, S) = SumOver(m, S)
PROOF
  <1>1. \A e : e \in Pieces(n, S) <=> e \in Pieces(m, S)
    BY PieceOf
  <1>2. Pieces(n, S) = Pieces(m, S)
    BY <1>1
  <1> QED
    BY <1>2 DEF SumOver

(* The sum over two sets that share nothing.                                *)
LEMMA SumUnion ==
  ASSUME NEW n, NEW S, NEW T, Countable(n, S), Countable(n, T), S \cap T = {}
  PROVE  /\ Countable(n, S \cup T)
         /\ SumOver(n, S \cup T) = SumOver(n, S) + SumOver(n, T)
PROOF
  <1>1. Pieces(n, S \cup T) = Pieces(n, S) \cup Pieces(n, T)
    BY DEF Pieces
  <1>2. Pieces(n, S) \cap Pieces(n, T) = {}
    BY PieceOf
  <1>3. IsFiniteSet(Pieces(n, S)) /\ IsFiniteSet(Pieces(n, T))
    BY SumIsNat
  <1>4. Cardinality(Pieces(n, S) \cup Pieces(n, T)) =
          Cardinality(Pieces(n, S)) + Cardinality(Pieces(n, T)) - Cardinality({})
    BY <1>2, <1>3, FS_Union
  <1>5. SumOver(n, S) \in Nat /\ SumOver(n, T) \in Nat /\ Cardinality({}) = 0
    BY SumIsNat, FS_EmptySet
  <1>6. SumOver(n, S \cup T) = SumOver(n, S) + SumOver(n, T) - Cardinality({})
    BY <1>1, <1>4 DEF SumOver
  <1>7. Countable(n, S \cup T)
    BY FS_Union DEF Countable
  <1> QED
    BY <1>5, <1>6, <1>7

(* A part of a set has a part of the sum.                                   *)
LEMMA SumOfPart ==
  ASSUME NEW n, NEW S, NEW T \in SUBSET S, Countable(n, S)
  PROVE  Countable(n, T) /\ SumOver(n, T) <= SumOver(n, S)
PROOF
  <1>1. Countable(n, T)
    BY FS_Subset DEF Countable
  <1>2. Pieces(n, T) \in SUBSET Pieces(n, S)
    BY DEF Pieces
  <1> QED
    BY <1>1, <1>2, SumIsNat, FS_Subset DEF SumOver

(* Larger numbers have a larger sum.                                        *)
LEMMA SumGrows ==
  ASSUME NEW n, NEW m, NEW S, Countable(m, S), \A x \in S : n[x] \in Nat /\ n[x] <= m[x]
  PROVE  Countable(n, S) /\ SumOver(n, S) <= SumOver(m, S)
PROOF
  <1>1. Countable(n, S) /\ \A x \in S : n[x] \in Nat /\ m[x] \in Nat /\ n[x] <= m[x]
    BY DEF Countable
  <1>2. Pieces(n, S) \in SUBSET Pieces(m, S)
    <2> SUFFICES ASSUME NEW e \in Pieces(n, S) PROVE e \in Pieces(m, S)
      OBVIOUS
    <2>1. PICK x \in S : \E k \in 1..n[x] : e = <<x, k>>
      BY PieceOf
    <2>2. PICK k \in 1..n[x] : e = <<x, k>>
      BY <2>1
    <2>3. k \in 1..m[x]
      BY <1>1, <2>2
    <2> QED
      BY <2>2, <2>3, PieceOf
  <1>3. IsFiniteSet(Pieces(m, S))
    BY SumIsNat
  <1>4. Cardinality(Pieces(n, S)) <= Cardinality(Pieces(m, S))
    BY <1>2, <1>3, FS_Subset
  <1> QED
    BY <1>1, <1>4 DEF SumOver

(* The sum with one element taken apart.                                    *)
LEMMA SumSplit ==
  ASSUME NEW n, NEW S, NEW x \in S, Countable(n, S)
  PROVE  /\ SumOver(n, S) = SumOver(n, S \ {x}) + n[x]
         /\ n[x] \in Nat /\ SumOver(n, S \ {x}) \in Nat /\ Countable(n, S \ {x})
PROOF
  <1>1. Countable(n, S \ {x}) /\ Countable(n, {x}) /\ n[x] \in Nat
    BY SumOfPart DEF Countable
  <1>2. (S \ {x}) \cap {x} = {} /\ (S \ {x}) \cup {x} = S
    OBVIOUS
  <1>3. SumOver(n, (S \ {x}) \cup {x}) = SumOver(n, S \ {x}) + SumOver(n, {x})
    BY <1>1, <1>2, SumUnion
  <1> QED
    BY <1>1, <1>2, <1>3, SumOfOne, SumIsNat

(* One element more.                                                        *)
LEMMA SumAdded ==
  ASSUME NEW n, NEW S, NEW x, x \notin S, Countable(n, S), n[x] \in Nat
  PROVE  Countable(n, S \cup {x}) /\ SumOver(n, S \cup {x}) = SumOver(n, S) + n[x]
PROOF
  <1>1. Countable(n, {x}) /\ S \cap {x} = {}
    BY FS_Singleton DEF Countable
  <1> QED
    BY <1>1, SumUnion, SumOfOne

(* The number of one element changes.                                       *)
LEMMA SumChanged ==
  ASSUME NEW n, NEW m, NEW S, NEW x \in S, Countable(n, S), Countable(m, S),
         \A y \in S \ {x} : n[y] = m[y]
  PROVE  SumOver(m, S) = SumOver(n, S) - n[x] + m[x]
PROOF
  <1>1. /\ SumOver(n, S) = SumOver(n, S \ {x}) + n[x]
        /\ n[x] \in Nat /\ SumOver(n, S \ {x}) \in Nat
    BY SumSplit
  <1>2. SumOver(m, S) = SumOver(m, S \ {x}) + m[x] /\ m[x] \in Nat
    BY SumSplit
  <1>3. SumOver(n, S \ {x}) = SumOver(m, S \ {x})
    BY SumSame
  <1> QED
    BY <1>1, <1>2, <1>3

(* The same numbers under other names.                                      *)
LEMMA SumRenamed ==
  ASSUME NEW n, NEW m, NEW S, NEW T, NEW g \in Bijection(S, T), Countable(n, S),
         \A x \in S : m[g[x]] = n[x]
  PROVE  Countable(m, T) /\ SumOver(m, T) = SumOver(n, S)
PROOF
  <1>0. g \in [S -> T] /\ (\A x, y \in S : g[x] = g[y] => x = y) /\ (\A z \in T : \E x \in S : g[x] = z)
    BY DEF Bijection, Injection, Surjection, IsInjective
  <1> PICK h : h = [e \in Pieces(n, S) |-> <<g[e[1]], e[2]>>]
    OBVIOUS
  <1>1. ASSUME NEW e \in Pieces(n, S)
        PROVE  h[e] \in Pieces(m, T) /\ e[1] \in S /\ e = <<e[1], e[2]>>
    <2> PICK x \in S : \E k \in 1..n[x] : e = <<x, k>>
      BY PieceOf
    <2>1. PICK k \in 1..n[x] : e = <<x, k>>
      OBVIOUS
    <2>2. h[e] = <<g[x], k>> /\ g[x] \in T /\ k \in 1..m[g[x]]
      BY <1>0, <2>1
    <2> QED
      BY <2>1, <2>2, PieceOf
  <1>2. ASSUME NEW d \in Pieces(n, S), NEW e \in Pieces(n, S), h[d] = h[e] PROVE d = e
    <2>1. g[d[1]] = g[e[1]] /\ d[2] = e[2]
      BY <1>2
    <2> QED
      BY <1>0, <1>1, <2>1
  <1>3. ASSUME NEW e \in Pieces(m, T) PROVE \E d \in Pieces(n, S) : h[d] = e
    <2> PICK y \in T : \E k \in 1..m[y] : e = <<y, k>>
      BY PieceOf
    <2>1. PICK k \in 1..m[y] : e = <<y, k>>
      OBVIOUS
    <2>2. PICK x \in S : g[x] = y
      BY <1>0
    <2>3. <<x, k>> \in Pieces(n, S)
      BY <2>1, <2>2, PieceOf
    <2> QED
      BY <2>1, <2>2, <2>3
  <1>4. h \in Bijection(Pieces(n, S), Pieces(m, T))
    BY <1>1, <1>2, <1>3 DEF Bijection, Injection, Surjection, IsInjective
  <1>5. Cardinality(Pieces(m, T)) = Cardinality(Pieces(n, S))
    BY <1>4, SumIsNat, FS_Bijection DEF ExistsBijection
  <1>6. IsFiniteSet(T)
    BY FS_Bijection DEF Countable, ExistsBijection
  <1>7. Countable(m, T)
    BY <1>0, <1>6 DEF Countable
  <1> QED
    BY <1>5, <1>7 DEF SumOver

LEMMA SumOfZeros ==
  ASSUME NEW n, NEW S, \A x \in S : n[x] = 0
  PROVE  SumOver(n, S) = 0
PROOF
  <1>1. Pieces(n, S) = {}
    BY PieceOf
  <1> QED
    BY <1>1, FS_EmptySet DEF SumOver

(* Only one element counts.                                                 *)
LEMMA SumIsOne ==
  ASSUME NEW n, NEW S, NEW x \in S, Countable(n, S), \A y \in S \ {x} : n[y] = 0
  PROVE  SumOver(n, S) = n[x]
PROOF
  <1>1. SumOver(n, S) = SumOver(n, S \ {x}) + n[x] /\ n[x] \in Nat
    BY SumSplit
  <1>2. SumOver(n, S \ {x}) = 0
    BY SumOfZeros
  <1> QED
    BY <1>1, <1>2

(* The sum over a sequence that is made of two.                             *)
LEMMA SumConcat ==
  ASSUME NEW a \in Nat, NEW b \in Nat, NEW c, c = a + b, NEW n, NEW m, NEW v,
         \A i \in 1..a : n[i] \in Nat, \A i \in 1..b : m[i] \in Nat,
         \A i \in 1..a : v[i] = n[i], \A i \in 1..b : v[a + i] = m[i]
  PROVE  SumOver(v, 1..c) = SumOver(n, 1..a) + SumOver(m, 1..b)
PROOF
  <1>1. /\ 1..(a + b) = (1..a) \cup ((a + 1)..(a + b))
        /\ (1..a) \cap ((a + 1)..(a + b)) = {}
    OBVIOUS
  <1>2. IsFiniteSet(1..a) /\ IsFiniteSet(1..b) /\ IsFiniteSet((a + 1)..(a + b))
    BY FS_Interval
  <1>3. Countable(m, 1..b) /\ Countable(v, 1..a)
    BY <1>2 DEF Countable
  <1>4. PICK g, T : g = [i \in 1..b |-> a + i] /\ T = (a + 1)..(a + b)
    OBVIOUS
  <1>5. g \in Bijection(1..b, T)
    <2>1. g \in [1..b -> T]
      BY <1>4
    <2>2. \A i, j \in 1..b : g[i] = g[j] => i = j
      BY <1>4
    <2>3. \A k \in T : k - a \in 1..b /\ g[k - a] = k
      BY <1>4
    <2> QED
      BY <2>1, <2>2, <2>3 DEF Bijection, Injection, Surjection, IsInjective
  <1>6. \A i \in 1..b : v[g[i]] = m[i]
    BY <1>4
  <1>7. Countable(v, T) /\ SumOver(v, T) = SumOver(m, 1..b)
    BY <1>3, <1>5, <1>6, SumRenamed
  <1>8. (1..a) \cup T = 1..c /\ (1..a) \cap T = {}
    BY <1>1, <1>4
  <1>9. SumOver(v, (1..a) \cup T) = SumOver(v, 1..a) + SumOver(v, T)
    BY <1>3, <1>7, <1>8, SumUnion
  <1>10. SumOver(v, 1..a) = SumOver(n, 1..a)
    BY SumSame
  <1> QED
    BY <1>7, <1>8, <1>9, <1>10

(* Sets that share nothing and lie in J have at most its elements together. *)
LEMMA SumFits ==
  ASSUME NEW n, NEW S, NEW A, NEW J, Countable(n, S), IsFiniteSet(J),
         \A x \in S : A[x] \in SUBSET J /\ Cardinality(A[x]) = n[x],
         \A x, y \in S : x # y => A[x] \cap A[y] = {}
  PROVE  SumOver(n, S) <= Cardinality(J)
PROOF
  <1> PICK g : g = [x \in S |-> CHOOSE f : f \in Bijection(1..n[x], A[x])]
    OBVIOUS
  <1>1. ASSUME NEW x \in S PROVE g[x] \in Bijection(1..n[x], A[x])
    <2>1. IsFiniteSet(A[x])
      BY FS_Subset
    <2>2. Bijection(1..n[x], A[x]) # {}
      BY <2>1, FS_CardinalityType DEF ExistsBijection
    <2> QED
      BY <2>2
  <1> PICK h : h = [e \in Pieces(n, S) |-> g[e[1]][e[2]]]
    OBVIOUS
  <1>2. ASSUME NEW e \in Pieces(n, S)
        PROVE  /\ e[1] \in S /\ e[2] \in 1..n[e[1]] /\ e = <<e[1], e[2]>>
               /\ h[e] \in A[e[1]] /\ h[e] \in J /\ h[e] = g[e[1]][e[2]]
    <2> PICK x \in S : \E k \in 1..n[x] : e = <<x, k>>
      BY PieceOf
    <2>1. PICK k \in 1..n[x] : e = <<x, k>>
      OBVIOUS
    <2>2. g[x] \in [1..n[x] -> A[x]]
      BY <1>1 DEF Bijection, Injection
    <2> QED
      BY <2>1, <2>2
  <1>3. ASSUME NEW d \in Pieces(n, S), NEW e \in Pieces(n, S), h[d] = h[e] PROVE d = e
    <2>1. d[1] = e[1]
      BY <1>2, <1>3
    <2>2. g[d[1]] \in Bijection(1..n[d[1]], A[d[1]])
      BY <1>1, <1>2
    <2>3. g[d[1]] \in [1..n[d[1]] -> A[d[1]]] /\ IsInjective(g[d[1]])
      BY <2>2 DEF Bijection, Injection
    <2>4. \A i, j \in 1..n[d[1]] : g[d[1]][i] = g[d[1]][j] => i = j
      BY <2>3 DEF IsInjective
    <2>5. d[2] \in 1..n[d[1]] /\ e[2] \in 1..n[d[1]] /\ g[d[1]][d[2]] = g[d[1]][e[2]]
      BY <1>2, <1>3, <2>1
    <2>6. d[2] = e[2]
      BY <2>4, <2>5
    <2>7. d = <<d[1], d[2]>> /\ e = <<e[1], e[2]>>
      BY <1>2
    <2> QED
      BY <2>1, <2>6, <2>7
  <1>4. h \in Injection(Pieces(n, S), J)
    BY <1>2, <1>3 DEF Injection, IsInjective
  <1> QED
    BY <1>4, FS_Injection DEF SumOver

(* Every set of natural numbers that is not empty has a least one.          *)
LEMMA LeastExists ==
  ASSUME NEW T \in SUBSET Nat, T # {}
  PROVE  \E t \in T : \A u \in T : t <= u
PROOF
  <1> PICK less : less = {e \in Nat \X Nat : e[1] < e[2]}
    OBVIOUS
  <1>1. OpToRel(<, Nat) = {e \in Nat \X Nat : e[1] < e[2]}
    BY Zenon DEF OpToRel
  <1>2. IsWellFoundedOn(less, Nat)
    BY <1>1, NatLessThanWellFounded, Zenon
  <1>3. PICK t \in T : \A u \in T : ~(<<u, t>> \in less)
    BY <1>2, WFMin
  <1>4. \A u \in T : ~(u < t)
    BY <1>3
  <1> QED
    BY <1>4

(* A finite, not empty set has an element with the largest number.          *)
LEMMA LargestExists ==
  ASSUME NEW n, NEW S, NEW b \in Nat, S # {}, \A x \in S : n[x] \in Nat /\ n[x] <= b
  PROVE  \E x \in S : \A y \in S : n[y] <= n[x]
PROOF
  <1> PICK T : T = {b - n[x] : x \in S}
    OBVIOUS
  <1>1. T \in SUBSET Nat /\ T # {}
    OBVIOUS
  <1>2. PICK t \in T : \A u \in T : t <= u
    BY <1>1, LeastExists
  <1>3. PICK x \in S : t = b - n[x]
    OBVIOUS
  <1>4. \A y \in S : b - n[x] <= b - n[y]
    BY <1>2, <1>3
  <1> QED
    BY <1>4

(* Of finitely many numbers one is the largest. *)
LEMMA LargestOfFinite ==
  ASSUME NEW D, IsFiniteSet(D), D # {}, NEW f, \A i \in D : f[i] \in Nat
  PROVE  \E m \in D : \A i \in D : f[i] <= f[m]
  <1> PICK upTo : upTo = [i \in D |-> {j \in D : f[j] <= f[i]}]
    OBVIOUS
  <1> PICK c : c = [i \in D |-> Cardinality(upTo[i])]
    OBVIOUS
  <1>1. \A i \in D : upTo[i] \in SUBSET D
    OBVIOUS
  <1>2. Cardinality(D) \in Nat /\ \A i \in D : IsFiniteSet(upTo[i]) /\ c[i] \in Nat /\ c[i] <= Cardinality(D)
    BY <1>1, FS_Subset, FS_CardinalityType
  <1>3. PICK m \in D : \A i \in D : c[i] <= c[m]
    BY <1>2, LargestExists
  <1>4. ASSUME NEW i \in D, ~(f[i] <= f[m]) PROVE FALSE
    <2>1. i \in upTo[i] /\ i \notin upTo[m] /\ \A j \in upTo[m] : j \in upTo[i]
      BY <1>3, <1>4
    <2>2. upTo[m] \in SUBSET upTo[i]
      BY <2>1
    <2>3. c[m] <= c[i] /\ (c[i] = c[m] => upTo[i] = upTo[m])
      BY <1>2, <1>3, <2>2, FS_Subset
    <2>4. c[i] \in Nat /\ c[m] \in Nat /\ c[i] <= c[m]
      BY <1>2, <1>3
    <2>5. c[i] = c[m]
      BY ONLY <2>3, <2>4
    <2> QED
      BY <2>1, <2>3, <2>5
  <1> QED
    BY <1>3, <1>4
==============================================================================
