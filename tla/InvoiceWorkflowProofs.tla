------------------------ MODULE InvoiceWorkflowProofs ------------------------
(***************************************************************************)
(* Theorems about InvoiceWorkflow, for every choice of its constants: no   *)
(* double billing, statuses that agree with the money, what is left of a   *)
(* credit note and what backs a deduction, corrections that fit the cash.  *)
(***************************************************************************)
EXTENDS InvoiceWorkflow, FiniteSetTheorems, WellFoundedInduction, TLAPS

-----------------------------------------------------------------------------
(* Sums: facts about SumFunctionOnSet, which stands for the SUM(...)        *)
(* aggregates of the code. The library defines it by recursion over the     *)
(* subsets of the index set; the provers cannot instantiate the library's   *)
(* induction theorems, so each induction is a least counterexample, found   *)
(* with WFMin.                                                              *)

Some(R) == CHOOSE x \in R : TRUE

\* T gives every subset of S its total.
IsTotal(T, f, S) ==
    T = [R \in SUBSET S |->
            IF R = {} THEN 0 ELSE f[Some(R)] + T[R \ {Some(R)}]]

\* The library's definition, as a choice of such a T.
LEMMA SumIsTotal ==
  ASSUME NEW f, NEW S
  PROVE  SumFunctionOnSet(f, S) = (CHOOSE T : IsTotal(T, f, S))[S]
BY DEF SumFunctionOnSet, FoldFunctionOnSet, MapThenFoldSet, IsTotal, Some

\* A nonempty set of naturals has a least element.
LEMMA LeastNat ==
  ASSUME NEW N, N \subseteq Nat, N # {}
  PROVE  \E m \in N : \A k \in N : m <= k
<1> DEFINE R == OpToRel(<, Nat)
<1>1. IsWellFoundedOn(R, Nat)
  BY NatLessThanWellFounded, Zenon
<1> HIDE DEF R
<1>2. PICK m \in N : \A y \in N : ~(<<y, m>> \in R)
  BY <1>1, WFMin, Zenon
<1>3. \A y \in N : y < m => <<y, m>> \in R
  BY Zenon DEF R, OpToRel
<1>4. \A y \in N : ~(y < m)
  BY <1>2, <1>3, Zenon
<1>5. m \in Nat /\ \A k \in N : k \in Nat
  OBVIOUS
<1>6. \A k \in N : m <= k
  BY <1>4, <1>5, SMT
<1>. QED  BY <1>6, Zenon

\* A nonempty collection of finite sets has one none of whose proper subsets,
\* obtained by removing an element, is in the collection.
LEMMA LeastSet ==
  ASSUME NEW C, C # {}, \A S \in C : IsFiniteSet(S)
  PROVE  \E S \in C : \A x \in S : S \ {x} \notin C
<1> DEFINE N == {Cardinality(S) : S \in C}
<1>1. N \subseteq Nat
  BY FS_CardinalityType
<1>2. N # {}
  OBVIOUS
<1>3. PICK m \in N : \A k \in N : m <= k
  BY <1>1, <1>2, LeastNat
<1>4. PICK S \in C : m = Cardinality(S)
  BY <1>3
<1>5. ASSUME NEW x \in S PROVE S \ {x} \notin C
  <2>1. Cardinality(S \ {x}) = Cardinality(S) - 1 /\ Cardinality(S) \in Nat
    BY FS_RemoveElement, FS_CardinalityType
  <2>2. SUFFICES ASSUME S \ {x} \in C PROVE FALSE
    OBVIOUS
  <2>3. m <= Cardinality(S \ {x})
    BY <1>3, <2>2
  <2>. QED  BY <1>4, <2>1, <2>3
<1>. QED  BY <1>5

LEMMA SomeMember ==
  ASSUME NEW R, R # {}
  PROVE  Some(R) \in R
BY DEF Some

\* Totals for functions that agree on a set give it the same total.
LEMMA TotalUnique ==
  ASSUME NEW f, NEW g, NEW S1, NEW S2, NEW T1, NEW T2,
         IsTotal(T1, f, S1), IsTotal(T2, g, S2),
         NEW S, S \subseteq S1, S \subseteq S2, IsFiniteSet(S),
         \A x \in S : f[x] = g[x]
  PROVE  T1[S] = T2[S]
<1> DEFINE Bad == {R \in SUBSET S : T1[R] # T2[R]}
<1>1. SUFFICES ASSUME Bad # {} PROVE FALSE
  OBVIOUS
<1>2. \A R \in Bad : IsFiniteSet(R)
  BY FS_Subset
<1>3. PICK R \in Bad : \A x \in R : R \ {x} \notin Bad
  BY <1>1, <1>2, LeastSet
<1>4. T1[R] = (IF R = {} THEN 0 ELSE f[Some(R)] + T1[R \ {Some(R)}])
  BY R \in SUBSET S1 DEF IsTotal
<1>5. T2[R] = (IF R = {} THEN 0 ELSE g[Some(R)] + T2[R \ {Some(R)}])
  BY R \in SUBSET S2 DEF IsTotal
<1>6. R # {}
  BY <1>4, <1>5
<1>7. Some(R) \in R
  BY <1>6, SomeMember
<1>8. T1[R \ {Some(R)}] = T2[R \ {Some(R)}]
  BY <1>3, <1>7
<1>. QED  BY <1>4, <1>5, <1>6, <1>7, <1>8

\* Every finite set has a total.
LEMMA TotalExists ==
  ASSUME NEW f, NEW S, IsFiniteSet(S)
  PROVE  \E T : IsTotal(T, f, S)
<1> DEFINE Good(R) == \E T : IsTotal(T, f, R)
           Bad == {R \in SUBSET S : ~Good(R)}
<1>1. SUFFICES ASSUME Bad # {} PROVE FALSE
  OBVIOUS
<1>2. \A R \in Bad : IsFiniteSet(R)
  BY FS_Subset
<1>3. PICK R \in Bad : \A x \in R : R \ {x} \notin Bad
  BY <1>1, <1>2, LeastSet
<1>4. R # {}
  <2>1. SUFFICES ASSUME R = {} PROVE FALSE
    OBVIOUS
  <2>2. IsTotal([Q \in SUBSET R |-> 0], f, R)
    BY <2>1 DEF IsTotal
  <2>. QED  BY <2>2
<1>5. \A x \in R : Good(R \ {x})
  BY <1>3
<1>6. \A Q \in SUBSET R : Q # R => Good(Q)
  <2>1. SUFFICES ASSUME NEW Q \in SUBSET R, Q # R PROVE Good(Q)
    OBVIOUS
  <2>2. PICK x \in R : x \notin Q
    BY <2>1
  <2>3. PICK T : IsTotal(T, f, R \ {x})
    BY <1>5
  <2>4. Q \subseteq R \ {x}
    BY <2>2
  <2>5. IsTotal([P \in SUBSET Q |-> T[P]], f, Q)
    <3>1. ASSUME NEW P \in SUBSET Q
          PROVE T[P] = IF P = {} THEN 0 ELSE f[Some(P)] + T[P \ {Some(P)}]
      BY <2>3, <2>4, P \in SUBSET (R \ {x}) DEF IsTotal
    <3>2. \A P \in SUBSET Q : P \ {Some(P)} \in SUBSET Q
      OBVIOUS
    <3>. QED  BY <3>1, <3>2 DEF IsTotal
  <2>. QED  BY <2>5
<1> DEFINE tot == [Q \in SUBSET R |-> (CHOOSE T : IsTotal(T, f, Q))[Q]]
           full == [Q \in SUBSET R |->
                      IF Q = R THEN f[Some(R)] + tot[R \ {Some(R)}] ELSE tot[Q]]
<1>7. \A Q \in SUBSET R : Q # R =>
         tot[Q] = IF Q = {} THEN 0 ELSE f[Some(Q)] + tot[Q \ {Some(Q)}]
  <2>1. SUFFICES ASSUME NEW Q \in SUBSET R, Q # R
                 PROVE  tot[Q] = IF Q = {} THEN 0 ELSE f[Some(Q)] + tot[Q \ {Some(Q)}]
    OBVIOUS
  <2> DEFINE TQ == CHOOSE T : IsTotal(T, f, Q)
             P == Q \ {Some(Q)}
             TP == CHOOSE T : IsTotal(T, f, P)
  <2>2. IsTotal(TQ, f, Q)
    BY <1>6, <2>1, Zenon
  <2>3. tot[Q] = TQ[Q]
    BY Zenon
  <2>4. TQ[Q] = IF Q = {} THEN 0 ELSE f[Some(Q)] + TQ[P]
    <3> HIDE DEF TQ
    <3>. QED  BY <2>2 DEF IsTotal
  <2>5. P \in SUBSET R /\ P # R
    BY <2>1
  <2>6. IsTotal(TP, f, P)
    BY <1>6, <2>5, Zenon
  <2>7. tot[P] = TP[P]
    BY <2>5, Zenon
  <2>8. TQ[P] = TP[P]
    <3>1. P \subseteq Q /\ P \subseteq P /\ IsFiniteSet(P)
      BY <1>2, FS_Subset
    <3> HIDE DEF TQ, TP, P
    <3>. QED  BY <2>2, <2>6, <3>1, TotalUnique
  <2> HIDE DEF TQ, TP, tot
  <2>. QED  BY <2>3, <2>4, <2>7, <2>8
<1>8. IsTotal(full, f, R)
  <2> HIDE DEF tot
  <2>1. ASSUME NEW Q \in SUBSET R
        PROVE  full[Q] = IF Q = {} THEN 0 ELSE f[Some(Q)] + full[Q \ {Some(Q)}]
    <3>1. CASE Q = R
      <4>1. Some(R) \in R
        BY <1>4, SomeMember
      <4>. QED  BY <1>4, <3>1, <4>1
    <3>2. CASE Q # R
      <4>1. Q \ {Some(Q)} # R
        BY <3>2
      <4>. QED  BY <1>7, <3>2, <4>1
    <3>. QED  BY <3>1, <3>2
  <2>2. full = [Q \in SUBSET R |-> full[Q]]
    OBVIOUS
  <2> HIDE DEF full
  <2>. QED  BY <2>1, <2>2 DEF IsTotal
<1>. QED  BY <1>8

LEMMA SumUnfold ==
  ASSUME NEW f, NEW S, IsFiniteSet(S)
  PROVE  SumFunctionOnSet(f, S) =
            IF S = {} THEN 0
            ELSE f[Some(S)] + SumFunctionOnSet(f, S \ {Some(S)})
<1> DEFINE P == S \ {Some(S)}
           TS == CHOOSE T : IsTotal(T, f, S)
           TP == CHOOSE T : IsTotal(T, f, P)
<1>1. IsFiniteSet(P) /\ P \subseteq S
  BY FS_Subset
<1>2. IsTotal(TS, f, S)
  BY TotalExists, Zenon
<1>3. IsTotal(TP, f, P)
  BY <1>1, TotalExists, Zenon
<1>4. SumFunctionOnSet(f, S) = TS[S] /\ SumFunctionOnSet(f, P) = TP[P]
  BY SumIsTotal, Zenon
<1> HIDE DEF TS, TP
<1>5. TS[P] = TP[P]
  <2> HIDE DEF P
  <2>. QED  BY <1>1, <1>2, <1>3, TotalUnique
<1>6. TS[S] = IF S = {} THEN 0 ELSE f[Some(S)] + TS[P]
  BY <1>2 DEF IsTotal
<1>. QED  BY <1>4, <1>5, <1>6

\* The sum over nothing.
LEMMA SumEmpty ==
  ASSUME NEW f
  PROVE  SumFunctionOnSet(f, {}) = 0
BY SumUnfold, FS_EmptySet

\* Only the values on the index set count.
LEMMA SumSame ==
  ASSUME NEW f, NEW g, NEW S, IsFiniteSet(S), \A x \in S : f[x] = g[x]
  PROVE  SumFunctionOnSet(f, S) = SumFunctionOnSet(g, S)
<1> DEFINE TF == CHOOSE T : IsTotal(T, f, S)
           TG == CHOOSE T : IsTotal(T, g, S)
<1>1. IsTotal(TF, f, S) /\ IsTotal(TG, g, S)
  BY TotalExists, Zenon
<1>2. SumFunctionOnSet(f, S) = TF[S] /\ SumFunctionOnSet(g, S) = TG[S]
  BY SumIsTotal, Zenon
<1> HIDE DEF TF, TG
<1>. QED  BY <1>1, <1>2, TotalUnique

\* Integers sum to an integer.
LEMMA SumInt ==
  ASSUME NEW f, NEW S, IsFiniteSet(S), \A x \in S : f[x] \in Int
  PROVE  SumFunctionOnSet(f, S) \in Int
<1> DEFINE Bad == {R \in SUBSET S : SumFunctionOnSet(f, R) \notin Int}
<1>1. SUFFICES ASSUME Bad # {} PROVE FALSE
  OBVIOUS
<1>2. \A R \in Bad : IsFiniteSet(R)
  BY FS_Subset
<1>3. PICK R \in Bad : \A x \in R : R \ {x} \notin Bad
  BY <1>1, <1>2, LeastSet
<1>4. SumFunctionOnSet(f, R) = IF R = {} THEN 0
         ELSE f[Some(R)] + SumFunctionOnSet(f, R \ {Some(R)})
  BY <1>2, SumUnfold
<1>5. R # {} => Some(R) \in R
  BY SomeMember
<1>. QED  BY <1>3, <1>4, <1>5

\* Naturals sum to a natural.
LEMMA SumNat ==
  ASSUME NEW f, NEW S, IsFiniteSet(S), \A x \in S : f[x] \in Nat
  PROVE  SumFunctionOnSet(f, S) \in Nat
<1> DEFINE Bad == {R \in SUBSET S : SumFunctionOnSet(f, R) \notin Nat}
<1>1. SUFFICES ASSUME Bad # {} PROVE FALSE
  OBVIOUS
<1>2. \A R \in Bad : IsFiniteSet(R)
  BY FS_Subset
<1>3. PICK R \in Bad : \A x \in R : R \ {x} \notin Bad
  BY <1>1, <1>2, LeastSet
<1>4. SumFunctionOnSet(f, R) = IF R = {} THEN 0
         ELSE f[Some(R)] + SumFunctionOnSet(f, R \ {Some(R)})
  BY <1>2, SumUnfold
<1>5. R # {} => Some(R) \in R
  BY SomeMember
<1>. QED  BY <1>3, <1>4, <1>5

\* Any element can be split off, whichever one the recursion picks first.
LEMMA SumRemove ==
  ASSUME NEW f, NEW S, IsFiniteSet(S), \A x \in S : f[x] \in Int, NEW x \in S
  PROVE  SumFunctionOnSet(f, S) = f[x] + SumFunctionOnSet(f, S \ {x})
<1> DEFINE Sum(R) == SumFunctionOnSet(f, R)
           Bad == {R \in SUBSET S : \E y \in R : Sum(R) # f[y] + Sum(R \ {y})}
<1>1. SUFFICES ASSUME Bad # {} PROVE FALSE
  OBVIOUS
<1>2. \A R \in SUBSET S : IsFiniteSet(R) /\ Sum(R) \in Int
  BY FS_Subset, SumInt
<1>3. PICK R \in Bad : \A z \in R : R \ {z} \notin Bad
  BY <1>1, <1>2, LeastSet
<1>4. PICK y \in R : Sum(R) # f[y] + Sum(R \ {y})
  BY <1>3
<1> DEFINE s == Some(R)
<1>5. s \in R
  BY <1>4, SomeMember
<1>6. Sum(R) = f[s] + Sum(R \ {s})
  BY <1>2, <1>4, SumUnfold
<1> HIDE DEF s
<1>7. y # s
  BY <1>4, <1>6
<1>8. Sum(R \ {s}) = f[y] + Sum((R \ {s}) \ {y})
  BY <1>3, <1>5, <1>7
<1>9. Sum(R \ {y}) = f[s] + Sum((R \ {y}) \ {s})
  BY <1>3, <1>5, <1>7
<1>10. (R \ {s}) \ {y} = (R \ {y}) \ {s}
  OBVIOUS
<1>11. f[s] \in Int /\ f[y] \in Int /\ Sum((R \ {s}) \ {y}) \in Int
  BY <1>2, <1>5
<1>12. Sum((R \ {s}) \ {y}) = Sum((R \ {y}) \ {s})
  BY <1>10
<1> DEFINE rest == Sum((R \ {s}) \ {y})
<1>13. Sum(R) = f[s] + (f[y] + rest)
  BY <1>6, <1>8
<1>14. f[y] + Sum(R \ {y}) = f[y] + (f[s] + rest)
  BY <1>9, <1>12
<1>15. rest \in Int
  BY <1>11
<1> HIDE DEF Sum, rest
<1>. QED  BY <1>4, <1>11, <1>13, <1>14, <1>15

\* Adding an index adds its value.
LEMMA SumAdd ==
  ASSUME NEW f, NEW S, IsFiniteSet(S), NEW x, x \notin S,
         \A y \in S \cup {x} : f[y] \in Int
  PROVE  SumFunctionOnSet(f, S \cup {x}) = f[x] + SumFunctionOnSet(f, S)
<1>1. IsFiniteSet(S \cup {x}) /\ (S \cup {x}) \ {x} = S
  BY FS_AddElement
<1>. QED  BY <1>1, SumRemove

\* A part of a set of naturals sums to no more than the whole.
LEMMA SumSubset ==
  ASSUME NEW f, NEW S, IsFiniteSet(S), \A x \in S : f[x] \in Nat,
         NEW R \in SUBSET S
  PROVE  SumFunctionOnSet(f, R) <= SumFunctionOnSet(f, S)
<1> DEFINE Sum(Q) == SumFunctionOnSet(f, Q)
           Bad == {Q \in SUBSET S : R \subseteq Q /\ ~(Sum(R) <= Sum(Q))}
<1>1. SUFFICES ASSUME Bad # {} PROVE FALSE
  OBVIOUS
<1>2. \A Q \in SUBSET S : IsFiniteSet(Q) /\ Sum(Q) \in Nat
  BY FS_Subset, SumNat
<1>3. PICK Q \in Bad : \A z \in Q : Q \ {z} \notin Bad
  BY <1>1, <1>2, LeastSet
<1>4. PICK z \in Q : z \notin R
  <2>1. Sum(R) \in Nat
    BY <1>2
  <2>2. Q # R
    BY <1>3, <2>1
  <2>. QED  BY <1>3, <2>2
<1>5. Sum(R) <= Sum(Q \ {z})
  BY <1>3, <1>4
<1>6. Sum(Q) = f[z] + Sum(Q \ {z})
  BY <1>2, <1>4, SumRemove
<1>7. Sum(Q \ {z}) \in Nat /\ Sum(R) \in Nat /\ f[z] \in Nat
  BY <1>2, <1>4
<1> HIDE DEF Sum
<1>. QED  BY <1>3, <1>5, <1>6, <1>7

\* Positive integers, at least one of them, sum to a positive integer.
LEMMA SumPositive ==
  ASSUME NEW f, NEW S, IsFiniteSet(S), S # {},
         \A x \in S : f[x] \in Int /\ f[x] > 0
  PROVE  SumFunctionOnSet(f, S) > 0
<1>1. PICK x \in S : TRUE
  OBVIOUS
<1>2. SumFunctionOnSet(f, S) = f[x] + SumFunctionOnSet(f, S \ {x})
  BY SumRemove
<1>3. SumFunctionOnSet(f, S \ {x}) \in Nat
  BY FS_Subset, SumNat
<1>. QED  BY <1>2, <1>3

\* Indices with the value 0 do not count.
LEMMA SumDropZeros ==
  ASSUME NEW f, NEW S, IsFiniteSet(S), \A x \in S : f[x] \in Int
  PROVE  SumFunctionOnSet(f, {x \in S : f[x] # 0}) = SumFunctionOnSet(f, S)
<1> DEFINE Sum(R) == SumFunctionOnSet(f, R)
           NonZero(R) == {x \in R : f[x] # 0}
           Bad == {R \in SUBSET S : Sum(NonZero(R)) # Sum(R)}
<1>1. SUFFICES ASSUME Bad # {} PROVE FALSE
  OBVIOUS
<1>2. \A R \in SUBSET S : IsFiniteSet(R) /\ Sum(R) \in Int
  BY FS_Subset, SumInt
<1>3. PICK R \in Bad : \A x \in R : R \ {x} \notin Bad
  BY <1>1, <1>2, LeastSet
<1>4. PICK x \in R : TRUE
  <2>1. R = {} => NonZero(R) = R
    OBVIOUS
  <2>. QED  BY <1>3, <2>1
<1>5. Sum(NonZero(R \ {x})) = Sum(R \ {x})
  BY <1>3, <1>4
<1>6. Sum(R) = f[x] + Sum(R \ {x})
  BY <1>2, <1>4, SumRemove
<1>7. NonZero(R) \in SUBSET S /\ Sum(R \ {x}) \in Int
  BY <1>2
<1>8. CASE f[x] = 0
  <2>1. NonZero(R \ {x}) = NonZero(R)
    BY <1>8
  <2> HIDE DEF Sum, NonZero
  <2>2. Sum(NonZero(R)) = Sum(R \ {x})
    BY <1>5, <2>1
  <2>3. Sum(R) = Sum(R \ {x})
    BY <1>6, <1>7, <1>8
  <2>. QED  BY <1>3, <2>2, <2>3
<1>9. CASE f[x] # 0
  <2>1. NonZero(R \ {x}) = NonZero(R) \ {x} /\ x \in NonZero(R)
    BY <1>4, <1>9
  <2>2. Sum(NonZero(R)) = f[x] + Sum(NonZero(R) \ {x})
    <3>1. \A y \in NonZero(R) : f[y] \in Int
      OBVIOUS
    <3> HIDE DEF NonZero
    <3>. QED  BY <1>2, <1>7, <2>1, <3>1, SumRemove
  <2> HIDE DEF Sum, NonZero
  <2>. QED  BY <1>3, <1>5, <1>6, <2>1, <2>2
<1>. QED  BY <1>8, <1>9

\* Renaming the indices, no two to the same, does not change the sum.
LEMMA SumReindex ==
  ASSUME NEW f, NEW g, NEW h, NEW S, IsFiniteSet(S),
         \A x \in S : f[x] \in Int /\ g[h[x]] = f[x],
         \A x, y \in S : h[x] = h[y] => x = y
  PROVE  SumFunctionOnSet(g, {h[x] : x \in S}) = SumFunctionOnSet(f, S)
<1> DEFINE Im(R) == {h[x] : x \in R}
           Bad == {R \in SUBSET S :
                     \/ ~IsFiniteSet(Im(R))
                     \/ SumFunctionOnSet(g, Im(R)) # SumFunctionOnSet(f, R)}
<1>1. SUFFICES ASSUME Bad # {} PROVE FALSE
  OBVIOUS
<1>2. \A R \in SUBSET S : IsFiniteSet(R)
  BY FS_Subset
<1>3. PICK R \in Bad : \A x \in R : R \ {x} \notin Bad
  BY <1>1, <1>2, LeastSet
<1>4. PICK x \in R : TRUE
  <2>1. R = {} => Im(R) = {}
    OBVIOUS
  <2>. QED  BY <1>3, <2>1, SumEmpty, FS_EmptySet
<1>5. /\ IsFiniteSet(Im(R \ {x}))
      /\ SumFunctionOnSet(g, Im(R \ {x})) = SumFunctionOnSet(f, R \ {x})
  BY <1>3, <1>4
<1>6. SumFunctionOnSet(f, R) = f[x] + SumFunctionOnSet(f, R \ {x})
  BY <1>2, <1>4, SumRemove
<1>7. IsFiniteSet(Im(R))
  <2>1. PICK T : T = Im(R \ {x})
    OBVIOUS
  <2>2. PICK y : y = h[x]
    OBVIOUS
  <2>3. Im(R) = T \cup {y}
    BY <1>4, <2>1, <2>2
  <2>4. IsFiniteSet(T \cup {y})
    BY <1>5, <2>1, FS_AddElement
  <2> HIDE DEF Im
  <2>. QED  BY <2>3, <2>4
<1>8. Im(R \ {x}) = Im(R) \ {h[x]} /\ h[x] \in Im(R)
  BY <1>4
<1>9. \A y \in Im(R) : g[y] \in Int
  OBVIOUS
<1>10. SumFunctionOnSet(g, Im(R)) = g[h[x]] + SumFunctionOnSet(g, Im(R) \ {h[x]})
  <2> HIDE DEF Im
  <2>. QED  BY <1>7, <1>8, <1>9, SumRemove
<1>11. g[h[x]] = f[x]
  BY <1>4
<1> HIDE DEF Im
<1>. QED  BY <1>3, <1>5, <1>6, <1>7, <1>8, <1>10, <1>11

-----------------------------------------------------------------------------
(* Amounts are integers *)

LEMMA MaxOfTwo ==
  ASSUME NEW a \in Int, NEW b \in Int
  PROVE  Max({a, b}) = IF a >= b THEN a ELSE b
<1>1. \E x \in {a, b} : \A y \in {a, b} : x >= y
  <2>1. CASE a >= b  BY <2>1
  <2>2. CASE b >= a  BY <2>2
  <2>. QED  BY <2>1, <2>2
<1>2. Max({a, b}) \in {a, b} /\ \A y \in {a, b} : Max({a, b}) >= y
  BY <1>1 DEF Max
<1>. QED  BY <1>2

LEMMA MinOfTwo ==
  ASSUME NEW a \in Int, NEW b \in Int
  PROVE  Min({a, b}) = IF a <= b THEN a ELSE b
<1>1. \E x \in {a, b} : \A y \in {a, b} : x <= y
  <2>1. CASE a <= b  BY <2>1
  <2>2. CASE b <= a  BY <2>2
  <2>. QED  BY <2>1, <2>2
<1>2. Min({a, b}) \in {a, b} /\ \A y \in {a, b} : Min({a, b}) <= y
  BY <1>1 DEF Min
<1>. QED  BY <1>2

LEMMA RoundInt ==
  ASSUME NEW a \in Int
  PROVE  round_to_step(a) \in Int /\ rounding_difference(a) \in Int
BY ConstantsAssumption DEF round_to_step, rounding_difference

LEMMA DueInt ==
  ASSUME TypeOK, NEW i \in DOMAIN invoices
  PROVE  amount_due(i) \in Int
<1>1. invoices[i] \in Invoice
  BY DEF TypeOK
<1>2. /\ invoices[i].total \in Int /\ invoices[i].credit_applied \in Int
      /\ invoices[i].due_rounding \in Int
  BY <1>1 DEF Invoice
<1>3. invoices[i].total - invoices[i].credit_applied \in Int
  BY <1>2
<1>4. Max({invoices[i].total - invoices[i].credit_applied, 0}) \in Int
  BY <1>3, MaxOfTwo
<1>. QED  BY <1>2, <1>4 DEF amount_due

LEMMA PaymentsFinite ==
  ASSUME TypeOK
  PROVE  IsFiniteSet(DOMAIN payments)
BY ConstantsAssumption, FS_Subset DEF TypeOK

LEMMA CreditsFinite ==
  ASSUME TypeOK
  PROVE  IsFiniteSet(DOMAIN credits)
<1>1. credit_counter - 1 \in Int
  BY ConstantsAssumption DEF TypeOK
<1>2. IsFiniteSet(1..(credit_counter - 1))
  BY <1>1, FS_Interval
<1>. QED  BY <1>2 DEF TypeOK

LEMMA ApplicationsFinite ==
  ASSUME TypeOK
  PROVE  IsFiniteSet(DOMAIN applications)
<1>0. invoice_counter - 1 \in Int
  BY ConstantsAssumption DEF TypeOK
<1>1. IsFiniteSet(1..(invoice_counter - 1))
  BY <1>0, FS_Interval
<1>2. IsFiniteSet(DOMAIN invoices)
  BY <1>1, FS_Subset DEF TypeOK
<1>3. IsFiniteSet((DOMAIN credits) \X (DOMAIN invoices))
  BY <1>2, CreditsFinite, FS_Product
<1>. QED  BY <1>3, FS_Subset DEF TypeOK

LEMMA PaidInt ==
  ASSUME TypeOK, NEW i
  PROVE  paid_chf(i) \in Int
<1> DEFINE f == [p \in DOMAIN payments |-> payments[p].amount]
<1>1. \A p \in PaymentsOf(i) : f[p] \in Int
  BY DEF TypeOK, Payment, PaymentsOf
<1>2. IsFiniteSet(PaymentsOf(i))
  BY PaymentsFinite, FS_Subset DEF PaymentsOf
<1> HIDE DEF f
<1>3. SumFunctionOnSet(f, PaymentsOf(i)) \in Int
  BY <1>1, <1>2, SumInt
<1>. QED  BY <1>3 DEF paid_chf, f

LEMMA CreditedInt ==
  ASSUME TypeOK, NEW i
  PROVE  credited_chf(i) \in Int
<1> DEFINE f == [c \in DOMAIN credits |-> credits[c].amount - credits[c].rounding]
<1>1. \A c \in CreditsOf(i) : f[c] \in Int
  BY DEF TypeOK, Credit, CreditsOf
<1>2. IsFiniteSet(CreditsOf(i))
  BY CreditsFinite, FS_Subset DEF CreditsOf
<1> HIDE DEF f
<1>3. SumFunctionOnSet(f, CreditsOf(i)) \in Int
  BY <1>1, <1>2, SumInt
<1>. QED  BY <1>3 DEF credited_chf, f

LEMMA RemainingInt ==
  ASSUME TypeOK, NEW c \in DOMAIN credits, NEW kept
  PROVE  RemainingWith(c, kept) \in Int
<1> DEFINE S == {a \in DOMAIN applications :
                    a[1] = c /\ a[2] \in kept /\ ~applications[a].released}
<1>1. \A a \in S : AppliedAmount[a] \in Int
  BY DEF TypeOK, CreditApplication, AppliedAmount
<1>2. IsFiniteSet(S)
  BY ApplicationsFinite, FS_Subset
<1>3. SumFunctionOnSet(AppliedAmount, S) \in Int
  <2> HIDE DEF S
  <2>. QED  BY <1>1, <1>2, SumInt
<1>4. credits[c].amount \in Int /\ credits[c].refunded \in Int
  BY DEF TypeOK, Credit
<1>. QED  BY <1>3, <1>4 DEF RemainingWith

LEMMA TakenInt ==
  ASSUME TypeOK, NEW c \in DOMAIN credits, NEW p, NEW total \in Int, NEW kept
  PROVE  TakenOf(c, p, total, kept) \in Int
<1> DEFINE open == [d \in DOMAIN credits |-> Max({RemainingWith(d, kept), 0})]
           S == {d \in OwnCredits(p) : d < c}
           to_cover == total - SumFunctionOnSet(open, S)
<1>1. \A d \in DOMAIN credits : open[d] \in Int
  BY RemainingInt, MaxOfTwo
<1>2. IsFiniteSet(S) /\ S \subseteq DOMAIN credits
  BY CreditsFinite, FS_Subset DEF OwnCredits
<1>3. SumFunctionOnSet(open, S) \in Int
  <2> HIDE DEF open, S
  <2>. QED  BY <1>1, <1>2, SumInt
<1>4. to_cover \in Int /\ open[c] \in Int
  BY <1>1, <1>3
<1>5. TakenOf(c, p, total, kept) =
         IF c \in OwnCredits(p) THEN Max({Min({open[c], to_cover}), 0}) ELSE 0
  BY DEF TakenOf
<1> HIDE DEF open, to_cover
<1>6. Min({open[c], to_cover}) \in Int
  BY <1>4, MinOfTwo
<1>7. Max({Min({open[c], to_cover}), 0}) \in Int
  BY <1>6, MaxOfTwo
<1>. QED  BY <1>5, <1>7

-----------------------------------------------------------------------------
(* Type correctness *)

LEMMA BookPaymentType ==
  ASSUME TypeOK, NEW i \in DOMAIN invoices, NEW amount \in Int, BookPayment(i, amount)
  PROVE  payments' \in [DOMAIN payments' -> Payment] /\ DOMAIN payments' \subseteq PaymentIds
<1>1. i \in Nat
  BY DEF TypeOK
<1>2. [invoice |-> i, amount |-> amount] \in Payment
  BY <1>1 DEF Payment
<1>. QED  BY <1>2 DEF BookPayment, TypeOK

LEMMA TransitionType ==
  ASSUME TypeOK, NEW i, NEW from, NEW to \in InvoiceStatus, Transition(i, from, to)
  PROVE  invoices' \in [DOMAIN invoices' -> Invoice] /\ DOMAIN invoices' = DOMAIN invoices
BY DEF Transition, TypeOK, Invoice

LEMMA ReleaseType ==
  ASSUME TypeOK, NEW i, release_credit_applications(i)
  PROVE  /\ applications' \in [DOMAIN applications' -> CreditApplication]
         /\ DOMAIN applications' = DOMAIN applications
BY DEF release_credit_applications, TypeOK, CreditApplication

LEMMA IssueCreditType ==
  ASSUME TypeOK, NEW i \in DOMAIN invoices, NEW kind \in CreditKind,
         NEW amount \in Int, IssueCredit(i, kind, amount)
  PROVE  /\ credits' \in [DOMAIN credits' -> Credit]
         /\ credit_counter' \in 1..(MaxCredits + 1)
         /\ DOMAIN credits' = 1..(credit_counter' - 1)
         /\ DOMAIN credits \subseteq DOMAIN credits'
<1>1. i \in Nat /\ invoices[i].participant \in Participants
  BY DEF TypeOK, Invoice
<1>2. [participant |-> invoices[i].participant, source |-> i, kind |-> kind,
       amount |-> round_to_step(amount), rounding |-> rounding_difference(amount),
       refunded |-> 0] \in Credit
  BY <1>1, RoundInt DEF Credit
<1>3. credit_counter \in Nat /\ credit_counter >= 1
  BY ConstantsAssumption DEF TypeOK
<1>4. (1..(credit_counter - 1)) \cup {credit_counter} = 1..credit_counter
  BY <1>3
<1>5. /\ credit_counter' = credit_counter + 1 /\ credit_counter <= MaxCredits
      /\ DOMAIN credits' = DOMAIN credits \cup {credit_counter}
      /\ credits' = [c \in DOMAIN credits' |-> credits'[c]]
      /\ \A c \in DOMAIN credits' : credits'[c] \in Credit
  BY <1>2 DEF IssueCredit, TypeOK
<1>6. DOMAIN credits = 1..(credit_counter - 1)
  BY DEF TypeOK
<1>7. credits' \in [DOMAIN credits' -> Credit]
  BY <1>5
<1>8. credit_counter' \in 1..(MaxCredits + 1) /\ credit_counter' - 1 = credit_counter
  BY <1>3, <1>5, ConstantsAssumption
<1>. QED  BY <1>4, <1>5, <1>6, <1>7, <1>8

LEMMA GenerateType ==
  ASSUME TypeOK, NEW p \in Participants, NEW start \in Days, NEW end \in Days,
         NEW subtotal \in Subtotals, generate_invoice(p, start, end, subtotal)
  PROVE  TypeOK'
<1> DEFINE new == invoice_counter
           doomed == Doomed(p, start, end)
           kept == DOMAIN invoices \ doomed
           total == round_to_step(subtotal)
           taken == [c \in DOMAIN credits |-> TakenOf(c, p, total, kept)]
           applied == SumFunction(taken)
           due == IF applied > 0 /\ total > applied
                  THEN rounding_difference(total - applied) ELSE 0
           row == [participant |-> p, period_start |-> start, period_end |-> end,
                   status |-> "draft", approved |-> FALSE, total |-> total,
                   credit_applied |-> applied, due_rounding |-> due]
           keptApps == {a \in DOMAIN applications : a[2] \in kept}
           newApps == {<<c, new>> : c \in {d \in DOMAIN credits : taken[d] > 0}}
<1>1. total \in Int
  BY RoundInt, ConstantsAssumption
<1>2. \A c \in DOMAIN credits : taken[c] \in Int
  <2> HIDE DEF total, kept
  <2>. QED  BY <1>1, TakenInt
<1>3. applied \in Int
  <2>1. DOMAIN taken = DOMAIN credits
    OBVIOUS
  <2> HIDE DEF taken
  <2>. QED  BY <1>2, <2>1, CreditsFinite, SumInt DEF SumFunction
<1>4. due \in Int
  <2> HIDE DEF total, applied
  <2>. QED  BY <1>1, <1>3, RoundInt
<1>5. row \in Invoice
  <2> HIDE DEF total, applied, due
  <2>. QED  BY <1>1, <1>3, <1>4 DEF Invoice, InvoiceStatus
<1>6. /\ invoice_counter <= MaxInvoices
      /\ invoices' = [i \in kept \cup {new} |-> IF i = new THEN row ELSE invoices[i]]
      /\ invoice_counter' = invoice_counter + 1
      /\ payments' = Restrict(payments,
                        {q \in DOMAIN payments : payments[q].invoice \notin doomed})
      /\ applications' = [a \in keptApps \cup newApps |->
                IF a[2] = new THEN [amount |-> taken[a[1]], released |-> FALSE]
                ELSE applications[a]]
      /\ UNCHANGED <<credits, credit_counter, deleting>>
  BY DEF generate_invoice
<1>7. new \in Nat /\ new >= 1 /\ DOMAIN invoices \subseteq 1..(new - 1)
  BY ConstantsAssumption DEF TypeOK
<1> HIDE DEF doomed, taken, applied, row
<1>8. /\ invoices' \in [DOMAIN invoices' -> Invoice]
      /\ DOMAIN invoices' = kept \cup {new}
      /\ DOMAIN invoices' \subseteq 1..(invoice_counter' - 1)
      /\ invoice_counter' \in 1..(MaxInvoices + 1)
  BY <1>5, <1>6, <1>7, ConstantsAssumption DEF TypeOK
<1>9. payments' \in [DOMAIN payments' -> Payment] /\ DOMAIN payments' \subseteq PaymentIds
  BY <1>6 DEF TypeOK, Restrict
<1>10. /\ applications' \in [DOMAIN applications' -> CreditApplication]
       /\ DOMAIN applications' \subseteq (DOMAIN credits') \X (DOMAIN invoices')
  <2>1. \A a \in keptApps : a \in (DOMAIN credits) \X kept
    BY DEF TypeOK
  <2>2. \A a \in newApps : a \in (DOMAIN credits) \X {new}
    OBVIOUS
  <2>3. \A a \in keptApps \cup newApps :
           a[1] \in DOMAIN credits /\ a \in (DOMAIN credits) \X (kept \cup {new})
    BY <2>1, <2>2
  <2>4. \A a \in keptApps \cup newApps : a[2] # new => a \in DOMAIN applications
    BY <2>2
  <2> HIDE DEF keptApps, newApps, kept
  <2>5. DOMAIN applications' = keptApps \cup newApps
    BY <1>6
  <2>6. \A a \in keptApps \cup newApps : applications'[a] \in CreditApplication
    BY <1>2, <1>6, <2>3, <2>4 DEF TypeOK, CreditApplication
  <2>7. applications' = [a \in DOMAIN applications' |-> applications'[a]]
    BY <1>6
  <2>. QED  BY <1>6, <1>8, <2>3, <2>5, <2>6, <2>7
<1>. QED  BY <1>6, <1>8, <1>9, <1>10 DEF TypeOK

LEMMA OutstandingInt ==
  ASSUME TypeOK, NEW i \in DOMAIN invoices
  PROVE  amount_due(i) - paid_chf(i) \in Int /\ creditable(i) \in Int
BY DueInt, PaidInt, CreditedInt DEF creditable

LEMMA TypeStep ==
  ASSUME TypeOK, [Next]_vars
  PROVE  TypeOK'
<1>1. CASE \E p \in Participants, start, end \in Days, subtotal \in Subtotals :
              generate_invoice(p, start, end, subtotal)
  BY <1>1, GenerateType
<1>2. ASSUME NEW i \in DOMAIN invoices, InvoiceStep(i)
      PROVE  TypeOK'
  <2>1. CASE approve_invoice(i)
    <3>1. invoices' \in [DOMAIN invoices' -> Invoice] /\ DOMAIN invoices' = DOMAIN invoices
      <4>1. \A j \in DOMAIN invoices : invoices[j] \in Invoice
        BY DEF TypeOK
      <4>2. [invoices[i] EXCEPT !.status = "approved", !.approved = TRUE] \in Invoice
        BY <4>1 DEF Invoice, InvoiceStatus
      <4>3. invoices' = [invoices EXCEPT
                ![i] = [invoices[i] EXCEPT !.status = "approved", !.approved = TRUE]]
        BY <2>1 DEF approve_invoice, TypeOK
      <4>. QED  BY <4>1, <4>2, <4>3 DEF TypeOK
    <3>. QED  BY <2>1, <3>1 DEF approve_invoice, TypeOK, ledger
  <2>2. CASE mark_invoice_sent(i)
    <3>1. invoices' \in [DOMAIN invoices' -> Invoice] /\ DOMAIN invoices' = DOMAIN invoices
      BY <2>2, TransitionType DEF mark_invoice_sent, InvoiceStatus
    <3>. QED  BY <2>2, <3>1 DEF mark_invoice_sent, TypeOK, ledger
  <2>3. ASSUME NEW amount \in PaymentAmounts, record_payment(i, amount)
        PROVE  TypeOK'
    <3>1. invoices' \in [DOMAIN invoices' -> Invoice] /\ DOMAIN invoices' = DOMAIN invoices
      BY <2>3, TransitionType DEF record_payment, InvoiceStatus
    <3>2. payments' \in [DOMAIN payments' -> Payment] /\ DOMAIN payments' \subseteq PaymentIds
      BY <2>3, BookPaymentType, ConstantsAssumption DEF record_payment
    <3>. QED  BY <2>3, <3>1, <3>2 DEF record_payment, TypeOK
  <2>4. CASE mark_invoice_paid(i)
    <3>1. invoices' \in [DOMAIN invoices' -> Invoice] /\ DOMAIN invoices' = DOMAIN invoices
      BY <2>4, TransitionType DEF mark_invoice_paid, InvoiceStatus
    <3>2. payments' \in [DOMAIN payments' -> Payment] /\ DOMAIN payments' \subseteq PaymentIds
      <4>1. CASE BookPayment(i, amount_due(i) - paid_chf(i))
        BY <4>1, OutstandingInt, BookPaymentType
      <4>2. CASE UNCHANGED payments
        BY <4>2 DEF TypeOK
      <4>. QED  BY <2>4, <4>1, <4>2 DEF mark_invoice_paid
    <3>. QED  BY <2>4, <3>1, <3>2 DEF mark_invoice_paid, TypeOK
  <2>5. CASE cancel_invoice(i)
    <3>1. invoices' \in [DOMAIN invoices' -> Invoice] /\ DOMAIN invoices' = DOMAIN invoices
      BY <2>5, TransitionType DEF cancel_invoice, InvoiceStatus
    <3>2. /\ applications' \in [DOMAIN applications' -> CreditApplication]
          /\ DOMAIN applications' = DOMAIN applications
      BY <2>5, ReleaseType DEF cancel_invoice
    <3>. QED  BY <2>5, <3>1, <3>2 DEF cancel_invoice, TypeOK
  <2>6. CASE reverse_invoice(i)
    <3>1. invoices' \in [DOMAIN invoices' -> Invoice] /\ DOMAIN invoices' = DOMAIN invoices
      BY <2>6 DEF reverse_invoice, TypeOK, Invoice, InvoiceStatus
    <3>2. /\ applications' \in [DOMAIN applications' -> CreditApplication]
          /\ DOMAIN applications' = DOMAIN applications
      BY <2>6, ReleaseType DEF reverse_invoice
    <3>3. /\ credits' \in [DOMAIN credits' -> Credit]
          /\ credit_counter' \in 1..(MaxCredits + 1)
          /\ DOMAIN credits' = 1..(credit_counter' - 1)
          /\ DOMAIN credits \subseteq DOMAIN credits'
      <4>1. CASE IssueCredit(i, "reversal", creditable(i))
        BY <4>1, OutstandingInt, IssueCreditType DEF CreditKind
      <4>2. CASE UNCHANGED <<credits, credit_counter>>
        BY <4>2 DEF TypeOK
      <4>. QED  BY <2>6, <4>1, <4>2 DEF reverse_invoice
    <3>4. payments' = payments /\ deleting' = deleting /\ invoice_counter' = invoice_counter
      BY <2>6 DEF reverse_invoice
    <3>. QED  BY <3>1, <3>2, <3>3, <3>4 DEF TypeOK
  <2>7. ASSUME NEW amount \in CreditAmounts, adjust_invoice(i, amount)
        PROVE  TypeOK'
    <3>1. /\ credits' \in [DOMAIN credits' -> Credit]
          /\ credit_counter' \in 1..(MaxCredits + 1)
          /\ DOMAIN credits' = 1..(credit_counter' - 1)
          /\ DOMAIN credits \subseteq DOMAIN credits'
      BY <2>7, IssueCreditType, ConstantsAssumption DEF adjust_invoice, CreditKind
    <3>. QED  BY <2>7, <3>1 DEF adjust_invoice, TypeOK
  <2>8. ASSUME NEW admin \in BOOLEAN, destroy_check(i, admin)
        PROVE  TypeOK'
    <3>1. i \in Nat
      BY DEF TypeOK
    <3>. QED  BY <2>8, <3>1 DEF destroy_check, TypeOK, ledger
  <2>. QED  BY <1>2, <2>1, <2>2, <2>3, <2>4, <2>5, <2>6, <2>7, <2>8 DEF InvoiceStep
<1>3. ASSUME NEW p \in DOMAIN payments, delete_payment(p)
      PROVE  TypeOK'
  <2> DEFINE i == payments[p].invoice
             to == IF Status(i) = "paid" /\ paid_chf(i) - payments[p].amount # amount_due(i)
                   THEN "sent" ELSE Status(i)
  <2>1. Transition(i, {"sent", "paid"}, to)
    BY <1>3 DEF delete_payment
  <2>2. to \in InvoiceStatus
    BY <2>1 DEF Transition, InvoiceStatus
  <2> HIDE DEF to, i
  <2>3. invoices' \in [DOMAIN invoices' -> Invoice] /\ DOMAIN invoices' = DOMAIN invoices
    BY <2>1, <2>2, TransitionType
  <2>4. payments' \in [DOMAIN payments' -> Payment] /\ DOMAIN payments' \subseteq PaymentIds
    BY <1>3 DEF delete_payment, TypeOK, Restrict
  <2>. QED  BY <1>3, <2>3, <2>4 DEF delete_payment, TypeOK
<1>4. ASSUME NEW c \in DOMAIN credits, refund_credit(c)
      PROVE  TypeOK'
  <2>1. credit_remaining(c) \in Int
    BY RemainingInt DEF credit_remaining
  <2>2. credits' \in [DOMAIN credits -> Credit]
    <3> DEFINE row == [credits[c] EXCEPT !.refunded = credits[c].refunded + credit_remaining(c)]
    <3>1. row \in Credit
      <4>1. credits[c] \in Credit
        BY DEF TypeOK
      <4> HIDE DEF credit_remaining
      <4>. QED  BY <2>1, <4>1 DEF Credit
    <3>2. credits' = [credits EXCEPT ![c] = row]
      BY <1>4, Zenon DEF refund_credit
    <3> HIDE DEF row
    <3>. QED  BY <3>1, <3>2 DEF TypeOK
  <2>. QED  BY <1>4, <2>2 DEF refund_credit, TypeOK
<1>5. ASSUME NEW r \in deleting, destroy_delete(r)
      PROVE  TypeOK'
  <2>1. CASE r \in DOMAIN invoices /\ CreditsOf(r) = {}
    <3>1. /\ invoices' = Restrict(invoices, DOMAIN invoices \ {r})
          /\ payments' = Restrict(payments, DOMAIN payments \ PaymentsOf(r))
          /\ applications' = Restrict(applications,
                                {a \in DOMAIN applications : a[2] # r})
          /\ deleting' \subseteq deleting
          /\ UNCHANGED <<invoice_counter, credits, credit_counter>>
      BY <1>5, <2>1 DEF destroy_delete
    <3>2. \A a \in DOMAIN applications : a[2] # r =>
             a \in (DOMAIN credits) \X (DOMAIN invoices \ {r})
      BY DEF TypeOK
    <3>. QED  BY <3>1, <3>2 DEF TypeOK, Restrict
  <2>2. CASE ~(r \in DOMAIN invoices /\ CreditsOf(r) = {})
    BY <1>5, <2>2 DEF destroy_delete, TypeOK
  <2>. QED  BY <2>1, <2>2
<1>6. CASE UNCHANGED vars
  BY <1>6 DEF vars, ledger, TypeOK
<1>. QED  BY <1>1, <1>2, <1>3, <1>4, <1>5, <1>6 DEF Next

\* Every reachable state is well typed: rows keep their shape, counters stay
\* ahead of the numbers handed out, and no credit application names an
\* invoice or credit note that is gone, whatever is deleted or replaced.
THEOREM TypeCorrect == Spec => []TypeOK
<1>1. Init => TypeOK
  BY ConstantsAssumption DEF Init, TypeOK
<1>2. TypeOK /\ [Next]_vars => TypeOK'
  BY TypeStep
<1>. QED  BY <1>1, <1>2, PTL DEF Spec

-----------------------------------------------------------------------------
(* No day is billed twice *)

\* approved_at is stamped by the step that leaves draft, and no step returns
\* to draft.  Without this, a draft that was issued would survive its own
\* replacement.
DraftsUnissued == \A i \in DOMAIN invoices : Status(i) = "draft" => ~Issued(i)

BillingInv == TypeOK /\ DraftsUnissued /\ NoDoubleBilling

\* A step that keeps who and when, revives nothing and drafts nothing.
LEMMA QuietBilling ==
  ASSUME BillingInv, TypeOK',
         DOMAIN invoices' \subseteq DOMAIN invoices,
         \A i \in DOMAIN invoices' :
            /\ invoices'[i].participant = invoices[i].participant
            /\ invoices'[i].period_start = invoices[i].period_start
            /\ invoices'[i].period_end = invoices[i].period_end
            /\ invoices'[i].status # "cancelled" => invoices[i].status # "cancelled"
            /\ invoices'[i].status = "draft" =>
                  invoices[i].status = "draft" /\ invoices'[i].approved = invoices[i].approved
  PROVE  BillingInv'
BY DEF BillingInv, DraftsUnissued, NoDoubleBilling, Live, Status, Issued

LEMMA GenerateBilling ==
  ASSUME BillingInv, TypeOK', NEW p \in Participants,
         NEW start \in Days, NEW end \in Days,
         NEW subtotal \in Subtotals, generate_invoice(p, start, end, subtotal)
  PROVE  BillingInv'
<1> DEFINE new == invoice_counter
           kept == DOMAIN invoices \ Doomed(p, start, end)
<1>1. /\ start <= end
      /\ Replaceable(p, start, end)
      /\ DOMAIN invoices' = kept \cup {new}
      /\ \A i \in kept \cup {new} : i # new => invoices'[i] = invoices[i]
      /\ invoices'[new].participant = p
      /\ invoices'[new].period_start = start /\ invoices'[new].period_end = end
      /\ invoices'[new].status = "draft" /\ invoices'[new].approved = FALSE
  BY DEF generate_invoice
<1>2. new \notin DOMAIN invoices /\ new \in Nat
  BY ConstantsAssumption DEF BillingInv, TypeOK
<1>3. DraftsUnissued'
  BY <1>1, <1>2 DEF BillingInv, DraftsUnissued, Status, Issued
<1>4. ASSUME NEW j \in kept, invoices[j].status # "cancelled",
             invoices[j].participant = p
      PROVE  invoices[j].period_end < start \/ end < invoices[j].period_start
  <2>1. invoices[j] \in Invoice /\ j \in DOMAIN invoices
    BY DEF BillingInv, TypeOK
  <2>2. invoices[j].period_start \in Int /\ invoices[j].period_end \in Int
        /\ start \in Int /\ end \in Int
    BY <2>1, ConstantsAssumption DEF Invoice, Days
  <2>3. SUFFICES ASSUME invoices[j].period_start <= end, invoices[j].period_end >= start
                 PROVE  FALSE
    BY <2>2
  <2>4. j \in Overlapping(p, start, end)
    BY <1>4, <2>1, <2>3 DEF Overlapping, Overlaps
  <2>5. Status(j) = "draft"
    BY <1>1, <1>4, <2>4 DEF Replaceable, Status
  <2>6. ~Issued(j)
    BY <2>1, <2>5 DEF BillingInv, DraftsUnissued
  <2>. QED  BY <2>4, <2>6 DEF Doomed
<1>5. NoDoubleBilling'
  <2>1. SUFFICES ASSUME NEW i \in DOMAIN invoices', NEW j \in DOMAIN invoices',
                        i # j, invoices'[i].status # "cancelled",
                        invoices'[j].status # "cancelled",
                        invoices'[i].participant = invoices'[j].participant
                 PROVE  \/ invoices'[i].period_end < invoices'[j].period_start
                        \/ invoices'[j].period_end < invoices'[i].period_start
    BY DEF NoDoubleBilling, Live
  <2>2. CASE i = new
    <3>1. j \in kept /\ invoices'[j] = invoices[j]
      BY <1>1, <2>1, <2>2
    <3>. QED  BY <1>1, <1>4, <2>1, <2>2, <3>1
  <2>3. CASE j = new
    <3>1. i \in kept /\ invoices'[i] = invoices[i]
      BY <1>1, <2>1, <2>3
    <3>. QED  BY <1>1, <1>4, <2>1, <2>3, <3>1
  <2>4. CASE i # new /\ j # new
    <3>1. /\ i \in DOMAIN invoices /\ invoices'[i] = invoices[i]
          /\ j \in DOMAIN invoices /\ invoices'[j] = invoices[j]
      BY <1>1, <2>4
    <3>. QED  BY <2>1, <3>1 DEF BillingInv, NoDoubleBilling, Live
  <2>. QED  BY <2>2, <2>3, <2>4
<1>. QED  BY <1>3, <1>5 DEF BillingInv

LEMMA BillingStep ==
  ASSUME BillingInv, [Next]_vars
  PROVE  BillingInv'
<1>0. TypeOK'
  BY TypeStep DEF BillingInv
<1>t. invoices \in [DOMAIN invoices -> Invoice]
  BY DEF BillingInv, TypeOK
<1>1. CASE \E p \in Participants, start, end \in Days, subtotal \in Subtotals :
              generate_invoice(p, start, end, subtotal)
  BY <1>0, <1>1, GenerateBilling
<1>2. ASSUME NEW i, NEW from, NEW to, Transition(i, from, to),
             "cancelled" \notin from, to # "draft"
      PROVE  BillingInv'
  BY <1>0, <1>2, <1>t, QuietBilling DEF Transition, Status, Invoice
<1>3. ASSUME UNCHANGED invoices PROVE BillingInv'
  BY <1>0, <1>3, QuietBilling
<1>4. ASSUME NEW i \in DOMAIN invoices, InvoiceStep(i)
      PROVE  BillingInv'
  <2>1. CASE approve_invoice(i)
    <3>1. \A j \in DOMAIN invoices : j # i => invoices'[j] = invoices[j]
      BY <1>t, <2>1 DEF approve_invoice
    <3>2. /\ invoices'[i].participant = invoices[i].participant
          /\ invoices'[i].period_start = invoices[i].period_start
          /\ invoices'[i].period_end = invoices[i].period_end
          /\ invoices'[i].status = "approved" /\ invoices[i].status = "draft"
          /\ DOMAIN invoices' = DOMAIN invoices
      BY <1>t, <2>1 DEF approve_invoice, Status, Invoice
    <3>. QED  BY <1>0, <3>1, <3>2, QuietBilling
  <2>2. CASE mark_invoice_sent(i)
    BY <1>2, <2>2 DEF mark_invoice_sent
  <2>3. CASE \E amount \in PaymentAmounts : record_payment(i, amount)
    BY <1>2, <2>3 DEF record_payment
  <2>4. CASE mark_invoice_paid(i)
    BY <1>2, <2>4 DEF mark_invoice_paid
  <2>5. CASE cancel_invoice(i)
    BY <1>2, <2>5 DEF cancel_invoice
  <2>6. CASE reverse_invoice(i)
    BY <1>2, <2>6 DEF reverse_invoice, Correctable, Transition
  <2>7. CASE \E amount \in CreditAmounts : adjust_invoice(i, amount)
    BY <1>3, <2>7 DEF adjust_invoice
  <2>8. CASE \E admin \in BOOLEAN : destroy_check(i, admin)
    BY <1>3, <2>8 DEF destroy_check
  <2>. QED  BY <1>4, <2>1, <2>2, <2>3, <2>4, <2>5, <2>6, <2>7, <2>8 DEF InvoiceStep
<1>5. ASSUME NEW p \in DOMAIN payments, delete_payment(p)
      PROVE  BillingInv'
  <2> DEFINE i == payments[p].invoice
             to == IF Status(i) = "paid" /\ paid_chf(i) - payments[p].amount # amount_due(i)
                   THEN "sent" ELSE Status(i)
  <2>1. Transition(i, {"sent", "paid"}, to)
    BY <1>5 DEF delete_payment
  <2>2. to # "draft"
    BY <2>1 DEF Transition
  <2> HIDE DEF to, i
  <2>. QED  BY <1>2, <2>1, <2>2
<1>6. ASSUME NEW c \in DOMAIN credits, refund_credit(c)
      PROVE  BillingInv'
  BY <1>3, <1>6 DEF refund_credit
<1>7. ASSUME NEW r \in deleting, destroy_delete(r)
      PROVE  BillingInv'
  <2>1. \/ UNCHANGED invoices
        \/ invoices' = Restrict(invoices, DOMAIN invoices \ {r})
    BY <1>7 DEF destroy_delete
  <2>. QED  BY <1>0, <1>3, <2>1, QuietBilling DEF Restrict
<1>8. CASE UNCHANGED vars
  BY <1>3, <1>8 DEF vars
<1>. QED  BY <1>1, <1>4, <1>5, <1>6, <1>7, <1>8 DEF Next

LEMMA BillingInit == Init => BillingInv
BY ConstantsAssumption DEF Init, BillingInv, TypeOK, DraftsUnissued, NoDoubleBilling

\* No participant is ever billed twice for a day by invoices that stand, for
\* any number of participants, days, invoices and concurrent requests.
THEOREM NeverBilledTwice == Spec => []NoDoubleBilling
<1>1. BillingInv /\ [Next]_vars => BillingInv'
  BY BillingStep
<1>2. BillingInv => NoDoubleBilling
  BY DEF BillingInv
<1>. QED  BY BillingInit, <1>1, <1>2, PTL DEF Spec

\* Only a delete request ever removes an issued invoice; regeneration never
\* does (ADR 0037).
THEOREM IssuedInvoicesRetained == Spec => RegenerationSparesIssued
<1>1. TypeOK /\ [Next]_vars => [RetentionStep]_vars
  <2>1. SUFFICES ASSUME TypeOK, Next, NEW i \in DOMAIN invoices, Issued(i), i \notin DOMAIN invoices'
                 PROVE  i \in deleting
    BY DEF RetentionStep
  <2>2. invoices \in [DOMAIN invoices -> Invoice]
    BY <2>1 DEF TypeOK
  <2>3. ASSUME NEW p \in Participants, NEW start \in Days, NEW end \in Days,
               NEW subtotal \in Subtotals, generate_invoice(p, start, end, subtotal)
        PROVE  FALSE
    <3>1. DOMAIN invoices \ Doomed(p, start, end) \subseteq DOMAIN invoices'
      BY <2>3 DEF generate_invoice
    <3>. QED  BY <2>1, <3>1 DEF Doomed
  <2>4. ASSUME NEW j \in DOMAIN invoices, InvoiceStep(j)
        PROVE  DOMAIN invoices' = DOMAIN invoices
    BY <2>2, <2>4 DEF InvoiceStep, approve_invoice, mark_invoice_sent, record_payment,
          mark_invoice_paid, cancel_invoice, reverse_invoice, adjust_invoice,
          destroy_check, Transition
  <2>5. ASSUME NEW p \in DOMAIN payments, delete_payment(p)
        PROVE  DOMAIN invoices' = DOMAIN invoices
    BY <2>2, <2>5 DEF delete_payment, Transition
  <2>6. ASSUME NEW c \in DOMAIN credits, refund_credit(c)
        PROVE  DOMAIN invoices' = DOMAIN invoices
    BY <2>6 DEF refund_credit
  <2>7. ASSUME NEW r \in deleting, destroy_delete(r)
        PROVE  r = i
    BY <2>1, <2>7 DEF destroy_delete, Restrict
  <2>. QED  BY <2>1, <2>3, <2>4, <2>5, <2>6, <2>7 DEF Next
<1>. QED  BY TypeCorrect, <1>1, PTL DEF Spec, RegenerationSparesIssued

-----------------------------------------------------------------------------
(* The status agrees with the money *)

\* Payments belong to stored invoices.  Those of an invoice with something to
\* collect are positive, and a payout has at most one: otherwise removing a
\* payment could leave the rest above the amount due.
PaymentsSound ==
    \A p \in DOMAIN payments :
        LET i == payments[p].invoice
        IN  /\ i \in DOMAIN invoices
            /\ amount_due(i) > 0 => payments[p].amount > 0
            /\ amount_due(i) <= 0 => PaymentsOf(i) = {p}

MoneyInv == TypeOK /\ PaymentsSound /\ StatusAgreesWithPayments

\* The status of one invoice agrees with its payments.
Agrees(i) ==
    /\ Status(i) = "paid" => paid_chf(i) = amount_due(i)
    /\ Status(i) = "sent" => \/ PaymentsOf(i) = {}
                             \/ 0 < paid_chf(i) /\ paid_chf(i) < amount_due(i)
    /\ Status(i) \in {"draft", "approved"} => PaymentsOf(i) = {}

LEMMA AgreesAll ==
  StatusAgreesWithPayments <=> \A i \in DOMAIN invoices : Agrees(i)
BY DEF StatusAgreesWithPayments, Agrees

\* An invoice whose row keeps its terms keeps its amount due.
LEMMA DueKept ==
  ASSUME NEW i, invoices'[i].total = invoices[i].total,
         invoices'[i].credit_applied = invoices[i].credit_applied,
         invoices'[i].due_rounding = invoices[i].due_rounding
  PROVE  amount_due(i)' = amount_due(i)
BY DEF amount_due

\* Payments of i are found again, with the same sum, when no payment of i is
\* touched.
LEMMA PaidKept ==
  ASSUME TypeOK, TypeOK', NEW i,
         \A p \in DOMAIN payments : payments[p].invoice = i =>
            p \in DOMAIN payments' /\ payments'[p] = payments[p],
         \A p \in DOMAIN payments' : payments'[p].invoice = i =>
            p \in DOMAIN payments /\ payments'[p] = payments[p]
  PROVE  PaymentsOf(i)' = PaymentsOf(i) /\ paid_chf(i)' = paid_chf(i)
<1> DEFINE f == [p \in DOMAIN payments |-> payments[p].amount]
           g == [p \in DOMAIN payments' |-> payments'[p].amount]
<1>1. PaymentsOf(i)' = PaymentsOf(i)
  BY DEF PaymentsOf
<1>2. IsFiniteSet(PaymentsOf(i))
  BY PaymentsFinite, FS_Subset DEF PaymentsOf
<1>3. \A p \in PaymentsOf(i) : g[p] = f[p]
  BY DEF PaymentsOf
<1>4. paid_chf(i) = SumFunctionOnSet(f, PaymentsOf(i))
  BY DEF paid_chf
<1>5. paid_chf(i)' = SumFunctionOnSet(g, PaymentsOf(i))
  BY <1>1 DEF paid_chf
<1> HIDE DEF f, g
<1>6. SumFunctionOnSet(g, PaymentsOf(i)) = SumFunctionOnSet(f, PaymentsOf(i))
  BY <1>2, <1>3, SumSame
<1>. QED  BY <1>1, <1>4, <1>5, <1>6

\* Taking payment p away takes its amount away.
LEMMA PaidWithout ==
  ASSUME TypeOK, TypeOK', NEW p \in DOMAIN payments,
         NEW i, i = payments[p].invoice,
         payments' = Restrict(payments, DOMAIN payments \ {p})
  PROVE  /\ PaymentsOf(i)' = PaymentsOf(i) \ {p}
         /\ paid_chf(i)' = paid_chf(i) - payments[p].amount
         /\ \A j : j # i => PaymentsOf(j)' = PaymentsOf(j) /\ paid_chf(j)' = paid_chf(j)
<1> DEFINE f == [q \in DOMAIN payments |-> payments[q].amount]
           g == [q \in DOMAIN payments' |-> payments'[q].amount]
<1>1. PaymentsOf(i)' = PaymentsOf(i) \ {p} /\ p \in PaymentsOf(i)
  BY DEF PaymentsOf, Restrict
<1>2. IsFiniteSet(PaymentsOf(i)) /\ IsFiniteSet(PaymentsOf(i) \ {p})
  BY PaymentsFinite, FS_Subset DEF PaymentsOf
<1>3. \A q \in PaymentsOf(i) \ {p} : g[q] = f[q]
  BY DEF PaymentsOf, Restrict
<1>4. paid_chf(i) = SumFunctionOnSet(f, PaymentsOf(i))
  BY DEF paid_chf
<1>5. paid_chf(i)' = SumFunctionOnSet(g, PaymentsOf(i) \ {p})
  BY <1>1 DEF paid_chf
<1>6. \A q \in PaymentsOf(i) : f[q] \in Int
  BY DEF TypeOK, Payment, PaymentsOf
<1>7. f[p] = payments[p].amount
  OBVIOUS
<1>11. ASSUME NEW j, j # i
       PROVE  PaymentsOf(j)' = PaymentsOf(j) /\ paid_chf(j)' = paid_chf(j)
  <2>1. \A q \in DOMAIN payments : payments[q].invoice = j =>
           q \in DOMAIN payments' /\ payments'[q] = payments[q]
    BY <1>11 DEF Restrict
  <2>2. \A q \in DOMAIN payments' : payments'[q].invoice = j =>
           q \in DOMAIN payments /\ payments'[q] = payments[q]
    BY DEF Restrict
  <2>. QED  BY <2>1, <2>2, PaidKept
<1> HIDE DEF f, g
<1>8. SumFunctionOnSet(f, PaymentsOf(i)) = f[p] + SumFunctionOnSet(f, PaymentsOf(i) \ {p})
  BY <1>1, <1>2, <1>6, SumRemove
<1>9. SumFunctionOnSet(g, PaymentsOf(i) \ {p}) = SumFunctionOnSet(f, PaymentsOf(i) \ {p})
  BY <1>2, <1>3, SumSame
<1>10. SumFunctionOnSet(f, PaymentsOf(i) \ {p}) \in Int /\ f[p] \in Int
  BY <1>1, <1>2, <1>6, SumInt
<1>. QED  BY <1>1, <1>4, <1>5, <1>7, <1>8, <1>9, <1>10, <1>11

\* Booking a payment adds its amount, and touches no other invoice.
LEMMA PaidWith ==
  ASSUME TypeOK, TypeOK', NEW i, NEW amount \in Int,
         NEW p, p \notin DOMAIN payments,
         payments' = [q \in DOMAIN payments \cup {p} |->
                        IF q = p THEN [invoice |-> i, amount |-> amount] ELSE payments[q]]
  PROVE  /\ PaymentsOf(i)' = PaymentsOf(i) \cup {p}
         /\ paid_chf(i)' = paid_chf(i) + amount
         /\ \A j : j # i => PaymentsOf(j)' = PaymentsOf(j) /\ paid_chf(j)' = paid_chf(j)
<1> DEFINE f == [q \in DOMAIN payments |-> payments[q].amount]
           g == [q \in DOMAIN payments' |-> payments'[q].amount]
<1>1. PaymentsOf(i)' = PaymentsOf(i) \cup {p} /\ p \notin PaymentsOf(i)
  BY DEF PaymentsOf
<1>2. IsFiniteSet(PaymentsOf(i))
  BY PaymentsFinite, FS_Subset DEF PaymentsOf
<1>3. \A q \in PaymentsOf(i) : g[q] = f[q]
  BY DEF PaymentsOf
<1>4. paid_chf(i) = SumFunctionOnSet(f, PaymentsOf(i))
  BY DEF paid_chf
<1>5. paid_chf(i)' = SumFunctionOnSet(g, PaymentsOf(i) \cup {p})
  BY <1>1 DEF paid_chf
<1>6. \A q \in PaymentsOf(i) \cup {p} : g[q] \in Int
  BY DEF TypeOK, Payment, PaymentsOf
<1>7. g[p] = amount
  OBVIOUS
<1>8. \A j : j # i => PaymentsOf(j)' = PaymentsOf(j) /\ paid_chf(j)' = paid_chf(j)
  <2>1. SUFFICES ASSUME NEW j, j # i
                 PROVE  PaymentsOf(j)' = PaymentsOf(j) /\ paid_chf(j)' = paid_chf(j)
    OBVIOUS
  <2>2. \A q \in DOMAIN payments : payments[q].invoice = j =>
           q \in DOMAIN payments' /\ payments'[q] = payments[q]
    OBVIOUS
  <2>3. \A q \in DOMAIN payments' : payments'[q].invoice = j =>
           q \in DOMAIN payments /\ payments'[q] = payments[q]
    BY <2>1
  <2>. QED  BY <2>2, <2>3, PaidKept
<1> HIDE DEF f, g
<1>9. SumFunctionOnSet(g, PaymentsOf(i) \cup {p}) = g[p] + SumFunctionOnSet(g, PaymentsOf(i))
  BY <1>1, <1>2, <1>6, SumAdd
<1>10. SumFunctionOnSet(g, PaymentsOf(i)) = SumFunctionOnSet(f, PaymentsOf(i))
  BY <1>2, <1>3, SumSame
<1>11. SumFunctionOnSet(g, PaymentsOf(i)) \in Int
  BY <1>2, <1>6, SumInt
<1>. QED  BY <1>1, <1>4, <1>5, <1>7, <1>8, <1>9, <1>10, <1>11

\* Positive payments, at least one, sum to a positive amount.
LEMMA PositiveAmounts ==
  ASSUME NEW rows, NEW S \in SUBSET (DOMAIN rows), IsFiniteSet(S), S # {},
         \A q \in S : rows[q].amount \in Int /\ rows[q].amount > 0
  PROVE  SumFunctionOnSet([q \in DOMAIN rows |-> rows[q].amount], S) > 0
<1> DEFINE f == [q \in DOMAIN rows |-> rows[q].amount]
<1>1. \A q \in S : f[q] \in Int /\ f[q] > 0
  OBVIOUS
<1>2. SumFunctionOnSet(f, S) > 0
  <2> HIDE DEF f
  <2>. QED  BY <1>1, SumPositive
<1>. QED  BY <1>2

\* Invoice i keeps its terms and its payments.
Untouched(i) ==
    /\ amount_due(i)' = amount_due(i)
    /\ PaymentsOf(i)' = PaymentsOf(i)
    /\ paid_chf(i)' = paid_chf(i)

\* A step that changes no payment and no terms, and moves statuses only as
\* the money allows.
LEMMA MoneyKept ==
  ASSUME MoneyInv, TypeOK', UNCHANGED payments, DOMAIN invoices' = DOMAIN invoices,
         \A i \in DOMAIN invoices :
            /\ invoices'[i].total = invoices[i].total
            /\ invoices'[i].credit_applied = invoices[i].credit_applied
            /\ invoices'[i].due_rounding = invoices[i].due_rounding
            /\ \/ invoices'[i].status = invoices[i].status
               \/ invoices'[i].status = "cancelled"
               \/ invoices'[i].status \in {"approved", "sent"} /\ PaymentsOf(i) = {}
               \/ invoices'[i].status = "paid" /\ paid_chf(i) = amount_due(i)
  PROVE  MoneyInv'
<1>1. \A i \in DOMAIN invoices : Untouched(i)
  BY DueKept DEF Untouched, PaymentsOf, paid_chf
<1>2. PaymentsSound'
  BY <1>1 DEF MoneyInv, PaymentsSound, Untouched, PaymentsOf
<1>3. ASSUME NEW i \in DOMAIN invoices' PROVE Agrees(i)'
  <2>1. Agrees(i)
    BY AgreesAll DEF MoneyInv
  <2>2. Untouched(i)
    BY <1>1
  <2>. QED  BY <2>1, <2>2 DEF Agrees, Untouched, Status
<1>. QED  BY <1>2, <1>3, AgreesAll DEF MoneyInv, StatusAgreesWithPayments, Agrees

\* A step that changes the status and the payments of invoice i only.
LEMMA MoneyOfOne ==
  ASSUME MoneyInv, TypeOK', NEW i \in DOMAIN invoices, DOMAIN invoices' = DOMAIN invoices,
         \A j \in DOMAIN invoices :
            /\ invoices'[j].total = invoices[j].total
            /\ invoices'[j].credit_applied = invoices[j].credit_applied
            /\ invoices'[j].due_rounding = invoices[j].due_rounding
            /\ j # i => /\ invoices'[j].status = invoices[j].status
                        /\ PaymentsOf(j)' = PaymentsOf(j)
                        /\ paid_chf(j)' = paid_chf(j),
         \A p \in DOMAIN payments' :
            payments'[p].invoice # i => p \in DOMAIN payments /\ payments'[p] = payments[p],
         \A p \in PaymentsOf(i)' :
            /\ amount_due(i) > 0 => payments'[p].amount > 0
            /\ amount_due(i) <= 0 => PaymentsOf(i)' = {p},
         Agrees(i)'
  PROVE  MoneyInv'
<1>1. \A j \in DOMAIN invoices : amount_due(j)' = amount_due(j)
  BY DueKept
<1>2. PaymentsSound'
  <2>1. SUFFICES ASSUME NEW p \in DOMAIN payments', NEW j, j = payments'[p].invoice
                 PROVE  /\ j \in DOMAIN invoices'
                        /\ amount_due(j)' > 0 => payments'[p].amount > 0
                        /\ amount_due(j)' <= 0 => PaymentsOf(j)' = {p}
    BY DEF PaymentsSound
  <2>2. CASE j = i
    <3>1. p \in PaymentsOf(i)'
      BY <2>1, <2>2 DEF PaymentsOf
    <3>. QED  BY <1>1, <2>2, <3>1
  <2>3. CASE j # i
    <3>1. p \in DOMAIN payments /\ payments[p].invoice = j /\ payments'[p] = payments[p]
      BY <2>1, <2>3
    <3>2. j \in DOMAIN invoices
      BY <3>1 DEF MoneyInv, PaymentsSound
    <3>. QED  BY <1>1, <2>3, <3>1, <3>2 DEF MoneyInv, PaymentsSound
  <2>. QED  BY <2>2, <2>3
<1>3. ASSUME NEW j \in DOMAIN invoices' PROVE Agrees(j)'
  <2>1. CASE j = i  BY <2>1
  <2>2. CASE j # i
    <3>1. Agrees(j)
      BY AgreesAll DEF MoneyInv
    <3>. QED  BY <1>1, <2>2, <3>1 DEF Agrees, Status
  <2>. QED  BY <2>1, <2>2
<1>. QED  BY <1>2, <1>3, AgreesAll DEF MoneyInv, StatusAgreesWithPayments, Agrees

\* What a transition leaves alone.
LEMMA TransitionKeeps ==
  ASSUME TypeOK, NEW i \in DOMAIN invoices, NEW from, NEW to, Transition(i, from, to)
  PROVE  /\ DOMAIN invoices' = DOMAIN invoices
         /\ invoices[i].status \in from /\ invoices'[i].status = to
         /\ \A j \in DOMAIN invoices :
               /\ invoices'[j].total = invoices[j].total
               /\ invoices'[j].credit_applied = invoices[j].credit_applied
               /\ invoices'[j].due_rounding = invoices[j].due_rounding
               /\ j # i => invoices'[j].status = invoices[j].status
BY DEF TypeOK, Invoice, Transition, Status

\* Booking what is outstanding, or part of it, on a sent invoice.
LEMMA MoneyBooked ==
  ASSUME MoneyInv, TypeOK', NEW i \in DOMAIN invoices, NEW amount \in Int,
         NEW to, Transition(i, {"sent"}, to), BookPayment(i, amount),
         \/ to = "paid" /\ amount = amount_due(i) - paid_chf(i)
         \/ to = "sent" /\ amount_due(i) > 0 /\ 0 < amount
                        /\ amount < amount_due(i) - paid_chf(i)
  PROVE  MoneyInv'
<1>0. TypeOK /\ PaymentsSound /\ Agrees(i)
  BY AgreesAll DEF MoneyInv
<1>1. PICK p \in PaymentIds \ DOMAIN payments :
         payments' = [q \in DOMAIN payments \cup {p} |->
                        IF q = p THEN [invoice |-> i, amount |-> amount] ELSE payments[q]]
  BY DEF BookPayment
<1>2. /\ PaymentsOf(i)' = PaymentsOf(i) \cup {p}
      /\ paid_chf(i)' = paid_chf(i) + amount
      /\ \A j : j # i => PaymentsOf(j)' = PaymentsOf(j) /\ paid_chf(j)' = paid_chf(j)
  BY <1>0, <1>1, PaidWith
<1>3. amount_due(i) \in Int /\ paid_chf(i) \in Int
  BY <1>0, DueInt, PaidInt
<1>4. /\ DOMAIN invoices' = DOMAIN invoices
      /\ invoices[i].status = "sent" /\ invoices'[i].status = to
      /\ \A j \in DOMAIN invoices :
            /\ invoices'[j].total = invoices[j].total
            /\ invoices'[j].credit_applied = invoices[j].credit_applied
            /\ invoices'[j].due_rounding = invoices[j].due_rounding
            /\ j # i => invoices'[j].status = invoices[j].status
  BY <1>0, TransitionKeeps
<1>5. amount_due(i)' = amount_due(i)
  BY <1>4, DueKept
<1>6. PaymentsOf(i) = {} \/ (0 < paid_chf(i) /\ paid_chf(i) < amount_due(i))
  BY <1>0, <1>4 DEF Agrees, Status
<1>7. PaymentsOf(i) = {} => paid_chf(i) = 0
  BY SumEmpty DEF paid_chf
<1>8. Agrees(i)'
  BY <1>2, <1>3, <1>4, <1>5, <1>6, <1>7 DEF Agrees, Status
<1>9. \A q \in PaymentsOf(i)' :
         /\ amount_due(i) > 0 => payments'[q].amount > 0
         /\ amount_due(i) <= 0 => PaymentsOf(i)' = {q}
  <2>1. SUFFICES ASSUME NEW q \in PaymentsOf(i)'
                 PROVE  /\ amount_due(i) > 0 => payments'[q].amount > 0
                        /\ amount_due(i) <= 0 => PaymentsOf(i)' = {q}
    OBVIOUS
  <2>2. amount_due(i) <= 0 => PaymentsOf(i) = {}
    BY <1>3, <1>6
  <2>3. CASE q = p
    BY <1>1, <1>2, <1>3, <1>6, <1>7, <2>2, <2>3
  <2>4. CASE q # p
    <3>1. q \in PaymentsOf(i) /\ payments'[q] = payments[q]
      BY <1>1, <1>2, <2>1, <2>4 DEF PaymentsOf
    <3>2. amount_due(i) > 0 => payments[q].amount > 0
      BY <1>0, <3>1 DEF PaymentsSound, PaymentsOf
    <3>. QED  BY <2>2, <3>1, <3>2
  <2>. QED  BY <2>3, <2>4
<1>10. \A q \in DOMAIN payments' :
          payments'[q].invoice # i => q \in DOMAIN payments /\ payments'[q] = payments[q]
  BY <1>1
<1>. QED  BY <1>2, <1>4, <1>8, <1>9, <1>10, MoneyOfOne

\* Removing a payment.
LEMMA MoneyTakenBack ==
  ASSUME MoneyInv, TypeOK', NEW p \in DOMAIN payments, delete_payment(p)
  PROVE  MoneyInv'
<1>0. TypeOK /\ PaymentsSound
  BY DEF MoneyInv
<1>1. PICK i \in DOMAIN invoices : i = payments[p].invoice
  BY <1>0 DEF PaymentsSound
<1>2. PICK to : /\ Transition(i, {"sent", "paid"}, to)
                /\ to = IF Status(i) = "paid" /\ paid_chf(i) - payments[p].amount # amount_due(i)
                        THEN "sent" ELSE Status(i)
  BY <1>1 DEF delete_payment
<1>3. payments' = Restrict(payments, DOMAIN payments \ {p})
  BY DEF delete_payment
<1>4. /\ PaymentsOf(i)' = PaymentsOf(i) \ {p}
      /\ paid_chf(i)' = paid_chf(i) - payments[p].amount
      /\ \A j : j # i => PaymentsOf(j)' = PaymentsOf(j) /\ paid_chf(j)' = paid_chf(j)
  BY <1>0, <1>1, <1>3, PaidWithout
<1>5. /\ DOMAIN invoices' = DOMAIN invoices
      /\ invoices[i].status \in {"sent", "paid"} /\ invoices'[i].status = to
      /\ \A j \in DOMAIN invoices :
            /\ invoices'[j].total = invoices[j].total
            /\ invoices'[j].credit_applied = invoices[j].credit_applied
            /\ invoices'[j].due_rounding = invoices[j].due_rounding
            /\ j # i => invoices'[j].status = invoices[j].status
  BY <1>0, <1>2, TransitionKeeps
<1>6. amount_due(i) \in Int /\ paid_chf(i) \in Int /\ payments[p].amount \in Int
  BY <1>0, DueInt, PaidInt DEF TypeOK, Payment
<1>7. amount_due(i)' = amount_due(i)
  BY <1>5, DueKept
<1>8. p \in PaymentsOf(i)
  BY <1>1 DEF PaymentsOf
<1>9. /\ invoices[i].status = "paid" => paid_chf(i) = amount_due(i)
      /\ invoices[i].status = "sent" => 0 < paid_chf(i) /\ paid_chf(i) < amount_due(i)
  <2>1. Agrees(i)
    BY AgreesAll DEF MoneyInv
  <2>. QED  BY <1>8, <2>1 DEF Agrees, Status
<1>10. \A q \in DOMAIN payments' : q \in DOMAIN payments /\ payments'[q] = payments[q]
  BY <1>3 DEF Restrict
<1>11. \A q \in PaymentsOf(i)' :
          /\ q \in PaymentsOf(i)
          /\ amount_due(i) > 0 => payments'[q].amount > 0
          /\ amount_due(i) <= 0 => FALSE
  <2>1. SUFFICES ASSUME NEW q \in PaymentsOf(i)'
                 PROVE  /\ q \in PaymentsOf(i)
                        /\ amount_due(i) > 0 => payments'[q].amount > 0
                        /\ amount_due(i) <= 0 => FALSE
    OBVIOUS
  <2>2. q \in PaymentsOf(i) /\ q # p /\ q \in DOMAIN payments'
    BY <1>4, <2>1 DEF PaymentsOf
  <2>3. q \in DOMAIN payments /\ payments[q].invoice = i /\ payments'[q] = payments[q]
    BY <1>10, <2>2 DEF PaymentsOf
  <2>4. /\ amount_due(i) > 0 => payments[q].amount > 0
        /\ amount_due(i) <= 0 => PaymentsOf(i) = {q}
    BY <1>0, <2>3 DEF PaymentsSound
  <2>. QED  BY <1>8, <2>2, <2>3, <2>4
<1>12. amount_due(i) > 0 => payments[p].amount > 0
  BY <1>0, <1>1 DEF PaymentsSound
<1>13. Agrees(i)'
  <2>1. CASE PaymentsOf(i)' = {}
    <3>1. paid_chf(i)' = 0
      BY <2>1, SumEmpty DEF paid_chf
    <3>. QED
      BY <1>2, <1>4, <1>5, <1>6, <1>7, <2>1, <3>1 DEF Agrees, Status
  <2>2. CASE PaymentsOf(i)' # {}
    <3>1. amount_due(i) > 0
      BY <1>6, <1>11, <2>2
    <3>2. paid_chf(i)' > 0
      <4>1. \A q \in PaymentsOf(i)' : payments'[q].amount \in Int /\ payments'[q].amount > 0
        BY <1>11, <3>1 DEF PaymentsOf, TypeOK, Payment
      <4>2. IsFiniteSet(PaymentsOf(i)')
        BY <1>0, <1>4, PaymentsFinite, FS_Subset DEF PaymentsOf
      <4>3. PaymentsOf(i)' \in SUBSET DOMAIN payments'
        BY DEF PaymentsOf
      <4>. QED  BY <2>2, <4>1, <4>2, <4>3, PositiveAmounts DEF paid_chf
    <3>. QED  BY <1>2, <1>4, <1>5, <1>6, <1>7, <1>9, <1>12, <3>1, <3>2 DEF Agrees, Status
  <2>. QED  BY <2>1, <2>2
<1>14. /\ \A j \in DOMAIN invoices :
            /\ invoices'[j].total = invoices[j].total
            /\ invoices'[j].credit_applied = invoices[j].credit_applied
            /\ invoices'[j].due_rounding = invoices[j].due_rounding
            /\ j # i => /\ invoices'[j].status = invoices[j].status
                        /\ PaymentsOf(j)' = PaymentsOf(j)
                        /\ paid_chf(j)' = paid_chf(j)
       /\ DOMAIN invoices' = DOMAIN invoices
  BY <1>4, <1>5
<1>15. \A q \in PaymentsOf(i)' :
          /\ amount_due(i) > 0 => payments'[q].amount > 0
          /\ amount_due(i) <= 0 => PaymentsOf(i)' = {q}
  BY <1>11
<1>. QED  BY <1>10, <1>13, <1>14, <1>15, MoneyOfOne

\* Invoices disappear together with their payments; at most one appears, as a
\* draft without payments.
LEMMA MoneyOfRest ==
  ASSUME MoneyInv, TypeOK', NEW gone,
         payments' = Restrict(payments,
                        {q \in DOMAIN payments : payments[q].invoice \notin gone}),
         DOMAIN invoices \ gone \subseteq DOMAIN invoices',
         \A i \in DOMAIN invoices' :
            \/ i \in DOMAIN invoices \ gone /\ invoices'[i] = invoices[i]
            \/ i \notin DOMAIN invoices /\ invoices'[i].status = "draft"
  PROVE  MoneyInv'
<1>0. TypeOK /\ PaymentsSound
  BY DEF MoneyInv
<1>1. \A q \in DOMAIN payments' :
         /\ q \in DOMAIN payments /\ payments'[q] = payments[q]
         /\ payments[q].invoice \in DOMAIN invoices \ gone
  BY <1>0 DEF Restrict, PaymentsSound
<1>2. ASSUME NEW i \in DOMAIN invoices \ gone
      PROVE  /\ invoices'[i] = invoices[i]
             /\ Untouched(i)
  <2>1. invoices'[i] = invoices[i]
    BY <1>2
  <2>2. \A q \in DOMAIN payments : payments[q].invoice = i =>
           q \in DOMAIN payments' /\ payments'[q] = payments[q]
    BY <1>2 DEF Restrict
  <2>3. \A q \in DOMAIN payments' : payments'[q].invoice = i =>
           q \in DOMAIN payments /\ payments'[q] = payments[q]
    BY <1>1
  <2>4. PaymentsOf(i)' = PaymentsOf(i) /\ paid_chf(i)' = paid_chf(i)
    BY <1>0, <2>2, <2>3, PaidKept
  <2>. QED  BY <2>1, <2>4, DueKept DEF Untouched
<1>3. PaymentsSound'
  <2>1. SUFFICES ASSUME NEW q \in DOMAIN payments', NEW i, i = payments'[q].invoice
                 PROVE  /\ i \in DOMAIN invoices'
                        /\ amount_due(i)' > 0 => payments'[q].amount > 0
                        /\ amount_due(i)' <= 0 => PaymentsOf(i)' = {q}
    BY DEF PaymentsSound
  <2>2. q \in DOMAIN payments /\ payments'[q] = payments[q] /\ i \in DOMAIN invoices \ gone
    BY <1>1, <2>1
  <2>3. Untouched(i)
    BY <1>2, <2>2
  <2>4. /\ amount_due(i) > 0 => payments[q].amount > 0
        /\ amount_due(i) <= 0 => PaymentsOf(i) = {q}
    BY <1>0, <2>1, <2>2 DEF PaymentsSound
  <2>. QED  BY <2>2, <2>3, <2>4 DEF Untouched
<1>4. ASSUME NEW i \in DOMAIN invoices' PROVE Agrees(i)'
  <2>1. CASE i \in DOMAIN invoices \ gone
    <3>1. Agrees(i) /\ Untouched(i) /\ invoices'[i] = invoices[i]
      BY <1>2, <2>1, AgreesAll DEF MoneyInv
    <3>. QED  BY <3>1 DEF Agrees, Untouched, Status
  <2>2. CASE i \notin DOMAIN invoices /\ invoices'[i].status = "draft"
    <3>1. PaymentsOf(i)' = {}
      BY <1>1, <2>2 DEF PaymentsOf
    <3>. QED  BY <2>2, <3>1 DEF Agrees, Status
  <2>. QED  BY <2>1, <2>2
<1>. QED  BY <1>3, <1>4, AgreesAll DEF MoneyInv, StatusAgreesWithPayments, Agrees

LEMMA MoneyStep ==
  ASSUME MoneyInv, [Next]_vars
  PROVE  MoneyInv'
<1>0. TypeOK /\ TypeOK'
  BY TypeStep DEF MoneyInv
<1>t. /\ invoices \in [DOMAIN invoices -> Invoice]
      /\ invoice_counter \notin DOMAIN invoices
  BY <1>0, ConstantsAssumption DEF TypeOK
<1>1. ASSUME NEW p \in Participants, NEW start \in Days, NEW end \in Days,
             NEW subtotal \in Subtotals, generate_invoice(p, start, end, subtotal)
      PROVE  MoneyInv'
  <2>1. PICK gone : gone = Doomed(p, start, end)
    OBVIOUS
  <2>2. /\ payments' = Restrict(payments,
                          {q \in DOMAIN payments : payments[q].invoice \notin gone})
        /\ DOMAIN invoices' = (DOMAIN invoices \ gone) \cup {invoice_counter}
        /\ \A i \in DOMAIN invoices \ gone : invoices'[i] = invoices[i]
        /\ invoices'[invoice_counter].status = "draft"
    BY <1>1, <1>t, <2>1 DEF generate_invoice
  <2>. QED  BY <1>0, <1>t, <2>2, MoneyOfRest
<1>2. ASSUME NEW i \in DOMAIN invoices, InvoiceStep(i)
      PROVE  MoneyInv'
  <2>a. Agrees(i)
    BY AgreesAll DEF MoneyInv
  <2>1. CASE approve_invoice(i)
    <3>1. PaymentsOf(i) = {}
      BY <2>1, <2>a DEF approve_invoice, Agrees
    <3>. QED  BY <1>0, <1>t, <2>1, <3>1, MoneyKept DEF approve_invoice, ledger, Invoice
  <2>2. CASE mark_invoice_sent(i)
    <3>1. PaymentsOf(i) = {}
      BY <2>2, <2>a DEF mark_invoice_sent, Transition, Agrees
    <3>. QED  BY <1>0, <2>2, <3>1, TransitionKeeps, MoneyKept DEF mark_invoice_sent, ledger
  <2>3. ASSUME NEW amount \in PaymentAmounts, record_payment(i, amount)
        PROVE  MoneyInv'
    <3>1. amount \in Int /\ amount_due(i) - paid_chf(i) \in Int
      BY <1>0, ConstantsAssumption, OutstandingInt
    <3>2. PICK to : /\ Transition(i, {"sent"}, to)
                    /\ to = IF amount = amount_due(i) - paid_chf(i) THEN "paid" ELSE "sent"
      BY <2>3 DEF record_payment
    <3>3. /\ amount_due(i) > 0 /\ 0 < amount /\ amount <= amount_due(i) - paid_chf(i)
          /\ BookPayment(i, amount)
      BY <2>3 DEF record_payment
    <3>. QED  BY <1>0, <3>1, <3>2, <3>3, MoneyBooked
  <2>4. CASE mark_invoice_paid(i)
    <3>1. amount_due(i) - paid_chf(i) \in Int /\ amount_due(i) \in Int /\ paid_chf(i) \in Int
      BY <1>0, OutstandingInt, DueInt, PaidInt
    <3>2. Transition(i, {"sent"}, "paid")
      BY <2>4 DEF mark_invoice_paid
    <3>3. CASE BookPayment(i, amount_due(i) - paid_chf(i))
      BY <1>0, <3>1, <3>2, <3>3, MoneyBooked
    <3>4. CASE amount_due(i) - paid_chf(i) = 0 /\ UNCHANGED payments
      BY <1>0, <3>1, <3>2, <3>4, TransitionKeeps, MoneyKept
    <3>. QED  BY <2>4, <3>3, <3>4 DEF mark_invoice_paid
  <2>5. CASE cancel_invoice(i)
    BY <1>0, <2>5, TransitionKeeps, MoneyKept DEF cancel_invoice
  <2>6. CASE reverse_invoice(i)
    BY <1>0, <1>t, <2>6, MoneyKept DEF reverse_invoice, Invoice
  <2>7. CASE \E amount \in CreditAmounts : adjust_invoice(i, amount)
    BY <1>0, <2>7, MoneyKept DEF adjust_invoice
  <2>8. CASE \E admin \in BOOLEAN : destroy_check(i, admin)
    BY <1>0, <2>8, MoneyKept DEF destroy_check, ledger
  <2>. QED  BY <1>2, <2>1, <2>2, <2>3, <2>4, <2>5, <2>6, <2>7, <2>8 DEF InvoiceStep
<1>3. CASE \E p \in DOMAIN payments : delete_payment(p)
  BY <1>0, <1>3, MoneyTakenBack
<1>4. CASE \E c \in DOMAIN credits : refund_credit(c)
  BY <1>0, <1>4, MoneyKept DEF refund_credit
<1>5. ASSUME NEW r \in deleting, destroy_delete(r)
      PROVE  MoneyInv'
  <2>1. CASE UNCHANGED <<invoices, payments>>
    BY <1>0, <2>1, MoneyKept
  <2>2. CASE /\ invoices' = Restrict(invoices, DOMAIN invoices \ {r})
             /\ payments' = Restrict(payments, DOMAIN payments \ PaymentsOf(r))
    <3>1. DOMAIN payments \ PaymentsOf(r) =
             {q \in DOMAIN payments : payments[q].invoice \notin {r}}
      BY DEF PaymentsOf
    <3>2. PICK gone : gone = {r}
      OBVIOUS
    <3>. QED  BY <1>0, <2>2, <3>1, <3>2, MoneyOfRest DEF Restrict
  <2>. QED  BY <1>5, <2>1, <2>2 DEF destroy_delete
<1>6. CASE UNCHANGED vars
  BY <1>0, <1>6, MoneyKept DEF vars, ledger
<1>. QED  BY <1>1, <1>2, <1>3, <1>4, <1>5, <1>6 DEF Next

\* In every state of the ledger, with any number of payments of any amounts,
\* what an invoice received and its status agree.
THEOREM StatusMatchesMoney == Spec => []StatusAgreesWithPayments
<1>1. Init => MoneyInv
  <2>1. Init => TypeOK
    BY BillingInit DEF BillingInv
  <2>. QED  BY <2>1 DEF Init, MoneyInv, PaymentsSound, StatusAgreesWithPayments
<1>2. MoneyInv /\ [Next]_vars => MoneyInv'
  BY MoneyStep
<1>3. MoneyInv => StatusAgreesWithPayments
  BY DEF MoneyInv
<1>. QED  BY <1>1, <1>2, <1>3, PTL DEF Spec

-----------------------------------------------------------------------------
(* Spending and releasing credit *)

\* The applications that hold credit, and those that hold some of credit c.
Holding == {a \in DOMAIN applications : ~applications[a].released}
HoldingOf(c) == {a \in Holding : a[1] = c}

\* An application is only stored for something.  Otherwise releasing one could
\* lower what is left of its credit note.
ApplicationsPositive ==
    \A a \in DOMAIN applications : applications[a].amount > 0

\* A cancelled invoice holds no credit.
CancelledReleased ==
    \A a \in Holding : Live(a[2])

CreditInv ==
    /\ TypeOK
    /\ ApplicationsPositive
    /\ CancelledReleased
    /\ CreditNeverOverspent
    /\ DeductionIsBacked

\* What every step but generation and a refund does to the credit notes in
\* use: rows disappear or are released, together with the end of their
\* invoice, and a new credit note is untouched.
Releases ==
    /\ DOMAIN credits \subseteq DOMAIN credits'
    /\ \A c \in DOMAIN credits : credits'[c] = credits[c]
    /\ \A c \in DOMAIN credits' \ DOMAIN credits :
          credits'[c].amount > 0 /\ credits'[c].refunded = 0
    /\ \A a \in DOMAIN applications' :
          a \in DOMAIN applications /\ applications'[a].amount = applications[a].amount
    /\ Holding' \subseteq Holding
    /\ DOMAIN invoices' \subseteq DOMAIN invoices
    /\ \A i \in DOMAIN invoices' :
          /\ invoices'[i].participant = invoices[i].participant
          /\ invoices'[i].credit_applied = invoices[i].credit_applied
          /\ invoices'[i].status # "cancelled" => invoices[i].status # "cancelled"
    /\ \A a \in Holding :
          a \in Holding' <=> a[2] \in DOMAIN invoices' /\ invoices'[a[2]].status # "cancelled"

LEMMA RemainingIs ==
  ASSUME TypeOK, NEW c
  PROVE  credit_remaining(c) = credits[c].amount - credits[c].refunded
                                 - SumFunctionOnSet(AppliedAmount, HoldingOf(c))
<1>1. {a \in DOMAIN applications :
         a[1] = c /\ a[2] \in DOMAIN invoices /\ ~applications[a].released} = HoldingOf(c)
  BY DEF TypeOK, HoldingOf, Holding
<1>. QED  BY <1>1 DEF credit_remaining, RemainingWith

LEMMA RemainingNext ==
  ASSUME TypeOK', NEW c
  PROVE  credit_remaining(c)' = credits'[c].amount - credits'[c].refunded
                                  - SumFunctionOnSet(AppliedAmount', HoldingOf(c)')
<1>1. {a \in DOMAIN applications' :
         a[1] = c /\ a[2] \in DOMAIN invoices' /\ ~applications'[a].released} = HoldingOf(c)'
  BY DEF TypeOK, HoldingOf, Holding
<1>. QED  BY <1>1 DEF credit_remaining, RemainingWith

LEMMA HoldingFinite ==
  ASSUME TypeOK
  PROVE  /\ IsFiniteSet(Holding)
         /\ \A c : IsFiniteSet(HoldingOf(c)) /\ HoldingOf(c) \subseteq DOMAIN applications
         /\ \A i : IsFiniteSet(ActiveApplications(i))
BY ApplicationsFinite, FS_Subset DEF Holding, HoldingOf, ActiveApplications

LEMMA AppliedNat ==
  ASSUME TypeOK, ApplicationsPositive
  PROVE  \A a \in DOMAIN applications :
            /\ AppliedAmount[a] = applications[a].amount
            /\ AppliedAmount[a] \in Nat /\ AppliedAmount[a] > 0
<1>1. \A a \in DOMAIN applications : applications[a].amount \in Int
  BY DEF TypeOK, CreditApplication
<1>. QED  BY <1>1 DEF AppliedAmount, ApplicationsPositive

LEMMA CreditRowInt ==
  ASSUME TypeOK, NEW c \in DOMAIN credits
  PROVE  /\ credits[c].amount \in Int /\ credits[c].refunded \in Int
         /\ credits[c].rounding \in Int /\ credits[c].source \in Nat
         /\ credit_remaining(c) \in Int
BY RemainingInt DEF TypeOK, Credit, credit_remaining

RemainingTyped == \A c \in DOMAIN credits : credit_remaining(c) \in Int

LEMMA RemainingAllInt == TypeOK => RemainingTyped
BY CreditRowInt DEF RemainingTyped

LEMMA RemainingNextInt == TypeOK' => RemainingTyped'
BY RemainingAllInt, PTL

LEMMA ReleasesTyped ==
  ASSUME TypeOK, Releases
  PROVE  /\ ApplicationsPositive => ApplicationsPositive'
         /\ CancelledReleased => CancelledReleased'
<1>1. ApplicationsPositive => ApplicationsPositive'
  BY DEF Releases, ApplicationsPositive
<1>2. CancelledReleased => CancelledReleased'
  BY DEF Releases, CancelledReleased, Live
<1>. QED  BY <1>1, <1>2

\* Nothing is lost by a release, and what comes back was held by an invoice
\* that ends with this very step.
LEMMA ReleasesCredit ==
  ASSUME CreditInv, TypeOK', Releases, NEW c \in DOMAIN credits
  PROVE  /\ credit_remaining(c)' >= credit_remaining(c)
         /\ HoldingOf(c)' = HoldingOf(c) => credit_remaining(c)' = credit_remaining(c)
<1>0. TypeOK /\ ApplicationsPositive
  BY DEF CreditInv
<1>1. HoldingOf(c)' \subseteq HoldingOf(c)
  BY DEF Releases, HoldingOf
<1>2. \A a \in HoldingOf(c)' : AppliedAmount'[a] = AppliedAmount[a]
  BY DEF Releases, HoldingOf, Holding, AppliedAmount
<1>3. /\ IsFiniteSet(HoldingOf(c)) /\ IsFiniteSet(HoldingOf(c)')
      /\ \A a \in HoldingOf(c) : AppliedAmount[a] \in Nat
  BY <1>0, <1>1, HoldingFinite, AppliedNat, FS_Subset
<1>4. SumFunctionOnSet(AppliedAmount', HoldingOf(c)') = SumFunctionOnSet(AppliedAmount, HoldingOf(c)')
  BY <1>2, <1>3, SumSame
<1>5. SumFunctionOnSet(AppliedAmount, HoldingOf(c)') <= SumFunctionOnSet(AppliedAmount, HoldingOf(c))
  BY <1>1, <1>3, SumSubset
<1>6. /\ SumFunctionOnSet(AppliedAmount, HoldingOf(c)') \in Nat
      /\ SumFunctionOnSet(AppliedAmount, HoldingOf(c)) \in Nat
  BY <1>1, <1>3, SumNat
<1>7. credits'[c] = credits[c] /\ credits[c].amount \in Int /\ credits[c].refunded \in Int
  BY <1>0, CreditRowInt DEF Releases
<1>8. credit_remaining(c)' = credits'[c].amount - credits'[c].refunded
                               - SumFunctionOnSet(AppliedAmount', HoldingOf(c)')
  BY RemainingNext
<1>. QED  BY <1>0, <1>4, <1>5, <1>6, <1>7, <1>8, RemainingIs

LEMMA ReleasesStep ==
  ASSUME CreditInv, TypeOK', Releases
  PROVE  CreditInv' /\ CreditReturnStep
<1>0. TypeOK /\ ApplicationsPositive /\ CancelledReleased
  BY DEF CreditInv
<1>1. ApplicationsPositive' /\ CancelledReleased'
  BY <1>0, ReleasesTyped
<1>2. CreditNeverOverspent'
  <2>1. SUFFICES ASSUME NEW c \in DOMAIN credits' PROVE credit_remaining(c)' >= 0
    BY DEF CreditNeverOverspent
  <2>2. CASE c \in DOMAIN credits
    <3>1. /\ credit_remaining(c) >= 0 /\ credit_remaining(c) \in Int
          /\ credit_remaining(c)' >= credit_remaining(c)
      BY <1>0, <2>2, CreditRowInt, ReleasesCredit DEF CreditInv, CreditNeverOverspent
    <3>2. credit_remaining(c)' \in Int
      BY RemainingNextInt DEF RemainingTyped
    <3>. QED  BY <3>1, <3>2
  <2>3. CASE c \notin DOMAIN credits
    <3>1. HoldingOf(c)' = {}
      BY <1>0, <2>3 DEF Releases, HoldingOf, Holding, TypeOK
    <3>2. credits'[c].amount \in Int /\ credits'[c].amount > 0 /\ credits'[c].refunded = 0
      BY <2>3 DEF Releases, TypeOK, Credit
    <3>3. SumFunctionOnSet(AppliedAmount', HoldingOf(c)') = 0
      BY <3>1, SumEmpty
    <3>. QED  BY <3>2, <3>3, RemainingNext
  <2>. QED  BY <2>2, <2>3
<1>3. DeductionIsBacked'
  <2>1. SUFFICES ASSUME NEW i \in DOMAIN invoices', invoices'[i].status # "cancelled"
                 PROVE  /\ SumFunctionOnSet(AppliedAmount', ActiveApplications(i)')
                              = invoices'[i].credit_applied
                        /\ \A a \in ActiveApplications(i)' :
                              credits'[a[1]].participant = invoices'[i].participant
    BY DEF DeductionIsBacked, Live
  <2>2. i \in DOMAIN invoices /\ Live(i)
    BY <2>1 DEF Releases, Live
  <2>3. ActiveApplications(i)' = ActiveApplications(i)
    BY <2>1, <2>2 DEF Releases, Holding, ActiveApplications
  <2>4. \A a \in ActiveApplications(i) : AppliedAmount'[a] = AppliedAmount[a]
    BY <2>3 DEF Releases, ActiveApplications, AppliedAmount
  <2>5. SumFunctionOnSet(AppliedAmount', ActiveApplications(i))
           = SumFunctionOnSet(AppliedAmount, ActiveApplications(i))
    BY <1>0, <2>4, HoldingFinite, SumSame
  <2>6. /\ SumFunctionOnSet(AppliedAmount, ActiveApplications(i)) = invoices[i].credit_applied
        /\ \A a \in ActiveApplications(i) :
              credits[a[1]].participant = invoices[i].participant
    BY <2>2 DEF CreditInv, DeductionIsBacked
  <2>7. \A a \in ActiveApplications(i) : a[1] \in DOMAIN credits
    BY <1>0 DEF ActiveApplications, TypeOK
  <2>. QED  BY <2>1, <2>3, <2>5, <2>6, <2>7 DEF Releases
<1>4. CreditReturnStep
  <2>1. SUFFICES ASSUME NEW c \in DOMAIN credits,
                        credit_remaining(c)' > credit_remaining(c)
                 PROVE  \E i \in DOMAIN invoices :
                           /\ Live(i) /\ <<c, i>> \in ActiveApplications(i)
                           /\ i \in DOMAIN invoices' => invoices'[i].status = "cancelled"
    BY DEF CreditReturnStep
  <2>2. HoldingOf(c)' # HoldingOf(c)
    BY <1>0, <2>1, CreditRowInt, ReleasesCredit
  <2>3. PICK a \in HoldingOf(c) : a \notin Holding'
    BY <2>2 DEF HoldingOf, Releases
  <2>4. a \in Holding /\ a \in DOMAIN applications /\ a[1] = c
    BY <2>3 DEF HoldingOf, Holding
  <2>5. a = <<c, a[2]>> /\ a[2] \in DOMAIN invoices
    BY <1>0, <2>4 DEF TypeOK
  <2>6. Live(a[2]) /\ <<c, a[2]>> \in ActiveApplications(a[2])
    BY <1>0, <2>4, <2>5 DEF CancelledReleased, ActiveApplications, Holding
  <2>7. a[2] \in DOMAIN invoices' => invoices'[a[2]].status = "cancelled"
    BY <2>3, <2>4 DEF Releases
  <2>. QED  BY <2>5, <2>6, <2>7
<1>. QED  BY <1>1, <1>2, <1>3, <1>4 DEF CreditInv

-----------------------------------------------------------------------------
(* Which steps release *)

\* A step that touches neither applications nor who stands.
LEMMA QuietReleases ==
  ASSUME TypeOK, TypeOK', CancelledReleased, UNCHANGED applications,
         DOMAIN invoices' = DOMAIN invoices,
         \A i \in DOMAIN invoices :
            /\ invoices'[i].participant = invoices[i].participant
            /\ invoices'[i].credit_applied = invoices[i].credit_applied
            /\ invoices'[i].status = "cancelled" <=> invoices[i].status = "cancelled",
         \/ UNCHANGED credits
         \/ \E i, kind, amount : IssueCredit(i, kind, amount) /\ round_to_step(amount) > 0
  PROVE  Releases
<1>1. Holding' = Holding
  BY DEF Holding
<1>2. \A a \in Holding : a[2] \in DOMAIN invoices /\ invoices[a[2]].status # "cancelled"
  BY DEF Holding, TypeOK, CancelledReleased, Live
<1>3. /\ DOMAIN credits \subseteq DOMAIN credits'
      /\ \A c \in DOMAIN credits : credits'[c] = credits[c]
      /\ \A c \in DOMAIN credits' \ DOMAIN credits :
            credits'[c].amount > 0 /\ credits'[c].refunded = 0
  <2>1. credit_counter \notin DOMAIN credits
    BY ConstantsAssumption DEF TypeOK
  <2>. QED  BY <2>1 DEF IssueCredit
<1>. QED  BY <1>1, <1>2, <1>3 DEF Releases

\* An invoice is cancelled and what it held is released.
LEMMA EndReleases ==
  ASSUME TypeOK, TypeOK', CancelledReleased, NEW i \in DOMAIN invoices,
         release_credit_applications(i),
         invoices' = [invoices EXCEPT ![i].status = "cancelled"],
         \/ UNCHANGED credits
         \/ \E kind, amount : IssueCredit(i, kind, amount) /\ round_to_step(amount) > 0
  PROVE  Releases
<1>t. invoices \in [DOMAIN invoices -> Invoice]
  BY DEF TypeOK
<1>1. /\ DOMAIN invoices' = DOMAIN invoices
      /\ invoices'[i].status = "cancelled"
      /\ \A j \in DOMAIN invoices :
            /\ invoices'[j].participant = invoices[j].participant
            /\ invoices'[j].credit_applied = invoices[j].credit_applied
            /\ j # i => invoices'[j].status = invoices[j].status
  BY <1>t DEF Invoice
<1>2. /\ DOMAIN applications' = DOMAIN applications
      /\ \A a \in DOMAIN applications :
            /\ applications'[a].amount = applications[a].amount
            /\ a[2] = i => applications'[a].released
            /\ a[2] # i => applications'[a].released = applications[a].released
  BY DEF release_credit_applications, TypeOK, CreditApplication
<1>3. \A a \in Holding : a[2] \in DOMAIN invoices /\ invoices[a[2]].status # "cancelled"
  BY DEF Holding, TypeOK, CancelledReleased, Live
<1>4. Holding' = {a \in Holding : a[2] # i}
  BY <1>2 DEF Holding
<1>5. /\ DOMAIN credits \subseteq DOMAIN credits'
      /\ \A c \in DOMAIN credits : credits'[c] = credits[c]
      /\ \A c \in DOMAIN credits' \ DOMAIN credits :
            credits'[c].amount > 0 /\ credits'[c].refunded = 0
  <2>1. credit_counter \notin DOMAIN credits
    BY ConstantsAssumption DEF TypeOK
  <2>. QED  BY <2>1 DEF IssueCredit
<1>. QED  BY <1>1, <1>2, <1>3, <1>4, <1>5 DEF Releases

\* An invoice is deleted with its applications.
LEMMA DeleteReleases ==
  ASSUME TypeOK, TypeOK', CancelledReleased, NEW r \in deleting, destroy_delete(r)
  PROVE  Releases
<1>1. CASE UNCHANGED <<invoices, applications, credits>>
  BY <1>1, QuietReleases
<1>2. CASE /\ invoices' = Restrict(invoices, DOMAIN invoices \ {r})
           /\ applications' = Restrict(applications,
                                 {a \in DOMAIN applications : a[2] # r})
           /\ UNCHANGED credits
  <2>1. /\ DOMAIN invoices' = DOMAIN invoices \ {r}
        /\ \A j \in DOMAIN invoices' : invoices'[j] = invoices[j]
        /\ DOMAIN applications' = {a \in DOMAIN applications : a[2] # r}
        /\ \A a \in DOMAIN applications' : applications'[a] = applications[a]
    BY <1>2 DEF Restrict
  <2>2. \A a \in Holding : a[2] \in DOMAIN invoices /\ invoices[a[2]].status # "cancelled"
    BY DEF Holding, TypeOK, CancelledReleased, Live
  <2>3. Holding' = {a \in Holding : a[2] # r}
    BY <2>1 DEF Holding
  <2>. QED  BY <1>2, <2>1, <2>2, <2>3 DEF Releases
<1>. QED  BY <1>1, <1>2 DEF destroy_delete

LEMMA InvoiceReleases ==
  ASSUME TypeOK, TypeOK', CancelledReleased, NEW i \in DOMAIN invoices, InvoiceStep(i)
  PROVE  Releases
<1>t. invoices \in [DOMAIN invoices -> Invoice]
  BY DEF TypeOK
<1>1. ASSUME NEW from, NEW to, Transition(i, from, to), "cancelled" \notin from,
             to # "cancelled", UNCHANGED <<applications, credits>>
      PROVE  Releases
  BY <1>1, <1>t, QuietReleases DEF Transition, Status, Invoice
<1>2. CASE approve_invoice(i)
  <2>1. /\ DOMAIN invoices' = DOMAIN invoices
        /\ \A j \in DOMAIN invoices :
              /\ invoices'[j].participant = invoices[j].participant
              /\ invoices'[j].credit_applied = invoices[j].credit_applied
              /\ invoices'[j].status = "cancelled" <=> invoices[j].status = "cancelled"
    BY <1>2, <1>t DEF approve_invoice, Status, Invoice
  <2>. QED  BY <1>2, <2>1, QuietReleases DEF approve_invoice, ledger
<1>3. CASE mark_invoice_sent(i)
  BY <1>1, <1>3 DEF mark_invoice_sent, ledger
<1>4. CASE \E amount \in PaymentAmounts : record_payment(i, amount)
  BY <1>1, <1>4 DEF record_payment
<1>5. CASE mark_invoice_paid(i)
  BY <1>1, <1>5 DEF mark_invoice_paid
<1>6. CASE cancel_invoice(i)
  BY <1>6, EndReleases DEF cancel_invoice, Transition
<1>7. CASE reverse_invoice(i)
  BY <1>7, EndReleases DEF reverse_invoice
<1>8. CASE \E amount \in CreditAmounts : adjust_invoice(i, amount)
  BY <1>8, QuietReleases DEF adjust_invoice
<1>9. CASE \E admin \in BOOLEAN : destroy_check(i, admin)
  BY <1>9, QuietReleases DEF destroy_check, ledger
<1>. QED  BY <1>2, <1>3, <1>4, <1>5, <1>6, <1>7, <1>8, <1>9 DEF InvoiceStep

LEMMA PaymentReleases ==
  ASSUME TypeOK, TypeOK', CancelledReleased, NEW p \in DOMAIN payments, delete_payment(p)
  PROVE  Releases
<1>t. invoices \in [DOMAIN invoices -> Invoice]
  BY DEF TypeOK
<1> DEFINE i == payments[p].invoice
           to == IF Status(i) = "paid" /\ paid_chf(i) - payments[p].amount # amount_due(i)
                 THEN "sent" ELSE Status(i)
<1>1. Transition(i, {"sent", "paid"}, to) /\ UNCHANGED <<applications, credits>>
  BY DEF delete_payment
<1>2. to # "cancelled" /\ Status(i) # "cancelled"
  BY <1>1 DEF Transition
<1> HIDE DEF to, i
<1>3. /\ DOMAIN invoices' = DOMAIN invoices
      /\ \A j \in DOMAIN invoices :
            /\ invoices'[j].participant = invoices[j].participant
            /\ invoices'[j].credit_applied = invoices[j].credit_applied
            /\ invoices'[j].status = "cancelled" <=> invoices[j].status = "cancelled"
  BY <1>1, <1>2, <1>t DEF Transition, Status, Invoice
<1>. QED  BY <1>1, <1>3, QuietReleases

-----------------------------------------------------------------------------
(* Refunds and generation *)

LEMMA RefundStep ==
  ASSUME CreditInv, TypeOK', NEW c \in DOMAIN credits, refund_credit(c)
  PROVE  CreditInv' /\ CreditReturnStep
<1>0. TypeOK /\ CreditNeverOverspent
  BY DEF CreditInv
<1>1. UNCHANGED <<invoices, applications>> /\ credit_remaining(c) > 0
  BY DEF refund_credit
<1>2. PICK left \in Int : left = credit_remaining(c)
  BY <1>0, CreditRowInt
<1>3. /\ DOMAIN credits' = DOMAIN credits
      /\ \A d \in DOMAIN credits :
            /\ credits'[d].participant = credits[d].participant
            /\ credits'[d].amount = credits[d].amount
            /\ d # c => credits'[d].refunded = credits[d].refunded
      /\ credits'[c].refunded = credits[c].refunded + left
  <2>1. credits' = [credits EXCEPT ![c].refunded = @ + left]
    BY <1>2, Zenon DEF refund_credit
  <2>2. credits \in [DOMAIN credits -> Credit]
    BY <1>0 DEF TypeOK
  <2>. QED  BY <2>1, <2>2 DEF Credit
<1>4. AppliedAmount' = AppliedAmount /\ \A d : HoldingOf(d)' = HoldingOf(d)
  BY <1>1 DEF AppliedAmount, HoldingOf, Holding
<1>5. \A d \in DOMAIN credits :
         credit_remaining(d)' = credits'[d].amount - credits'[d].refunded
                                  - SumFunctionOnSet(AppliedAmount, HoldingOf(d))
  BY <1>4, RemainingNext
<1>6. \A d \in DOMAIN credits : d # c => credit_remaining(d)' = credit_remaining(d)
  BY <1>0, <1>3, <1>5, RemainingIs
<1>7. credit_remaining(c)' = 0
  <2>1. /\ credits[c].amount \in Int /\ credits[c].refunded \in Int
        /\ SumFunctionOnSet(AppliedAmount, HoldingOf(c)) \in Int
    <3>1. \A a \in HoldingOf(c) : AppliedAmount[a] \in Int
      BY <1>0 DEF HoldingOf, Holding, AppliedAmount, TypeOK, CreditApplication
    <3>. QED  BY <1>0, <3>1, HoldingFinite, CreditRowInt, SumInt
  <2>2. left = credits[c].amount - credits[c].refunded
                 - SumFunctionOnSet(AppliedAmount, HoldingOf(c))
    BY <1>0, <1>2, RemainingIs
  <2>. QED  BY <1>3, <1>5, <2>1, <2>2
<1>8. CreditNeverOverspent'
  BY <1>0, <1>3, <1>6, <1>7 DEF CreditNeverOverspent
<1>9. CreditReturnStep
  <2>1. \A d \in DOMAIN credits : ~(credit_remaining(d)' > credit_remaining(d))
    BY <1>0, <1>1, <1>2, <1>6, <1>7, CreditRowInt
  <2>. QED  BY <2>1 DEF CreditReturnStep
<1>10. DeductionIsBacked'
  <2>1. \A i : ActiveApplications(i)' = ActiveApplications(i)
    BY <1>1 DEF ActiveApplications
  <2>2. \A i : \A a \in ActiveApplications(i) : a[1] \in DOMAIN credits
    BY <1>0 DEF ActiveApplications, TypeOK
  <2>3. DeductionIsBacked
    BY DEF CreditInv
  <2>. QED  BY <1>1, <1>3, <1>4, <2>1, <2>2, <2>3 DEF DeductionIsBacked, Live
<1>11. ApplicationsPositive' /\ CancelledReleased'
  BY <1>1 DEF CreditInv, ApplicationsPositive, CancelledReleased, Holding, Live
<1>. QED  BY <1>8, <1>9, <1>10, <1>11 DEF CreditInv

\* A credit note gives no more than is left of it, and only to its owner.
LEMMA TakenBounds ==
  ASSUME TypeOK, NEW c \in DOMAIN credits, NEW p, NEW total \in Int, NEW kept
  PROVE  /\ TakenOf(c, p, total, kept) \in Nat
         /\ RemainingWith(c, kept) >= 0 => TakenOf(c, p, total, kept) <= RemainingWith(c, kept)
         /\ TakenOf(c, p, total, kept) > 0 => credits[c].participant = p
<1> DEFINE open == [d \in DOMAIN credits |-> Max({RemainingWith(d, kept), 0})]
           S == {d \in OwnCredits(p) : d < c}
           to_cover == total - SumFunctionOnSet(open, S)
<1>1. \A d \in DOMAIN credits :
         /\ open[d] \in Nat
         /\ RemainingWith(d, kept) >= 0 => open[d] = RemainingWith(d, kept)
  <2>1. SUFFICES ASSUME NEW d \in DOMAIN credits
                 PROVE  /\ open[d] \in Nat
                        /\ RemainingWith(d, kept) >= 0 => open[d] = RemainingWith(d, kept)
    OBVIOUS
  <2>2. PICK left \in Int : left = RemainingWith(d, kept)
    BY RemainingInt
  <2>3. open[d] = Max({left, 0})
    BY <2>2
  <2> HIDE DEF open
  <2>. QED  BY <2>2, <2>3, MaxOfTwo
<1>2. IsFiniteSet(S) /\ S \subseteq DOMAIN credits
  BY CreditsFinite, FS_Subset DEF OwnCredits
<1>3. SumFunctionOnSet(open, S) \in Int
  <2> HIDE DEF open, S
  <2>. QED  BY <1>1, <1>2, SumInt
<1>4. to_cover \in Int /\ open[c] \in Nat
  <2> HIDE DEF open, S
  <2>. QED  BY <1>1, <1>3
<1>5. TakenOf(c, p, total, kept) =
         IF c \in OwnCredits(p) THEN Max({Min({open[c], to_cover}), 0}) ELSE 0
  BY DEF TakenOf
<1>6. c \in OwnCredits(p) => credits[c].participant = p
  BY DEF OwnCredits
<1> HIDE DEF open, to_cover
<1>7. Min({open[c], to_cover}) \in Int /\ Min({open[c], to_cover}) <= open[c]
  BY <1>4, MinOfTwo
<1>8. /\ Max({Min({open[c], to_cover}), 0}) \in Nat
      /\ Max({Min({open[c], to_cover}), 0}) <= open[c]
  BY <1>4, <1>7, MaxOfTwo
<1>. QED  BY <1>1, <1>5, <1>6, <1>8

\* Fewer invoices that hold a credit note leave more of it.
LEMMA RemainingWithFewer ==
  ASSUME TypeOK, ApplicationsPositive, NEW c \in DOMAIN credits, NEW kept
  PROVE  /\ RemainingWith(c, kept) \in Int
         /\ RemainingWith(c, kept) >= credit_remaining(c)
         /\ (\A a \in HoldingOf(c) : a[2] \in kept) =>
               RemainingWith(c, kept) = credit_remaining(c)
         /\ RemainingWith(c, kept) = credits[c].amount - credits[c].refunded
              - SumFunctionOnSet(AppliedAmount, {a \in HoldingOf(c) : a[2] \in kept})
<1> DEFINE K == {a \in HoldingOf(c) : a[2] \in kept}
<1>1. RemainingWith(c, kept) = credits[c].amount - credits[c].refunded
                                 - SumFunctionOnSet(AppliedAmount, K)
  <2>1. {a \in DOMAIN applications : a[1] = c /\ a[2] \in kept /\ ~applications[a].released} = K
    BY DEF HoldingOf, Holding
  <2>. QED  BY <2>1 DEF RemainingWith
<1>2. /\ IsFiniteSet(HoldingOf(c)) /\ K \subseteq HoldingOf(c) /\ IsFiniteSet(K)
      /\ \A a \in HoldingOf(c) : AppliedAmount[a] \in Nat
  BY HoldingFinite, AppliedNat, FS_Subset
<1>3. (\A a \in HoldingOf(c) : a[2] \in kept) => K = HoldingOf(c)
  OBVIOUS
<1> HIDE DEF K
<1>4. /\ SumFunctionOnSet(AppliedAmount, K) <= SumFunctionOnSet(AppliedAmount, HoldingOf(c))
      /\ SumFunctionOnSet(AppliedAmount, K) \in Nat
      /\ SumFunctionOnSet(AppliedAmount, HoldingOf(c)) \in Nat
  BY <1>2, SumSubset, SumNat
<1>5. credits[c].amount \in Int /\ credits[c].refunded \in Int
  BY CreditRowInt
<1>6. credit_remaining(c) = credits[c].amount - credits[c].refunded
                              - SumFunctionOnSet(AppliedAmount, HoldingOf(c))
  BY RemainingIs
<1>. QED  BY <1>1, <1>3, <1>4, <1>5, <1>6 DEF K

\* What generation does to the applications: those of the replaced invoices
\* disappear and the new one gets what is taken of each credit note.
Generated(p, new, kept, taken) ==
    /\ new \notin DOMAIN invoices
    /\ DOMAIN invoices' = kept \cup {new}
    /\ \A i \in kept : invoices'[i] = invoices[i]
    /\ invoices'[new].status = "draft"
    /\ invoices'[new].participant = p
    /\ invoices'[new].credit_applied = SumFunction(taken)
    /\ Holding' = {a \in Holding : a[2] \in kept}
                     \cup {<<c, new>> : c \in {d \in DOMAIN credits : taken[d] > 0}}
    /\ \A a \in DOMAIN applications' : a[2] # new =>
          a \in DOMAIN applications /\ applications'[a] = applications[a]
    /\ \A a \in DOMAIN applications' : a[2] = new =>
          /\ a[1] \in DOMAIN credits /\ a = <<a[1], new>>
          /\ applications'[a].amount = taken[a[1]] /\ taken[a[1]] > 0
    /\ UNCHANGED credits

LEMMA GenerateApplications ==
  ASSUME TypeOK, TypeOK', NEW p, NEW start, NEW end, NEW subtotal,
         generate_invoice(p, start, end, subtotal),
         NEW new, new = invoice_counter,
         NEW kept, kept = DOMAIN invoices \ Doomed(p, start, end),
         NEW total \in Int, total = round_to_step(subtotal),
         NEW taken, taken = [c \in DOMAIN credits |-> TakenOf(c, p, total, kept)]
  PROVE  Generated(p, new, kept, taken)
<1> DEFINE keptApps == {a \in DOMAIN applications : a[2] \in kept}
           newApps == {<<c, new>> : c \in {d \in DOMAIN credits : taken[d] > 0}}
<1>1. new \notin DOMAIN invoices
  BY ConstantsAssumption DEF TypeOK
<1>2. /\ DOMAIN invoices' = kept \cup {new}
      /\ \A i \in kept \cup {new} : i # new => invoices'[i] = invoices[i]
      /\ invoices'[new].status = "draft" /\ invoices'[new].participant = p
      /\ invoices'[new].credit_applied = SumFunction(taken)
      /\ applications' = [a \in keptApps \cup newApps |->
             IF a[2] = new THEN [amount |-> taken[a[1]], released |-> FALSE]
             ELSE applications[a]]
      /\ UNCHANGED credits
  BY DEF generate_invoice
<1>3. \A i \in kept : i # new
  BY <1>1
<1>4. DOMAIN applications' = keptApps \cup newApps
  BY <1>2
<1>5. \A a \in keptApps : a[2] # new /\ a \in DOMAIN applications
                            /\ applications'[a] = applications[a]
  BY <1>2, <1>3
<1>6. \A a \in newApps : /\ a[2] = new /\ a[1] \in DOMAIN credits /\ a = <<a[1], new>>
                           /\ taken[a[1]] > 0
  OBVIOUS
<1>7. \A a \in newApps : applications'[a] = [amount |-> taken[a[1]], released |-> FALSE]
  BY <1>2, <1>6
<1>8. \A a \in newApps : /\ applications'[a].amount = taken[a[1]]
                           /\ applications'[a].released = FALSE
  <2> HIDE DEF newApps
  <2>1. SUFFICES ASSUME NEW a \in newApps
                 PROVE  /\ applications'[a].amount = taken[a[1]]
                        /\ applications'[a].released = FALSE
    OBVIOUS
  <2>2. PICK row : row = applications'[a]
    OBVIOUS
  <2>3. PICK n : n = taken[a[1]]
    OBVIOUS
  <2>4. row = [amount |-> n, released |-> FALSE]
    BY <1>7, <2>2, <2>3, Zenon
  <2>5. row.amount = n /\ row.released = FALSE
    BY <2>4, Zenon
  <2>. QED  BY <2>2, <2>3, <2>5
<1>9. Holding' = {a \in Holding : a[2] \in kept} \cup newApps
  <2>1. \A a \in newApps : a \in Holding'
    <3> HIDE DEF newApps
    <3>. QED  BY <1>4, <1>8 DEF Holding
  <2>2. \A a \in keptApps : a \in Holding' <=> a \in Holding
    BY <1>4, <1>5 DEF Holding
  <2>3. Holding' \subseteq keptApps \cup newApps
    BY <1>4 DEF Holding
  <2>4. {a \in Holding : a[2] \in kept} \subseteq keptApps
    BY DEF Holding
  <2>5. \A a \in keptApps : a[2] \in kept
    OBVIOUS
  <2> HIDE DEF keptApps, newApps
  <2>. QED  BY <2>1, <2>2, <2>3, <2>4, <2>5
<1>10. /\ \A a \in DOMAIN applications' : a[2] # new =>
             a \in DOMAIN applications /\ applications'[a] = applications[a]
       /\ \A a \in DOMAIN applications' : a[2] = new =>
             /\ a[1] \in DOMAIN credits /\ a = <<a[1], new>>
             /\ applications'[a].amount = taken[a[1]] /\ taken[a[1]] > 0
  <2> HIDE DEF keptApps, newApps
  <2>. QED  BY <1>4, <1>5, <1>6, <1>8
<1>. QED  BY <1>1, <1>2, <1>3, <1>9, <1>10 DEF Generated

LEMMA GenerateCredit ==
  ASSUME CreditInv, TypeOK', NEW p \in Participants, NEW start \in Days, NEW end \in Days,
         NEW subtotal \in Subtotals, generate_invoice(p, start, end, subtotal)
  PROVE  CreditInv' /\ CreditReturnStep
<1>0. TypeOK /\ ApplicationsPositive /\ CancelledReleased
  BY DEF CreditInv
<1>1. PICK kept : kept = DOMAIN invoices \ Doomed(p, start, end)
  OBVIOUS
<1>2. PICK total \in Int : total = round_to_step(subtotal)
  BY RoundInt, ConstantsAssumption
<1>3. PICK taken : taken = [c \in DOMAIN credits |-> TakenOf(c, p, total, kept)]
  OBVIOUS
<1>n. PICK new : new = invoice_counter
  OBVIOUS
<1> DEFINE newApps == {<<c, new>> : c \in {d \in DOMAIN credits : taken[d] > 0}}
<1>4. /\ new \notin DOMAIN invoices
      /\ DOMAIN invoices' = kept \cup {new}
      /\ \A i \in kept : invoices'[i] = invoices[i]
      /\ invoices'[new].status = "draft" /\ invoices'[new].participant = p
      /\ invoices'[new].credit_applied = SumFunction(taken)
      /\ Holding' = {a \in Holding : a[2] \in kept} \cup newApps
      /\ \A a \in DOMAIN applications' : a[2] # new =>
            a \in DOMAIN applications /\ applications'[a] = applications[a]
      /\ \A a \in DOMAIN applications' : a[2] = new =>
            /\ a[1] \in DOMAIN credits /\ a = <<a[1], new>>
            /\ applications'[a].amount = taken[a[1]] /\ taken[a[1]] > 0
      /\ UNCHANGED credits
  <2>1. Generated(p, new, kept, taken)
    BY <1>0, <1>1, <1>2, <1>3, <1>n, GenerateApplications
  <2>. QED  BY <2>1 DEF Generated
<1>5. \A c \in DOMAIN credits :
         /\ taken[c] \in Nat
         /\ RemainingWith(c, kept) >= 0 => taken[c] <= RemainingWith(c, kept)
         /\ taken[c] > 0 => credits[c].participant = p
  BY <1>0, <1>3, TakenBounds
<1>6. DOMAIN taken = DOMAIN credits
  BY <1>3
<1>7. Holding \subseteq DOMAIN applications /\ Holding' \subseteq DOMAIN applications'
  BY DEF Holding
<1>8. \A a \in newApps : a[1] \in DOMAIN credits /\ a[2] = new /\ a \in Holding'
  BY <1>4
<1>9. kept \subseteq DOMAIN invoices
  BY <1>1
<1>a. \A a \in DOMAIN applications : AppliedAmount[a] \in Nat
  BY <1>0, AppliedNat
<1>b. \A a \in DOMAIN applications' :
         /\ a[2] # new => AppliedAmount'[a] = AppliedAmount[a]
         /\ a[2] = new => AppliedAmount'[a] = taken[a[1]]
  BY <1>4 DEF AppliedAmount
<1>c. \A a \in Holding' : a[2] # new => a \in Holding /\ a[2] \in kept
  BY <1>4, <1>8
<1>d. \A a \in Holding : a[2] \in kept => a \in Holding' /\ a[2] # new
  BY <1>4, <1>9
<1>e. \A a \in Holding' : a[2] = new => a \in newApps
  BY <1>4, <1>9
<1>f. \A c \in DOMAIN credits : taken[c] > 0 <=> <<c, new>> \in Holding'
  BY <1>4, <1>7
\* What is left of each credit note.
<1>10. ASSUME NEW c \in DOMAIN credits
       PROVE  credit_remaining(c)' = RemainingWith(c, kept) - taken[c]
  <2> DEFINE K == {a \in HoldingOf(c) : a[2] \in kept}
  <2>1. K \subseteq HoldingOf(c)' /\ <<c, new>> \notin K
    BY <1>4, <1>9, <1>d DEF HoldingOf
  <2>2. \A a \in HoldingOf(c)' : a \in K \/ a = <<c, new>>
    BY <1>4, <1>7, <1>c DEF HoldingOf
  <2>3. /\ IsFiniteSet(K) /\ K \subseteq DOMAIN applications
        /\ \A a \in K : AppliedAmount[a] \in Int
    BY <1>0, <1>a, HoldingFinite, FS_Subset
  <2>4. \A a \in K : AppliedAmount'[a] = AppliedAmount[a]
    BY <1>7, <1>b, <1>d DEF HoldingOf
  <2>5. RemainingWith(c, kept) = credits[c].amount - credits[c].refunded
                                   - SumFunctionOnSet(AppliedAmount, K)
    BY <1>0, RemainingWithFewer
  <2> HIDE DEF K
  <2>6. SumFunctionOnSet(AppliedAmount', K) = SumFunctionOnSet(AppliedAmount, K)
    BY <2>3, <2>4, SumSame
  <2>7. SumFunctionOnSet(AppliedAmount, K) \in Int
    BY <2>3, SumInt
  <2>8. SumFunctionOnSet(AppliedAmount', HoldingOf(c)') = SumFunctionOnSet(AppliedAmount, K) + taken[c]
    <3>1. CASE taken[c] > 0
      <4>1. <<c, new>> \in HoldingOf(c)'
        BY <1>f, <3>1 DEF HoldingOf
      <4>2. HoldingOf(c)' = K \cup {<<c, new>>}
        BY <2>1, <2>2, <4>1
      <4>3. AppliedAmount'[<<c, new>>] = taken[c]
        BY <1>7, <1>b, <4>1 DEF HoldingOf
      <4>4. PICK x : x = <<c, new>>
        OBVIOUS
      <4>5. \A y \in K \cup {x} : AppliedAmount'[y] \in Int
        BY <1>5, <2>3, <2>4, <4>3, <4>4
      <4>6. SumFunctionOnSet(AppliedAmount', K \cup {x})
               = AppliedAmount'[x] + SumFunctionOnSet(AppliedAmount', K)
        BY <2>1, <2>3, <4>4, <4>5, SumAdd
      <4>. QED  BY <1>5, <2>6, <2>7, <4>2, <4>3, <4>4, <4>6
    <3>2. CASE ~(taken[c] > 0)
      <4>1. <<c, new>> \notin HoldingOf(c)'
        BY <1>f, <3>2 DEF HoldingOf
      <4>2. HoldingOf(c)' = K
        BY <2>1, <2>2, <4>1
      <4>3. taken[c] = 0
        BY <1>5, <3>2
      <4>. QED  BY <2>6, <2>7, <4>2, <4>3
    <3>. QED  BY <3>1, <3>2
  <2>9. credits[c].amount \in Int /\ credits[c].refunded \in Int
    BY <1>0, CreditRowInt
  <2>. QED  BY <1>4, <1>5, <2>5, <2>7, <2>8, <2>9, RemainingNext
<1>11. ASSUME NEW c \in DOMAIN credits
       PROVE  /\ credit_remaining(c)' >= 0
              /\ credit_remaining(c)' > credit_remaining(c) =>
                    \E a \in HoldingOf(c) : a[2] \notin kept
  <2>1. credit_remaining(c) >= 0 /\ credit_remaining(c) \in Int
    BY <1>0, CreditRowInt DEF CreditInv, CreditNeverOverspent
  <2>2. /\ RemainingWith(c, kept) \in Int
        /\ RemainingWith(c, kept) >= credit_remaining(c)
        /\ (\A a \in HoldingOf(c) : a[2] \in kept) =>
              RemainingWith(c, kept) = credit_remaining(c)
    BY <1>0, RemainingWithFewer
  <2>. QED  BY <1>5, <1>10, <2>1, <2>2
<1>12. CreditNeverOverspent'
  BY <1>4, <1>11 DEF CreditNeverOverspent
<1>13. CreditReturnStep
  <2>1. SUFFICES ASSUME NEW c \in DOMAIN credits,
                        credit_remaining(c)' > credit_remaining(c)
                 PROVE  \E i \in DOMAIN invoices :
                           /\ Live(i) /\ <<c, i>> \in ActiveApplications(i)
                           /\ i \in DOMAIN invoices' => invoices'[i].status = "cancelled"
    BY DEF CreditReturnStep
  <2>2. PICK a \in HoldingOf(c) : a[2] \notin kept
    BY <1>11, <2>1
  <2>3. a \in Holding /\ a \in DOMAIN applications /\ a[1] = c
    BY <1>7, <2>2 DEF HoldingOf
  <2>4. a = <<c, a[2]>> /\ a[2] \in DOMAIN invoices
    BY <1>0, <2>3 DEF TypeOK
  <2>5. Live(a[2]) /\ <<c, a[2]>> \in ActiveApplications(a[2])
    BY <1>0, <2>3, <2>4 DEF CancelledReleased, ActiveApplications, Holding
  <2>6. a[2] \notin DOMAIN invoices'
    BY <1>4, <2>2, <2>4
  <2>. QED  BY <2>4, <2>5, <2>6
<1>14. ApplicationsPositive'
  BY <1>0, <1>4 DEF ApplicationsPositive
<1>15. CancelledReleased'
  BY <1>0, <1>4, <1>7, <1>c DEF CancelledReleased, Live
\* The deduction of an invoice that stays.
<1>16. ASSUME NEW i \in kept, Live(i)
       PROVE  /\ SumFunctionOnSet(AppliedAmount', ActiveApplications(i)') = invoices'[i].credit_applied
              /\ \A a \in ActiveApplications(i)' :
                    credits'[a[1]].participant = invoices'[i].participant
  <2>1. i # new /\ i \in DOMAIN invoices
    BY <1>4, <1>9
  <2>2. /\ ActiveApplications(i) = {a \in Holding : a[2] = i}
        /\ ActiveApplications(i)' = {a \in Holding' : a[2] = i}
    BY DEF ActiveApplications, Holding
  <2>3. ActiveApplications(i)' = ActiveApplications(i)
    BY <1>c, <1>d, <2>1, <2>2
  <2>4. \A a \in ActiveApplications(i) : AppliedAmount'[a] = AppliedAmount[a]
    BY <1>7, <1>b, <2>1, <2>2, <2>3
  <2>5. SumFunctionOnSet(AppliedAmount', ActiveApplications(i))
           = SumFunctionOnSet(AppliedAmount, ActiveApplications(i))
    BY <1>0, <2>4, HoldingFinite, SumSame
  <2>6. /\ SumFunctionOnSet(AppliedAmount, ActiveApplications(i)) = invoices[i].credit_applied
        /\ \A a \in ActiveApplications(i) :
              credits[a[1]].participant = invoices[i].participant
    BY <1>16, <2>1 DEF CreditInv, DeductionIsBacked
  <2>. QED  BY <1>4, <1>16, <2>3, <2>5, <2>6
\* The deduction of the new one is the sum of what was taken.
<1>17. /\ SumFunctionOnSet(AppliedAmount', ActiveApplications(new)') = invoices'[new].credit_applied
       /\ \A a \in ActiveApplications(new)' :
             credits'[a[1]].participant = invoices'[new].participant
  <2> DEFINE used == {d \in DOMAIN credits : taken[d] # 0}
             h == [c \in DOMAIN credits |-> <<c, new>>]
  <2>1. used = {d \in DOMAIN credits : taken[d] > 0}
    BY <1>5
  <2>2. ActiveApplications(new)' = {a \in Holding' : a[2] = new}
    BY DEF ActiveApplications, Holding
  <2>3. ActiveApplications(new)' = newApps
    <3> HIDE DEF newApps
    <3>. QED  BY <1>8, <1>e, <2>2
  <2>4. newApps = {h[c] : c \in used}
    <3>1. \A c \in used : h[c] = <<c, new>>
      OBVIOUS
    <3>2. newApps = {<<c, new>> : c \in used}
      BY <2>1
    <3> HIDE DEF h, used, newApps
    <3>. QED  BY <3>1, <3>2
  <2>5. \A c \in used : h[c] = <<c, new>> /\ h[c] \in Holding'
    BY <1>f, <2>1
  <2>6. \A c \in used : AppliedAmount'[h[c]] = taken[c] /\ taken[c] \in Int
    <3> HIDE DEF h
    <3>. QED  BY <1>5, <1>7, <1>b, <2>5
  <2>7. IsFiniteSet(used)
    BY <1>0, CreditsFinite, FS_Subset
  <2>8. \A c, d \in used : h[c] = h[d] => c = d
    BY <2>5
  <2>9. SumFunctionOnSet(taken, used) = SumFunctionOnSet(taken, DOMAIN credits)
    BY <1>0, <1>5, CreditsFinite, SumDropZeros
  <2> HIDE DEF h, used
  <2>10. SumFunctionOnSet(AppliedAmount', {h[c] : c \in used}) = SumFunctionOnSet(taken, used)
    BY <2>6, <2>7, <2>8, SumReindex
  <2>11. SumFunction(taken) = SumFunctionOnSet(taken, DOMAIN credits)
    BY <1>6 DEF SumFunction
  <2>12. \A a \in newApps : credits[a[1]].participant = p
    BY <1>5
  <2>. QED  BY <1>4, <2>3, <2>4, <2>9, <2>10, <2>11, <2>12
<1>18. DeductionIsBacked'
  <2>1. SUFFICES ASSUME NEW i \in DOMAIN invoices', invoices'[i].status # "cancelled"
                 PROVE  /\ SumFunctionOnSet(AppliedAmount', ActiveApplications(i)')
                              = invoices'[i].credit_applied
                        /\ \A a \in ActiveApplications(i)' :
                              credits'[a[1]].participant = invoices'[i].participant
    BY DEF DeductionIsBacked, Live
  <2>2. CASE i = new
    BY <1>17, <2>2
  <2>3. CASE i \in kept
    <3>1. Live(i)
      BY <1>4, <2>1, <2>3 DEF Live
    <3>. QED  BY <1>16, <2>3, <3>1
  <2>. QED  BY <1>4, <2>2, <2>3
<1>. QED  BY <1>12, <1>13, <1>14, <1>15, <1>18 DEF CreditInv

-----------------------------------------------------------------------------
(* Credit notes are never overspent *)

LEMMA CreditStep ==
  ASSUME CreditInv, [Next]_vars
  PROVE  CreditInv' /\ [CreditReturnStep]_vars
<1>0. TypeOK /\ TypeOK' /\ CancelledReleased
  BY TypeStep DEF CreditInv
<1>1. CASE \E p \in Participants, start, end \in Days, subtotal \in Subtotals :
              generate_invoice(p, start, end, subtotal)
  BY <1>0, <1>1, GenerateCredit
<1>2. CASE \E i \in DOMAIN invoices : InvoiceStep(i)
  BY <1>0, <1>2, InvoiceReleases, ReleasesStep
<1>3. CASE \E p \in DOMAIN payments : delete_payment(p)
  BY <1>0, <1>3, PaymentReleases, ReleasesStep
<1>4. CASE \E c \in DOMAIN credits : refund_credit(c)
  BY <1>0, <1>4, RefundStep
<1>5. CASE \E r \in deleting : destroy_delete(r)
  BY <1>0, <1>5, DeleteReleases, ReleasesStep
<1>6. CASE UNCHANGED vars
  <2>1. CreditInv'
    BY <1>0, <1>6, QuietReleases, ReleasesStep DEF vars, ledger
  <2>. QED  BY <1>6, <2>1
<1>. QED  BY <1>1, <1>2, <1>3, <1>4, <1>5, <1>6 DEF Next

LEMMA CreditInit == Init => CreditInv
<1>1. Init => TypeOK
  BY BillingInit DEF BillingInv
<1>. QED  BY <1>1 DEF Init, CreditInv, ApplicationsPositive, CancelledReleased, Holding,
            CreditNeverOverspent, DeductionIsBacked

\* In every state of the ledger, and however generation, replacement,
\* cancellation, reversal, deletion and refund follow each other, no more of a
\* credit note is in use or refunded than it is worth.
THEOREM CreditsNeverOverspent == Spec => []CreditNeverOverspent
<1>1. CreditInv /\ [Next]_vars => CreditInv'
  BY CreditStep
<1>2. CreditInv => CreditNeverOverspent
  BY DEF CreditInv
<1>. QED  BY CreditInit, <1>1, <1>2, PTL DEF Spec

\* The credit an invoice shows as deducted is held for it, to the Rappen and
\* out of its participant's own credit notes, as long as it stands.
THEOREM DeductionsAreBacked == Spec => []DeductionIsBacked
<1>1. CreditInv /\ [Next]_vars => CreditInv'
  BY CreditStep
<1>2. CreditInv => DeductionIsBacked
  BY DEF CreditInv
<1>. QED  BY CreditInit, <1>1, <1>2, PTL DEF Spec

\* Whatever a step is, credit returns to a credit note only from an invoice
\* that held it, stood, and ends with this step: it never returns twice.
THEOREM CreditReturnsOnlyOnce == Spec => CreditReturnsOnce
<1>1. CreditInv /\ [Next]_vars => CreditInv' /\ [CreditReturnStep]_vars
  BY CreditStep
<1>. QED  BY CreditInit, <1>1, PTL DEF Spec, CreditReturnsOnce

-----------------------------------------------------------------------------
(* Corrections fit the cash *)

\* approved_at is stamped on the way to every status that can be corrected, so
\* generation, which replaces only invoices never issued, leaves the sources
\* of credit notes alone.
IssuedOnceApproved ==
    \A i \in DOMAIN invoices : Status(i) \in {"approved", "sent", "paid"} => Issued(i)

\* The source of a credit note is stored and issued, and the note corrects
\* something.
CreditsSound ==
    \A c \in DOMAIN credits :
        /\ credits[c].source \in DOMAIN invoices
        /\ Issued(credits[c].source)
        /\ credits[c].amount - credits[c].rounding > 0

\* An invoice over a positive total never asks for less than nothing.
DueNotNegative ==
    \A i \in DOMAIN invoices : invoices[i].total > 0 => amount_due(i) >= 0

RowsSound == IssuedOnceApproved /\ CreditsSound /\ DueNotNegative

\* The corrections of one invoice fit what it received.
Fits(i) ==
    /\ CreditsOf(i) # {} => 0 < credited_chf(i) /\ credited_chf(i) <= paid_chf(i)
    /\ ~Live(i) => 0 <= creditable(i) /\ 2 * creditable(i) < Step

CorrectionInv ==
    /\ MoneyInv
    /\ CreditInv
    /\ RowsSound
    /\ \A i \in DOMAIN invoices : Fits(i)

LEMMA CorrectionsFit == CorrectionInv => CorrectionsFitTheCash
<1>1. SUFFICES ASSUME CorrectionInv PROVE CorrectionsFitTheCash
  OBVIOUS
<1>2. \A i \in DOMAIN invoices : ~Live(i) => ActiveApplications(i) = {}
  BY <1>1 DEF CorrectionInv, CreditInv, CancelledReleased, Holding, ActiveApplications
<1>. QED  BY <1>1, <1>2 DEF CorrectionInv, Fits, CorrectionsFitTheCash,
            CreditedWithinReceived, CancelledKeepsNothing

\* Rounding keeps the sign, and only less than half a step rounds to nothing.
LEMMA RoundSmall ==
  ASSUME NEW a \in Nat
  PROVE  /\ round_to_step(a) \in Nat
         /\ ~(round_to_step(a) > 0) => 2 * a < Step
<1>1. Step \in Nat \ {0} /\ 2 * Step \in Nat \ {0} /\ 2 * a + Step \in Nat
  BY ConstantsAssumption
<1> DEFINE q == (2 * a + Step) \div (2 * Step)
<1>2. round_to_step(a) = q * Step
  BY DEF round_to_step
<1>3. ASSUME NEW m \in Nat, NEW n \in Nat \ {0}
      PROVE  m \div n \in Nat /\ (m \div n = 0 => m < n)
  BY <1>3
<1>4. q \in Nat /\ (q = 0 => 2 * a + Step < 2 * Step)
  BY <1>1, <1>3
<1>5. ASSUME NEW m \in Nat, NEW n \in Nat \ {0}
      PROVE  m * n \in Nat /\ (m * n = 0 => m = 0)
  BY <1>5
<1> HIDE DEF q
<1>6. q * Step \in Nat /\ (q * Step = 0 => q = 0)
  BY <1>1, <1>4, <1>5
<1>. QED  BY <1>1, <1>2, <1>4, <1>6

\* Credit notes of i are found again, with the same sum, when none of them is
\* touched.
LEMMA CreditedKept ==
  ASSUME TypeOK, NEW i,
         \A c \in DOMAIN credits : credits[c].source = i =>
            /\ c \in DOMAIN credits' /\ credits'[c].source = i
            /\ credits'[c].amount = credits[c].amount
            /\ credits'[c].rounding = credits[c].rounding,
         \A c \in DOMAIN credits' : credits'[c].source = i =>
            c \in DOMAIN credits /\ credits[c].source = i
  PROVE  CreditsOf(i)' = CreditsOf(i) /\ credited_chf(i)' = credited_chf(i)
<1> DEFINE f == [c \in DOMAIN credits |-> credits[c].amount - credits[c].rounding]
           g == [c \in DOMAIN credits' |-> credits'[c].amount - credits'[c].rounding]
<1>1. CreditsOf(i)' = CreditsOf(i)
  BY DEF CreditsOf
<1>2. IsFiniteSet(CreditsOf(i))
  BY CreditsFinite, FS_Subset DEF CreditsOf
<1>3. \A c \in CreditsOf(i) : g[c] = f[c]
  BY DEF CreditsOf
<1>4. credited_chf(i) = SumFunctionOnSet(f, CreditsOf(i))
  BY DEF credited_chf
<1>5. credited_chf(i)' = SumFunctionOnSet(g, CreditsOf(i))
  BY <1>1 DEF credited_chf
<1> HIDE DEF f, g
<1>6. SumFunctionOnSet(g, CreditsOf(i)) = SumFunctionOnSet(f, CreditsOf(i))
  BY <1>2, <1>3, SumSame
<1>. QED  BY <1>1, <1>4, <1>5, <1>6

\* A new credit note corrects exactly the amount asked for, rounding aside,
\* and touches no other invoice.
LEMMA CreditedWith ==
  ASSUME TypeOK, TypeOK', NEW i, NEW kind, NEW amount \in Int, IssueCredit(i, kind, amount)
  PROVE  /\ CreditsOf(i)' # {}
         /\ credited_chf(i)' = credited_chf(i) + amount
         /\ \A j : j # i => CreditsOf(j)' = CreditsOf(j) /\ credited_chf(j)' = credited_chf(j)
<1>1. PICK n : n = credit_counter
  OBVIOUS
<1>2. /\ n \notin DOMAIN credits /\ DOMAIN credits' = DOMAIN credits \cup {n}
      /\ \A c \in DOMAIN credits : credits'[c] = credits[c]
      /\ credits'[n].source = i
      /\ credits'[n].amount = round_to_step(amount)
      /\ credits'[n].rounding = rounding_difference(amount)
  <2>1. credit_counter \notin DOMAIN credits
    BY ConstantsAssumption DEF TypeOK
  <2>. QED  BY <1>1, <2>1 DEF IssueCredit
<1> DEFINE f == [c \in DOMAIN credits |-> credits[c].amount - credits[c].rounding]
           g == [c \in DOMAIN credits' |-> credits'[c].amount - credits'[c].rounding]
<1>3. CreditsOf(i)' = CreditsOf(i) \cup {n} /\ n \notin CreditsOf(i)
  BY <1>2 DEF CreditsOf
<1>4. IsFiniteSet(CreditsOf(i))
  BY CreditsFinite, FS_Subset DEF CreditsOf
<1>5. \A c \in CreditsOf(i) : g[c] = f[c] /\ g[c] \in Int
  <2>1. \A c \in DOMAIN credits : credits[c].amount \in Int /\ credits[c].rounding \in Int
    BY DEF TypeOK, Credit
  <2>. QED  BY <1>2, <2>1 DEF CreditsOf
<1>6. g[n] = amount
  BY <1>2, RoundInt DEF rounding_difference
<1>7. credited_chf(i) = SumFunctionOnSet(f, CreditsOf(i))
  BY DEF credited_chf
<1>8. credited_chf(i)' = SumFunctionOnSet(g, CreditsOf(i) \cup {n})
  BY <1>3 DEF credited_chf
<1> HIDE DEF f, g
<1>9. SumFunctionOnSet(g, CreditsOf(i) \cup {n}) = g[n] + SumFunctionOnSet(g, CreditsOf(i))
  BY <1>3, <1>4, <1>5, <1>6, SumAdd
<1>10. SumFunctionOnSet(g, CreditsOf(i)) = SumFunctionOnSet(f, CreditsOf(i))
  BY <1>4, <1>5, SumSame
<1>11. SumFunctionOnSet(g, CreditsOf(i)) \in Int
  BY <1>4, <1>5, SumInt
<1>12. ASSUME NEW j, j # i
       PROVE  CreditsOf(j)' = CreditsOf(j) /\ credited_chf(j)' = credited_chf(j)
  BY <1>2, <1>12, CreditedKept
<1>. QED  BY <1>3, <1>6, <1>7, <1>8, <1>9, <1>10, <1>11, <1>12

\* What a step must keep for the rows to stay sound.
LEMMA RowsKept ==
  ASSUME RowsSound,
         \A i \in (DOMAIN invoices') \cap DOMAIN invoices :
            /\ invoices'[i].total = invoices[i].total
            /\ invoices'[i].credit_applied = invoices[i].credit_applied
            /\ invoices'[i].due_rounding = invoices[i].due_rounding
            /\ invoices[i].approved => invoices'[i].approved
            /\ invoices'[i].status \in {"approved", "sent", "paid"} =>
                  invoices[i].status \in {"approved", "sent", "paid"} \/ invoices'[i].approved,
         \A i \in DOMAIN invoices' \ DOMAIN invoices :
            /\ invoices'[i].status = "draft"
            /\ invoices'[i].total > 0 => amount_due(i)' >= 0,
         \A c \in DOMAIN credits : credits[c].source \in DOMAIN invoices',
         \A c \in DOMAIN credits' :
            \/ /\ c \in DOMAIN credits
               /\ credits'[c].source = credits[c].source
               /\ credits'[c].amount = credits[c].amount
               /\ credits'[c].rounding = credits[c].rounding
            \/ /\ credits'[c].source \in DOMAIN invoices'
               /\ invoices'[credits'[c].source].approved
               /\ credits'[c].amount - credits'[c].rounding > 0
  PROVE  RowsSound'
<1>1. IssuedOnceApproved'
  BY DEF RowsSound, IssuedOnceApproved, Status, Issued
<1>2. CreditsSound'
  BY DEF RowsSound, CreditsSound, Issued
<1>3. DueNotNegative'
  <2>1. SUFFICES ASSUME NEW i \in DOMAIN invoices', invoices'[i].total > 0
                 PROVE  amount_due(i)' >= 0
    BY DEF DueNotNegative
  <2>2. CASE i \in DOMAIN invoices
    <3>1. amount_due(i)' = amount_due(i)
      BY <2>2, DueKept
    <3>. QED  BY <2>1, <2>2, <3>1 DEF RowsSound, DueNotNegative
  <2>. QED  BY <2>1, <2>2
<1>. QED  BY <1>1, <1>2, <1>3 DEF RowsSound

LEMMA FitsKept ==
  ASSUME NEW i, Fits(i), paid_chf(i)' = paid_chf(i), credited_chf(i)' = credited_chf(i),
         CreditsOf(i)' = CreditsOf(i),
         invoices'[i].status = "cancelled" => invoices[i].status = "cancelled"
  PROVE  Fits(i)'
BY DEF Fits, Live, creditable

\* Cash never received is never corrected.
LEMMA NothingReceived ==
  ASSUME TypeOK, NEW i, Fits(i), PaymentsOf(i) = {}
  PROVE  CreditsOf(i) = {} /\ paid_chf(i) = 0 /\ credited_chf(i) = 0
<1>1. paid_chf(i) = 0
  BY SumEmpty DEF paid_chf
<1>2. CreditsOf(i) = {}
  BY <1>1, CreditedInt DEF Fits
<1>. QED  BY <1>1, <1>2, SumEmpty DEF credited_chf

LEMMA CreditsUnchanged ==
  ASSUME TypeOK, UNCHANGED credits, NEW i
  PROVE  CreditsOf(i)' = CreditsOf(i) /\ credited_chf(i)' = credited_chf(i)
BY CreditedKept

LEMMA PaymentsUnchanged ==
  ASSUME UNCHANGED payments, NEW i
  PROVE  PaymentsOf(i)' = PaymentsOf(i) /\ paid_chf(i)' = paid_chf(i)
BY DEF PaymentsOf, paid_chf

\* What an invoice that can be corrected has left to credit is not negative.
LEMMA CreditableNat ==
  ASSUME CorrectionInv, NEW i \in DOMAIN invoices, Correctable(i)
  PROVE  /\ creditable(i) \in Nat
         /\ CreditsOf(i) = {} => credited_chf(i) = 0
<1>0. TypeOK /\ Fits(i) /\ Agrees(i) /\ DueNotNegative
  BY AgreesAll DEF CorrectionInv, MoneyInv, RowsSound
<1>1. paid_chf(i) \in Int /\ credited_chf(i) \in Int
  BY <1>0, PaidInt, CreditedInt
<1>2. CreditsOf(i) = {} => credited_chf(i) = 0
  BY SumEmpty DEF credited_chf
<1>3. paid_chf(i) >= 0
  BY <1>0, <1>1 DEF Correctable, Agrees, DueNotNegative
<1>. QED  BY <1>0, <1>1, <1>2, <1>3 DEF Fits, creditable

AllFit == \A i \in DOMAIN invoices : Fits(i)

\* Steps that book, remove and correct nothing.
LEMMA FitQuiet ==
  ASSUME CorrectionInv, UNCHANGED <<payments, credits>>,
         DOMAIN invoices' = DOMAIN invoices,
         \A i \in DOMAIN invoices :
            /\ invoices'[i].total = invoices[i].total
            /\ invoices'[i].credit_applied = invoices[i].credit_applied
            /\ invoices'[i].due_rounding = invoices[i].due_rounding
            /\ invoices[i].approved => invoices'[i].approved
            /\ invoices'[i].status \in {"approved", "sent", "paid"} =>
                  invoices[i].status \in {"approved", "sent", "paid"} \/ invoices'[i].approved
            /\ invoices'[i].status = "cancelled" => invoices[i].status = "cancelled"
  PROVE  RowsSound' /\ AllFit'
<1>0. TypeOK /\ RowsSound /\ CreditsSound
  BY DEF CorrectionInv, MoneyInv, RowsSound
<1>1. RowsSound'
  BY <1>0, RowsKept DEF CreditsSound
<1>2. ASSUME NEW i \in DOMAIN invoices PROVE Fits(i)'
  <2>1. Fits(i)
    BY DEF CorrectionInv
  <2>. QED  BY <1>0, <2>1, CreditsUnchanged, PaymentsUnchanged, FitsKept
<1>. QED  BY <1>1, <1>2 DEF AllFit

\* The rows after a transition.
LEMMA TransitionRows ==
  ASSUME CorrectionInv, NEW i \in DOMAIN invoices, NEW from, NEW to, Transition(i, from, to),
         to \in {"approved", "sent", "paid"} => from \subseteq {"approved", "sent", "paid"}
  PROVE  /\ DOMAIN invoices' = DOMAIN invoices
         /\ \A j \in DOMAIN invoices :
               /\ invoices'[j].total = invoices[j].total
               /\ invoices'[j].credit_applied = invoices[j].credit_applied
               /\ invoices'[j].due_rounding = invoices[j].due_rounding
               /\ invoices[j].approved => invoices'[j].approved
               /\ invoices'[j].status \in {"approved", "sent", "paid"} =>
                     invoices[j].status \in {"approved", "sent", "paid"} \/ invoices'[j].approved
               /\ j # i => invoices'[j].status = invoices[j].status
         /\ invoices'[i].status = to /\ invoices[i].status \in from
         /\ UNCHANGED credits => RowsSound'
<1>0. TypeOK /\ RowsSound /\ CreditsSound /\ invoices \in [DOMAIN invoices -> Invoice]
  BY DEF CorrectionInv, MoneyInv, RowsSound, TypeOK
<1>1. /\ DOMAIN invoices' = DOMAIN invoices
      /\ \A j \in DOMAIN invoices :
            /\ invoices'[j].total = invoices[j].total
            /\ invoices'[j].credit_applied = invoices[j].credit_applied
            /\ invoices'[j].due_rounding = invoices[j].due_rounding
            /\ invoices'[j].approved = invoices[j].approved
            /\ j # i => invoices'[j].status = invoices[j].status
      /\ invoices'[i].status = to /\ invoices[i].status \in from
  BY <1>0 DEF Transition, Status, Invoice
<1>2. \A j \in DOMAIN invoices :
         invoices'[j].status \in {"approved", "sent", "paid"} =>
            invoices[j].status \in {"approved", "sent", "paid"} \/ invoices'[j].approved
  BY <1>1
<1>3. \A j \in DOMAIN invoices : invoices[j].approved => invoices'[j].approved
  BY <1>1
<1>4. UNCHANGED credits => RowsSound'
  BY <1>0, <1>1, <1>2, <1>3, RowsKept DEF CreditsSound
<1>. QED  BY <1>1, <1>2, <1>3, <1>4

\* A payment on a sent invoice only adds to what it received.
LEMMA FitBooked ==
  ASSUME CorrectionInv, TypeOK', NEW i \in DOMAIN invoices, NEW amount \in Int,
         NEW to \in {"sent", "paid"}, Transition(i, {"sent"}, to),
         UNCHANGED credits, BookPayment(i, amount), CreditsOf(i) # {} => amount >= 0
  PROVE  RowsSound' /\ AllFit'
<1>0. TypeOK
  BY DEF CorrectionInv, MoneyInv
<1>1. /\ DOMAIN invoices' = DOMAIN invoices
      /\ \A j \in DOMAIN invoices : j # i => invoices'[j].status = invoices[j].status
      /\ invoices'[i].status = to
      /\ RowsSound'
  BY TransitionRows
<1>2. /\ paid_chf(i)' = paid_chf(i) + amount
      /\ \A j : j # i => paid_chf(j)' = paid_chf(j)
  <2>1. PICK p \in PaymentIds \ DOMAIN payments :
           payments' = [q \in DOMAIN payments \cup {p} |->
                          IF q = p THEN [invoice |-> i, amount |-> amount] ELSE payments[q]]
    BY DEF BookPayment
  <2>. QED  BY <1>0, <2>1, PaidWith
<1>3. \A j : CreditsOf(j)' = CreditsOf(j) /\ credited_chf(j)' = credited_chf(j)
  BY <1>0, CreditsUnchanged
<1>4. Fits(i)'
  <2>1. Fits(i) /\ paid_chf(i) \in Int /\ credited_chf(i) \in Int
    BY <1>0, PaidInt, CreditedInt DEF CorrectionInv
  <2>. QED  BY <1>1, <1>2, <1>3, <2>1 DEF Fits, Live
<1>5. \A j \in DOMAIN invoices : j # i => Fits(j)'
  BY <1>1, <1>2, <1>3, FitsKept DEF CorrectionInv
<1>. QED  BY <1>1, <1>4, <1>5 DEF AllFit

LEMMA FitCancelled ==
  ASSUME CorrectionInv, NEW i \in DOMAIN invoices, cancel_invoice(i)
  PROVE  RowsSound' /\ AllFit'
<1>0. TypeOK /\ Fits(i)
  BY DEF CorrectionInv, MoneyInv
<1>1. /\ Transition(i, {"draft", "approved", "sent"}, "cancelled")
      /\ PaymentsOf(i) = {} /\ UNCHANGED <<payments, credits>>
  BY DEF cancel_invoice
<1>2. /\ DOMAIN invoices' = DOMAIN invoices
      /\ \A j \in DOMAIN invoices : j # i => invoices'[j].status = invoices[j].status
      /\ RowsSound'
  BY <1>1, TransitionRows
<1>3. \A j : /\ CreditsOf(j)' = CreditsOf(j) /\ credited_chf(j)' = credited_chf(j)
             /\ paid_chf(j)' = paid_chf(j)
  BY <1>0, <1>1, CreditsUnchanged, PaymentsUnchanged
<1>4. Fits(i)'
  <2>1. CreditsOf(i) = {} /\ paid_chf(i) = 0 /\ credited_chf(i) = 0
    BY <1>0, <1>1, NothingReceived
  <2>. QED  BY <1>3, <2>1, ConstantsAssumption DEF Fits, creditable
<1>5. \A j \in DOMAIN invoices : j # i => Fits(j)'
  BY <1>2, <1>3, FitsKept DEF CorrectionInv
<1>. QED  BY <1>2, <1>4, <1>5 DEF AllFit

\* A correction of an invoice whose row keeps its terms: what is credited grows
\* by the amount, which the cash received covers.
LEMMA FitIssued ==
  ASSUME CorrectionInv, TypeOK', NEW i \in DOMAIN invoices, NEW kind, NEW amount \in Int,
         Correctable(i), 0 < amount, amount <= creditable(i),
         IssueCredit(i, kind, amount), UNCHANGED payments,
         DOMAIN invoices' = DOMAIN invoices,
         \A j \in DOMAIN invoices :
            /\ invoices'[j].total = invoices[j].total
            /\ invoices'[j].credit_applied = invoices[j].credit_applied
            /\ invoices'[j].due_rounding = invoices[j].due_rounding
            /\ invoices'[j].approved = invoices[j].approved
            /\ invoices'[j].status \in {invoices[j].status, "cancelled"}
            /\ j # i => invoices'[j].status = invoices[j].status,
         invoices'[i].status = "cancelled" => amount = creditable(i)
  PROVE  RowsSound' /\ AllFit'
<1>0. TypeOK /\ RowsSound /\ CreditsSound /\ IssuedOnceApproved
  BY DEF CorrectionInv, MoneyInv, RowsSound
<1>1. /\ CreditsOf(i)' # {}
      /\ credited_chf(i)' = credited_chf(i) + amount
      /\ \A j : j # i => CreditsOf(j)' = CreditsOf(j) /\ credited_chf(j)' = credited_chf(j)
  BY <1>0, CreditedWith
<1>2. \A j : paid_chf(j)' = paid_chf(j)
  BY PaymentsUnchanged
<1>3. paid_chf(i) \in Int /\ credited_chf(i) \in Int
  BY <1>0, PaidInt, CreditedInt
<1>4. Fits(i)'
  <2>1. Fits(i) /\ (CreditsOf(i) = {} => credited_chf(i) = 0)
    BY CreditableNat DEF CorrectionInv
  <2>2. credited_chf(i) >= 0
    BY <1>3, <2>1 DEF Fits
  <2>. QED  BY <1>1, <1>2, <1>3, <2>2, ConstantsAssumption DEF Fits, Live, creditable
<1>5. \A j \in DOMAIN invoices : j # i => Fits(j)'
  BY <1>1, <1>2, FitsKept DEF CorrectionInv
<1>6. RowsSound'
  <2>1. PICK n : n = credit_counter
    OBVIOUS
  <2>2. /\ \A c \in DOMAIN credits' : c # n => c \in DOMAIN credits /\ credits'[c] = credits[c]
        /\ credits'[n].source = i
        /\ credits'[n].amount - credits'[n].rounding = amount
    <3>1. /\ \A c \in DOMAIN credits' : c # n => c \in DOMAIN credits /\ credits'[c] = credits[c]
          /\ credits'[n].source = i
          /\ credits'[n].amount = round_to_step(amount)
          /\ credits'[n].rounding = rounding_difference(amount)
      BY <2>1 DEF IssueCredit
    <3>. QED  BY <3>1, RoundInt DEF rounding_difference
  <2>3. invoices'[i].approved
    BY <1>0 DEF Correctable, IssuedOnceApproved, Status, Issued
  <2>4. \A c \in DOMAIN credits' :
            \/ /\ c \in DOMAIN credits
               /\ credits'[c].source = credits[c].source
               /\ credits'[c].amount = credits[c].amount
               /\ credits'[c].rounding = credits[c].rounding
            \/ /\ credits'[c].source \in DOMAIN invoices'
               /\ invoices'[credits'[c].source].approved
               /\ credits'[c].amount - credits'[c].rounding > 0
    BY <2>2, <2>3
  <2>5. \A c \in DOMAIN credits : credits[c].source \in DOMAIN invoices'
    BY <1>0 DEF CreditsSound
  <2>6. \A j \in DOMAIN invoices :
           /\ invoices[j].approved => invoices'[j].approved
           /\ invoices'[j].status \in {"approved", "sent", "paid"} =>
                 invoices[j].status \in {"approved", "sent", "paid"}
    OBVIOUS
  <2>. QED  BY <1>0, <2>4, <2>5, <2>6, RowsKept
<1>. QED  BY <1>4, <1>5, <1>6 DEF AllFit

LEMMA FitReversed ==
  ASSUME CorrectionInv, TypeOK', NEW i \in DOMAIN invoices, reverse_invoice(i)
  PROVE  RowsSound' /\ AllFit'
<1>0. TypeOK /\ invoices \in [DOMAIN invoices -> Invoice]
  BY DEF CorrectionInv, MoneyInv, TypeOK
<1>1. /\ Correctable(i) /\ UNCHANGED payments
      /\ invoices' = [invoices EXCEPT ![i].status = "cancelled"]
      /\ \/ creditable(i) > 0 /\ IssueCredit(i, "reversal", creditable(i))
         \/ /\ ~(creditable(i) > 0 /\ round_to_step(creditable(i)) > 0)
            /\ UNCHANGED credits
  BY DEF reverse_invoice
<1>2. creditable(i) \in Nat
  BY <1>1, CreditableNat
<1>3. /\ DOMAIN invoices' = DOMAIN invoices
      /\ \A j \in DOMAIN invoices :
            /\ invoices'[j].total = invoices[j].total
            /\ invoices'[j].credit_applied = invoices[j].credit_applied
            /\ invoices'[j].due_rounding = invoices[j].due_rounding
            /\ invoices'[j].approved = invoices[j].approved
            /\ invoices'[j].status \in {invoices[j].status, "cancelled"}
            /\ j # i => invoices'[j].status = invoices[j].status
  BY <1>0, <1>1 DEF Invoice
<1>4. CASE creditable(i) > 0 /\ IssueCredit(i, "reversal", creditable(i))
  <2>1. PICK amount \in Int : amount = creditable(i)
    BY <1>2
  <2>. QED  BY <1>1, <1>3, <1>4, <2>1, FitIssued
<1>5. CASE /\ ~(creditable(i) > 0 /\ round_to_step(creditable(i)) > 0)
           /\ UNCHANGED credits
  <2>1. \A j : /\ CreditsOf(j)' = CreditsOf(j) /\ credited_chf(j)' = credited_chf(j)
               /\ paid_chf(j)' = paid_chf(j)
    BY <1>0, <1>1, <1>5, CreditsUnchanged, PaymentsUnchanged
  <2>2. 2 * creditable(i) < Step
    <3>1. CASE creditable(i) > 0
      BY <1>2, <1>5, <3>1, RoundSmall
    <3>2. CASE creditable(i) = 0
      BY <3>2, ConstantsAssumption
    <3>. QED  BY <1>2, <3>1, <3>2
  <2>3. Fits(i)'
    <3>1. Fits(i)
      BY DEF CorrectionInv
    <3>2. creditable(i)' = creditable(i)
      BY <2>1 DEF creditable
    <3>. QED  BY <1>2, <2>1, <2>2, <3>1, <3>2 DEF Fits
  <2>4. \A j \in DOMAIN invoices : j # i => Fits(j)'
    BY <1>3, <2>1, FitsKept DEF CorrectionInv
  <2>5. RowsSound'
    <3>1. RowsSound /\ CreditsSound
      BY DEF CorrectionInv, RowsSound
    <3>2. \A j \in DOMAIN invoices :
             /\ invoices[j].approved => invoices'[j].approved
             /\ invoices'[j].status \in {"approved", "sent", "paid"} =>
                   invoices[j].status \in {"approved", "sent", "paid"}
      BY <1>3
    <3>. QED  BY <1>3, <1>5, <3>1, <3>2, RowsKept DEF CreditsSound
  <2>. QED  BY <1>3, <2>3, <2>4, <2>5 DEF AllFit
<1>. QED  BY <1>1, <1>4, <1>5

LEMMA FitTakenBack ==
  ASSUME CorrectionInv, TypeOK', NEW p \in DOMAIN payments, delete_payment(p)
  PROVE  RowsSound' /\ AllFit'
<1>0. TypeOK /\ PaymentsSound
  BY DEF CorrectionInv, MoneyInv
<1>1. PICK i \in DOMAIN invoices : i = payments[p].invoice
  BY <1>0 DEF PaymentsSound
<1>2. PICK to : /\ Transition(i, {"sent", "paid"}, to)
                /\ to \in {"sent", Status(i)}
  BY <1>1 DEF delete_payment
<1>3. /\ CreditsOf(i) = {} /\ UNCHANGED credits
      /\ payments' = Restrict(payments, DOMAIN payments \ {p})
  BY <1>1 DEF delete_payment
<1>4. to \in {"sent", "paid"}
  BY <1>2 DEF Transition
<1>5. /\ DOMAIN invoices' = DOMAIN invoices
      /\ \A j \in DOMAIN invoices : j # i => invoices'[j].status = invoices[j].status
      /\ invoices'[i].status = to
      /\ RowsSound'
  BY <1>2, <1>3, <1>4, TransitionRows
<1>6. \A j : CreditsOf(j)' = CreditsOf(j) /\ credited_chf(j)' = credited_chf(j)
  BY <1>0, <1>3, CreditsUnchanged
<1>7. \A j : j # i => paid_chf(j)' = paid_chf(j)
  BY <1>0, <1>1, <1>3, PaidWithout
<1>8. Fits(i)'
  BY <1>3, <1>4, <1>5, <1>6 DEF Fits, Live
<1>9. \A j \in DOMAIN invoices : j # i => Fits(j)'
  BY <1>5, <1>6, <1>7, FitsKept DEF CorrectionInv
<1>. QED  BY <1>5, <1>8, <1>9 DEF AllFit

LEMMA FitRefunded ==
  ASSUME CorrectionInv, TypeOK', NEW c \in DOMAIN credits, refund_credit(c)
  PROVE  RowsSound' /\ AllFit'
<1>0. TypeOK /\ RowsSound /\ CreditsSound
  BY DEF CorrectionInv, MoneyInv, RowsSound
<1>1. UNCHANGED <<invoices, payments>>
  BY DEF refund_credit
<1>2. /\ DOMAIN credits' = DOMAIN credits
      /\ \A d \in DOMAIN credits :
            /\ credits'[d].source = credits[d].source
            /\ credits'[d].amount = credits[d].amount
            /\ credits'[d].rounding = credits[d].rounding
  <2>1. PICK left : credits' = [credits EXCEPT ![c].refunded = @ + left]
    BY Zenon DEF refund_credit
  <2>2. credits \in [DOMAIN credits -> Credit]
    BY <1>0 DEF TypeOK
  <2>. QED  BY <2>1, <2>2 DEF Credit
<1>3. RowsSound'
  BY <1>0, <1>1, <1>2, RowsKept DEF CreditsSound
<1>4. ASSUME NEW i \in DOMAIN invoices PROVE Fits(i)'
  <2>1. CreditsOf(i)' = CreditsOf(i) /\ credited_chf(i)' = credited_chf(i)
    BY <1>0, <1>2, CreditedKept
  <2>. QED  BY <1>1, <2>1, PaymentsUnchanged, FitsKept DEF CorrectionInv
<1>. QED  BY <1>1, <1>3, <1>4 DEF AllFit

\* Invoices without credit notes disappear together with their payments; one
\* may appear as a draft.
LEMMA FitOfRest ==
  ASSUME CorrectionInv, TypeOK', NEW gone, UNCHANGED credits,
         payments' = Restrict(payments,
                        {q \in DOMAIN payments : payments[q].invoice \notin gone}),
         DOMAIN invoices \ gone \subseteq DOMAIN invoices',
         \A c \in DOMAIN credits : credits[c].source \notin gone,
         \A i \in DOMAIN invoices' :
            \/ i \in DOMAIN invoices \ gone /\ invoices'[i] = invoices[i]
            \/ /\ i \notin DOMAIN invoices /\ invoices'[i].status = "draft"
               /\ invoices'[i].total > 0 => amount_due(i)' >= 0
  PROVE  RowsSound' /\ AllFit'
<1>0. TypeOK /\ RowsSound /\ CreditsSound
  BY DEF CorrectionInv, MoneyInv, RowsSound
<1>1. \A c \in DOMAIN credits :
         credits[c].source \in DOMAIN invoices /\ credits[c].source \in DOMAIN invoices'
  BY <1>0 DEF CreditsSound
<1>2. RowsSound'
  BY <1>0, <1>1, RowsKept
<1>3. ASSUME NEW i \in DOMAIN invoices' PROVE Fits(i)'
  <2>1. CreditsOf(i)' = CreditsOf(i) /\ credited_chf(i)' = credited_chf(i)
    BY <1>0, CreditsUnchanged
  <2>2. CASE i \in DOMAIN invoices \ gone /\ invoices'[i] = invoices[i]
    <3>1. paid_chf(i)' = paid_chf(i)
      <4>1. \A q \in DOMAIN payments : payments[q].invoice = i =>
               q \in DOMAIN payments' /\ payments'[q] = payments[q]
        BY <2>2 DEF Restrict
      <4>2. \A q \in DOMAIN payments' : q \in DOMAIN payments /\ payments'[q] = payments[q]
        BY DEF Restrict
      <4>. QED  BY <1>0, <4>1, <4>2, PaidKept
    <3>. QED  BY <2>1, <2>2, <3>1, FitsKept DEF CorrectionInv
  <2>3. CASE i \notin DOMAIN invoices /\ invoices'[i].status = "draft"
    <3>1. CreditsOf(i) = {}
      BY <1>1, <2>3 DEF CreditsOf
    <3>. QED  BY <2>1, <2>3, <3>1 DEF Fits, Live
  <2>. QED  BY <1>3, <2>2, <2>3
<1>. QED  BY <1>2, <1>3 DEF AllFit

\* The amount due of a generated invoice.
LEMMA GeneratedDue ==
  ASSUME TypeOK', NEW p \in Participants, NEW start \in Days, NEW end \in Days,
         NEW subtotal \in Subtotals, generate_invoice(p, start, end, subtotal),
         NEW new, new = invoice_counter, invoices'[new].total > 0
  PROVE  amount_due(new)' >= 0
<1>1. new \in DOMAIN invoices'
  BY DEF generate_invoice
<1>2. PICK total \in Int, applied \in Int, due \in Int :
         /\ total = invoices'[new].total
         /\ applied = invoices'[new].credit_applied
         /\ due = invoices'[new].due_rounding
  BY <1>1 DEF TypeOK, Invoice
<1>3. due = IF applied > 0 /\ total > applied THEN rounding_difference(total - applied) ELSE 0
  BY <1>2 DEF generate_invoice
<1>4. amount_due(new)' = Max({total - applied, 0}) + due
  BY <1>2 DEF amount_due
<1>5. Max({total - applied, 0}) = IF total - applied >= 0 THEN total - applied ELSE 0
  BY MaxOfTwo
<1>6. CASE applied > 0 /\ total > applied
  <2>1. PICK open \in Nat : open = total - applied
    BY <1>6
  <2>2. round_to_step(open) \in Nat
    BY RoundSmall
  <2>3. due = round_to_step(open) - open
    BY <1>3, <1>6, <2>1 DEF rounding_difference
  <2>. QED  BY <1>4, <1>5, <2>1, <2>2, <2>3
<1>7. CASE ~(applied > 0 /\ total > applied)
  BY <1>3, <1>4, <1>5, <1>7
<1>. QED  BY <1>6, <1>7

LEMMA FitInvoice ==
  ASSUME CorrectionInv, TypeOK', NEW i \in DOMAIN invoices, InvoiceStep(i)
  PROVE  RowsSound' /\ AllFit'
<1>0. TypeOK /\ invoices \in [DOMAIN invoices -> Invoice] /\ Agrees(i) /\ Fits(i)
  BY AgreesAll DEF CorrectionInv, MoneyInv, TypeOK
<1>1. CASE approve_invoice(i)
  <2>1. /\ DOMAIN invoices' = DOMAIN invoices
        /\ \A j \in DOMAIN invoices :
              /\ invoices'[j].total = invoices[j].total
              /\ invoices'[j].credit_applied = invoices[j].credit_applied
              /\ invoices'[j].due_rounding = invoices[j].due_rounding
              /\ j # i => invoices'[j] = invoices[j]
        /\ invoices'[i].approved = TRUE /\ invoices'[i].status = "approved"
    BY <1>0, <1>1 DEF approve_invoice, Invoice
  <2>. QED  BY <1>1, <2>1, FitQuiet DEF approve_invoice, ledger
<1>2. CASE mark_invoice_sent(i)
  <2>1. Transition(i, {"approved"}, "sent") /\ UNCHANGED <<payments, credits>>
    BY <1>2 DEF mark_invoice_sent, ledger
  <2>. QED  BY <2>1, TransitionRows, FitQuiet
<1>3. ASSUME NEW amount \in PaymentAmounts, record_payment(i, amount)
      PROVE  RowsSound' /\ AllFit'
  <2>1. PICK to \in {"sent", "paid"} : Transition(i, {"sent"}, to)
    BY <1>3 DEF record_payment
  <2>2. amount \in Int /\ 0 < amount /\ BookPayment(i, amount) /\ UNCHANGED credits
    BY <1>3, ConstantsAssumption DEF record_payment
  <2>. QED  BY <2>1, <2>2, FitBooked
<1>4. CASE mark_invoice_paid(i)
  <2>1. PICK outstanding \in Int : outstanding = amount_due(i) - paid_chf(i)
    BY <1>0, OutstandingInt
  <2>2. /\ Transition(i, {"sent"}, "paid") /\ UNCHANGED credits
        /\ BookPayment(i, outstanding) \/ UNCHANGED payments
    BY <1>4, <2>1 DEF mark_invoice_paid
  <2>3. CASE BookPayment(i, outstanding)
    <3>1. CreditsOf(i) # {} => PaymentsOf(i) # {}
      BY <1>0, NothingReceived
    <3>2. PaymentsOf(i) # {} => paid_chf(i) < amount_due(i)
      BY <1>0, <2>2 DEF Agrees, Transition
    <3>3. CreditsOf(i) # {} => outstanding >= 0
      BY <1>0, <2>1, <3>1, <3>2, PaidInt, DueInt
    <3>. QED  BY <2>2, <2>3, <3>3, FitBooked
  <2>4. CASE UNCHANGED payments
    BY <2>2, <2>4, TransitionRows, FitQuiet
  <2>. QED  BY <2>2, <2>3, <2>4
<1>5. CASE cancel_invoice(i)
  BY <1>5, FitCancelled
<1>6. CASE reverse_invoice(i)
  BY <1>6, FitReversed
<1>7. ASSUME NEW amount \in CreditAmounts, adjust_invoice(i, amount)
      PROVE  RowsSound' /\ AllFit'
  <2>1. /\ Correctable(i) /\ 0 < amount /\ amount <= creditable(i)
        /\ IssueCredit(i, "adjustment", amount) /\ UNCHANGED <<invoices, payments>>
    BY <1>7 DEF adjust_invoice
  <2>2. amount \in Int /\ invoices[i].status # "cancelled"
    BY <2>1, ConstantsAssumption DEF Correctable, Status
  <2>. QED  BY <2>1, <2>2, FitIssued
<1>8. CASE \E admin \in BOOLEAN : destroy_check(i, admin)
  BY <1>8, FitQuiet DEF destroy_check, ledger
<1>. QED  BY <1>1, <1>2, <1>3, <1>4, <1>5, <1>6, <1>7, <1>8 DEF InvoiceStep

LEMMA CorrectionStep ==
  ASSUME CorrectionInv, [Next]_vars
  PROVE  CorrectionInv'
<1>0. TypeOK /\ TypeOK' /\ MoneyInv' /\ CreditInv' /\ CreditsSound
  BY TypeStep, MoneyStep, CreditStep DEF CorrectionInv, MoneyInv, RowsSound
<1>t. invoice_counter \notin DOMAIN invoices
  BY <1>0, ConstantsAssumption DEF TypeOK
<1>s. SUFFICES RowsSound' /\ AllFit'
  BY <1>0 DEF CorrectionInv, AllFit
<1>1. ASSUME NEW p \in Participants, NEW start \in Days, NEW end \in Days,
             NEW subtotal \in Subtotals, generate_invoice(p, start, end, subtotal)
      PROVE  RowsSound' /\ AllFit'
  <2>1. PICK gone : gone = Doomed(p, start, end)
    OBVIOUS
  <2>2. PICK new : new = invoice_counter
    OBVIOUS
  <2>3. /\ payments' = Restrict(payments,
                          {q \in DOMAIN payments : payments[q].invoice \notin gone})
        /\ DOMAIN invoices' = (DOMAIN invoices \ gone) \cup {new}
        /\ \A i \in DOMAIN invoices \ gone : invoices'[i] = invoices[i]
        /\ invoices'[new].status = "draft"
        /\ UNCHANGED credits
    BY <1>1, <1>t, <2>1, <2>2 DEF generate_invoice
  <2>4. \A c \in DOMAIN credits : credits[c].source \notin gone
    BY <1>0, <2>1 DEF CreditsSound, Doomed
  <2>5. invoices'[new].total > 0 => amount_due(new)' >= 0
    BY <1>0, <1>1, <2>2, GeneratedDue
  <2>. QED  BY <1>0, <1>t, <2>2, <2>3, <2>4, <2>5, FitOfRest
<1>2. CASE \E i \in DOMAIN invoices : InvoiceStep(i)
  BY <1>0, <1>2, FitInvoice
<1>3. CASE \E p \in DOMAIN payments : delete_payment(p)
  BY <1>0, <1>3, FitTakenBack
<1>4. CASE \E c \in DOMAIN credits : refund_credit(c)
  BY <1>0, <1>4, FitRefunded
<1>5. ASSUME NEW r \in deleting, destroy_delete(r)
      PROVE  RowsSound' /\ AllFit'
  <2>1. CASE UNCHANGED <<invoices, payments, credits>>
    BY <2>1, FitQuiet
  <2>2. CASE /\ CreditsOf(r) = {} /\ UNCHANGED credits
             /\ invoices' = Restrict(invoices, DOMAIN invoices \ {r})
             /\ payments' = Restrict(payments, DOMAIN payments \ PaymentsOf(r))
    <3>1. DOMAIN payments \ PaymentsOf(r) =
             {q \in DOMAIN payments : payments[q].invoice \notin {r}}
      BY DEF PaymentsOf
    <3>2. PICK gone : gone = {r}
      OBVIOUS
    <3>3. \A c \in DOMAIN credits : credits[c].source \notin gone
      BY <2>2, <3>2 DEF CreditsOf
    <3>. QED  BY <1>0, <2>2, <3>1, <3>2, <3>3, FitOfRest DEF Restrict
  <2>. QED  BY <1>5, <2>1, <2>2 DEF destroy_delete
<1>6. CASE UNCHANGED vars
  BY <1>6, FitQuiet DEF vars, ledger
<1>. QED  BY <1>1, <1>2, <1>3, <1>4, <1>5, <1>6 DEF Next

\* Corrections fit the cash: never more is credited than an invoice received,
\* and a cancelled invoice keeps no credit and less than half a step of cash,
\* in whatever order payments, partial credits, reversals, replacements and
\* deletions come.
THEOREM CorrectionsAlwaysFit == Spec => []CorrectionsFitTheCash
<1>1. Init => CorrectionInv
  <2>1. Init => TypeOK /\ CreditInv
    BY CreditInit DEF CreditInv
  <2>. QED  BY <2>1 DEF Init, CorrectionInv, MoneyInv, PaymentsSound,
              StatusAgreesWithPayments, RowsSound, IssuedOnceApproved, CreditsSound,
              DueNotNegative
<1>2. CorrectionInv /\ [Next]_vars => CorrectionInv'
  BY CorrectionStep
<1>. QED  BY <1>1, <1>2, CorrectionsFit, PTL DEF Spec

-----------------------------------------------------------------------------
(* The life of an invoice *)

\* A step takes invoice j along an arrow, if anywhere, and keeps its terms.
Proceeds(j) ==
    /\ invoices[j].status # invoices'[j].status =>
          <<invoices[j].status, invoices'[j].status>> \in AllowedTransitions
    /\ invoices[j].approved => invoices'[j].approved
    /\ invoices'[j].total = invoices[j].total
    /\ invoices'[j].credit_applied = invoices[j].credit_applied
    /\ invoices'[j].due_rounding = invoices[j].due_rounding

\* Whatever the step, a status moves along an arrow of the state machine,
\* approved_at stays set once set, and the amount due never changes.
THEOREM LifecycleHolds == Spec => Lifecycle
<1>1. TypeOK /\ [Next]_vars => [LifecycleStep]_vars
  <2>1. SUFFICES ASSUME TypeOK, Next, NEW j \in DOMAIN invoices, j \in DOMAIN invoices'
                 PROVE  /\ invoices[j].status # invoices'[j].status =>
                             <<invoices[j].status, invoices'[j].status>> \in AllowedTransitions
                        /\ invoices[j].approved => invoices'[j].approved
                        /\ amount_due(j)' = amount_due(j)
    BY DEF LifecycleStep
  <2>t. invoices \in [DOMAIN invoices -> Invoice] /\ invoice_counter \notin DOMAIN invoices
    BY <2>1, ConstantsAssumption DEF TypeOK
  <2>2. SUFFICES Proceeds(j)
    BY DueKept DEF Proceeds
  <2>3. ASSUME invoices'[j] = invoices[j]
        PROVE  Proceeds(j)
    BY <2>3 DEF Proceeds
  \* A step that writes one status.
  <2>4. ASSUME NEW i, NEW from, NEW to, Transition(i, from, to),
               \A st \in from : st = to \/ <<st, to>> \in AllowedTransitions
        PROVE  Proceeds(j)
    BY <2>4, <2>t DEF Transition, Status, Invoice, Proceeds
  <2>5. CASE \E p \in Participants, start, end \in Days, subtotal \in Subtotals :
                generate_invoice(p, start, end, subtotal)
    <3>1. invoices'[j] = invoices[j]
      BY <2>t, <2>1, <2>5 DEF generate_invoice
    <3>. QED  BY <2>3, <3>1
  <2>6. ASSUME NEW i \in DOMAIN invoices, InvoiceStep(i)
        PROVE  Proceeds(j)
    <3>1. CASE approve_invoice(i)
      BY <2>t, <3>1 DEF approve_invoice, Status, Invoice, AllowedTransitions, Proceeds
    <3>2. CASE mark_invoice_sent(i)
      BY <2>4, <3>2 DEF mark_invoice_sent, AllowedTransitions
    <3>3. CASE \E amount \in PaymentAmounts : record_payment(i, amount)
      BY <2>4, <3>3 DEF record_payment, AllowedTransitions
    <3>4. CASE mark_invoice_paid(i)
      BY <2>4, <3>4 DEF mark_invoice_paid, AllowedTransitions
    <3>5. CASE cancel_invoice(i)
      BY <2>4, <3>5 DEF cancel_invoice, AllowedTransitions
    <3>6. CASE reverse_invoice(i)
      <4>1. Transition(i, {"sent", "paid"}, "cancelled")
        BY <3>6 DEF reverse_invoice, Correctable, Transition
      <4>. QED  BY <2>4, <4>1 DEF AllowedTransitions
    <3>7. CASE \/ \E amount \in CreditAmounts : adjust_invoice(i, amount)
               \/ \E admin \in BOOLEAN : destroy_check(i, admin)
      BY <2>3, <3>7 DEF adjust_invoice, destroy_check
    <3>. QED  BY <2>6, <3>1, <3>2, <3>3, <3>4, <3>5, <3>6, <3>7 DEF InvoiceStep
  <2>7. ASSUME NEW p \in DOMAIN payments, delete_payment(p)
        PROVE  Proceeds(j)
    <3>1. PICK i : i = payments[p].invoice
      OBVIOUS
    <3>2. \/ Transition(i, {"sent", "paid"}, "sent")
          \/ Transition(i, {"sent", "paid"}, Status(i))
      BY <2>7, <3>1 DEF delete_payment
    <3>3. CASE Transition(i, {"sent", "paid"}, "sent")
      BY <2>4, <3>3 DEF AllowedTransitions
    <3>4. CASE Transition(i, {"sent", "paid"}, Status(i))
      <4>1. Transition(i, {Status(i)}, Status(i))
        BY <3>4 DEF Transition
      <4>. QED  BY <2>4, <4>1
    <3>. QED  BY <3>2, <3>3, <3>4
  <2>8. CASE \E c \in DOMAIN credits : refund_credit(c)
    BY <2>3, <2>8 DEF refund_credit
  <2>9. CASE \E r \in deleting : destroy_delete(r)
    BY <2>1, <2>3, <2>9 DEF destroy_delete, Restrict
  <2>. QED  BY <2>1, <2>5, <2>6, <2>7, <2>8, <2>9 DEF Next
<1>. QED  BY TypeCorrect, <1>1, PTL DEF Spec, Lifecycle
=============================================================================
