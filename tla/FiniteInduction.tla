--------------------------- MODULE FiniteInduction ---------------------------
(***************************************************************************)
(* Induction over finite data, for the proofs about the other modules: the *)
(* least number of a set, finite sets built element by element, sums over  *)
(* finite sets, the greatest and the least of a set of integers, functions *)
(* defined step by step.                                                   *)
(* Every induction is over a SET of numbers or of subsets, so that it can  *)
(* be instantiated by the first-order provers.                             *)
(***************************************************************************)
EXTENDS Integers, FiniteSets, FiniteSetsExt, Functions,
        FiniteSetTheorems, WellFoundedInduction, TLAPS

LEMMA LeastNumber ==
  ASSUME NEW T, T \subseteq Nat, T # {}
  PROVE  \E m \in T : \A n \in T : m <= n
<1> DEFINE R == OpToRel(<, Nat)
<1>1. IsWellFoundedOn(R, Nat)
  BY NatLessThanWellFounded
<1>2. \A x, y \in Nat : << x, y >> \in R <=> x < y
  BY DEF OpToRel
<1> HIDE DEF R
<1>3. PICK m \in T : \A y \in T : ~(<< y, m >> \in R)
  BY <1>1, WFMin
<1>4. ASSUME NEW n \in T PROVE m <= n
  <2>1. ~(n < m)
    BY <1>2, <1>3
  <2> QED
    BY <2>1
<1> QED
  BY <1>4

\* A set of numbers that is closed under successor holds all of them.
LEMMA AllNumbers ==
  ASSUME NEW N, 0 \in N, \A n \in Nat : n \in N => n + 1 \in N
  PROVE  Nat \subseteq N
<1> SUFFICES ASSUME Nat \ N # {} PROVE FALSE
  OBVIOUS
<1>1. PICK m \in Nat \ N : \A n \in Nat \ N : m <= n
  BY LeastNumber
<1>2. m # 0 /\ m - 1 \in Nat /\ m - 1 \in N
  BY <1>1
<1>3. (m - 1) + 1 \in N
  BY <1>2
<1> QED
  BY <1>1, <1>3

\* A family of subsets that has the empty set, and with a set every set that has
\* one element more, has them all.
LEMMA AllSubsets ==
  ASSUME NEW S, IsFiniteSet(S), NEW F, {} \in F,
         \A T \in SUBSET S : T \in F => \A x \in S \ T : T \cup {x} \in F
  PROVE  S \in F
<1> DEFINE left == {n \in Nat : \E T \in SUBSET S : T \in F /\ n = Cardinality(S \ T)}
<1>1. Cardinality(S) \in left
  <2>1. S \ {} = S
    OBVIOUS
  <2> QED
    BY <2>1, FS_CardinalityType
<1>2. PICK m \in left : \A n \in left : m <= n
  BY <1>1, LeastNumber
<1>3. PICK T \in SUBSET S : T \in F /\ m = Cardinality(S \ T)
  OBVIOUS
<1>4. CASE T = S
  BY <1>3, <1>4
<1>5. CASE T # S
  <2>1. PICK x \in S : x \notin T
    BY <1>5
  <2>2. T \cup {x} \in F /\ T \cup {x} \in SUBSET S
    BY <1>3, <2>1
  <2>3. IsFiniteSet(S \ T)
    BY FS_Subset
  <2>4. S \ (T \cup {x}) = (S \ T) \ {x}
    OBVIOUS
  <2>5. Cardinality((S \ T) \ {x}) = m - 1 /\ Cardinality((S \ T) \ {x}) \in Nat
    BY <1>3, <2>1, <2>3, FS_RemoveElement, FS_CardinalityType
  <2>6. m - 1 \in left
    BY <2>2, <2>4, <2>5
  <2>7. m <= m - 1 /\ m \in Nat
    BY <1>2, <2>6
  <2> QED
    BY <2>7
<1> QED
  BY <1>4, <1>5

-----------------------------------------------------------------------------
(* Sums over finite sets.                                                    *)

\* The recursion of SumFunctionOnSet, over the subsets of S.
Pick(s) == CHOOSE x \in s : TRUE
Sums(g, S, f) ==
  f = [s \in SUBSET S |-> IF s = {} THEN 0 ELSE g[Pick(s)] + f[s \ {Pick(s)}]]

LEMMA SumIsChosen ==
  ASSUME NEW g, NEW S
  PROVE  SumFunctionOnSet(g, S) = (CHOOSE f : Sums(g, S, f))[S]
BY DEF SumFunctionOnSet, FoldFunctionOnSet, MapThenFoldSet, Sums, Pick

LEMMA PickSmaller ==
  ASSUME NEW s, IsFiniteSet(s), s # {}
  PROVE  /\ Pick(s) \in s /\ IsFiniteSet(s \ {Pick(s)})
         /\ Cardinality(s) \in Nat \ {0}
         /\ Cardinality(s \ {Pick(s)}) = Cardinality(s) - 1
<1>1. Pick(s) \in s
  BY DEF Pick
<1> QED
  BY <1>1, FS_RemoveElement, FS_CardinalityType, FS_EmptySet

LEMMA SumsExist ==
  ASSUME NEW g, NEW S, IsFiniteSet(S)
  PROVE  \E f : Sums(g, S, f)
<1> DEFINE small(n) == {s \in SUBSET S : Cardinality(s) <= n}
           upTo(n, f) == /\ DOMAIN f = small(n)
                         /\ f = [s \in small(n) |-> f[s]]
                         /\ \A s \in small(n) :
                              f[s] = IF s = {} THEN 0 ELSE g[Pick(s)] + f[s \ {Pick(s)}]
           N == {n \in Nat : \E f : upTo(n, f)}
<1>1. \A s \in SUBSET S : IsFiniteSet(s) /\ Cardinality(s) \in Nat /\ Cardinality(s) <= Cardinality(S)
  BY FS_Subset, FS_CardinalityType
<1>2. 0 \in N
  <2> DEFINE f == [s \in small(0) |-> 0]
  <2>1. \A s \in small(0) : s = {}
    BY <1>1, FS_EmptySet
  <2>2. upTo(0, f)
    BY <2>1
  <2> QED
    BY <2>2
<1>3. ASSUME NEW n \in Nat, n \in N PROVE n + 1 \in N
  <2>1. PICK f : upTo(n, f)
    BY <1>3
  <2> DEFINE h == [s \in small(n + 1) |-> IF s = {} THEN 0 ELSE g[Pick(s)] + f[s \ {Pick(s)}]]
  <2>2. \A s \in small(n) : s \in small(n + 1) /\ h[s] = f[s]
    BY <1>1, <2>1
  <2>3. \A s \in small(n + 1) : s # {} => s \ {Pick(s)} \in small(n)
    BY <1>1, PickSmaller
  <2>4. upTo(n + 1, h)
    BY <2>2, <2>3
  <2> HIDE DEF upTo, h
  <2> QED
    BY <2>4
<1>4. Cardinality(S) \in N
  <2> HIDE DEF N
  <2> QED
    BY <1>1, <1>2, <1>3, AllNumbers
<1>5. PICK f : upTo(Cardinality(S), f)
  BY <1>4
<1>6. small(Cardinality(S)) = SUBSET S
  BY <1>1
<1> QED
  BY <1>5, <1>6 DEF Sums

LEMMA SumsUnfold ==
  ASSUME NEW g, NEW S, NEW f, Sums(g, S, f), NEW s \in SUBSET S
  PROVE  f[s] = IF s = {} THEN 0 ELSE g[Pick(s)] + f[s \ {Pick(s)}]
BY DEF Sums

\* The recursion for a set and the one for a superset agree.
LEMMA SumsAgree ==
  ASSUME NEW g, NEW S, IsFiniteSet(S), NEW T \in SUBSET S,
         NEW e, Sums(g, S, e), NEW f, Sums(g, T, f)
  PROVE  e[T] = f[T]
<1> DEFINE wrong == {n \in Nat : \E s \in SUBSET T : Cardinality(s) = n /\ e[s] # f[s]}
<1>1. \A s \in SUBSET T : s \in SUBSET S /\ IsFiniteSet(s) /\ Cardinality(s) \in Nat
  BY FS_Subset, FS_CardinalityType
<1>2. SUFFICES ASSUME e[T] # f[T] PROVE FALSE
  OBVIOUS
<1>3. Cardinality(T) \in wrong
  BY <1>1, <1>2
<1>4. PICK n \in wrong : \A m \in wrong : n <= m
  BY <1>3, LeastNumber
<1>5. PICK s \in SUBSET T : Cardinality(s) = n /\ e[s] # f[s]
  OBVIOUS
<1>6. s # {}
  BY <1>1, <1>5, SumsUnfold
<1>7. /\ Cardinality(s \ {Pick(s)}) = n - 1 /\ n - 1 \in Nat
      /\ s \ {Pick(s)} \in SUBSET T
  BY <1>1, <1>5, <1>6, PickSmaller
<1>8. e[s \ {Pick(s)}] # f[s \ {Pick(s)}]
  BY <1>1, <1>5, <1>6, SumsUnfold
<1>9. n - 1 \in wrong
  BY <1>7, <1>8
<1>10. n <= n - 1 /\ n \in Nat
  BY <1>4, <1>9
<1> QED
  BY <1>10

LEMMA SumEquation ==
  ASSUME NEW g, NEW S, IsFiniteSet(S)
  PROVE  SumFunctionOnSet(g, S) =
           IF S = {} THEN 0 ELSE g[Pick(S)] + SumFunctionOnSet(g, S \ {Pick(S)})
<1> DEFINE e == CHOOSE f : Sums(g, S, f)
           T == S \ {Pick(S)}
           h == CHOOSE f : Sums(g, T, f)
<1>1. Sums(g, S, e) /\ SumFunctionOnSet(g, S) = e[S]
  BY SumsExist, SumIsChosen
<1>2. IsFiniteSet(T)
  BY FS_Subset
<1>3. Sums(g, T, h) /\ SumFunctionOnSet(g, T) = h[T]
  BY <1>2, SumsExist, SumIsChosen
<1>4. T \in SUBSET S
  OBVIOUS
<1> HIDE DEF e, h
<1>5. e[T] = h[T]
  BY <1>1, <1>3, <1>4, SumsAgree
<1> QED
  BY <1>1, <1>3, <1>5, SumsUnfold

LEMMA SumOfNone ==
  ASSUME NEW g
  PROVE  SumFunctionOnSet(g, {}) = 0
BY SumEquation, FS_EmptySet

LEMMA SumType ==
  ASSUME NEW S, IsFiniteSet(S), NEW g, \A x \in S : g[x] \in Int
  PROVE  SumFunctionOnSet(g, S) \in Int
<1> DEFINE wrong == {n \in Nat : \E s \in SUBSET S : Cardinality(s) = n /\ SumFunctionOnSet(g, s) \notin Int}
<1>1. \A s \in SUBSET S : IsFiniteSet(s) /\ Cardinality(s) \in Nat
  BY FS_Subset, FS_CardinalityType
<1>2. SUFFICES ASSUME SumFunctionOnSet(g, S) \notin Int PROVE FALSE
  OBVIOUS
<1>3. Cardinality(S) \in wrong
  BY <1>1, <1>2
<1>4. PICK n \in wrong : \A m \in wrong : n <= m
  BY <1>3, LeastNumber
<1>5. PICK s \in SUBSET S : Cardinality(s) = n /\ SumFunctionOnSet(g, s) \notin Int
  OBVIOUS
<1>6. s # {}
  BY <1>5, SumOfNone
<1>7. /\ Cardinality(s \ {Pick(s)}) = n - 1 /\ n - 1 \in Nat
      /\ s \ {Pick(s)} \in SUBSET S /\ Pick(s) \in S
  BY <1>1, <1>5, <1>6, PickSmaller
<1>8. SumFunctionOnSet(g, s \ {Pick(s)}) \notin Int
  BY <1>1, <1>5, <1>6, <1>7, SumEquation
<1>9. n - 1 \in wrong
  BY <1>7, <1>8
<1>10. n <= n - 1 /\ n \in Nat
  BY <1>4, <1>9
<1> QED
  BY <1>10

\* The order of the additions does not matter.
LEMMA SumTakesOut ==
  ASSUME NEW S, IsFiniteSet(S), NEW g, \A x \in S : g[x] \in Int, NEW x \in S
  PROVE  SumFunctionOnSet(g, S) = g[x] + SumFunctionOnSet(g, S \ {x})
<1> DEFINE sum(s) == SumFunctionOnSet(g, s)
           bad(s) == \E y \in s : sum(s) # g[y] + sum(s \ {y})
           wrong == {n \in Nat : \E s \in SUBSET S : Cardinality(s) = n /\ bad(s)}
<1>1. \A s \in SUBSET S : /\ IsFiniteSet(s) /\ Cardinality(s) \in Nat
                          /\ sum(s) \in Int
  BY FS_Subset, FS_CardinalityType, SumType
<1>2. SUFFICES ASSUME bad(S) PROVE FALSE
  OBVIOUS
<1>3. Cardinality(S) \in wrong
  BY <1>1, <1>2
<1>4. PICK n \in wrong : \A m \in wrong : n <= m
  BY <1>3, LeastNumber
<1>5. PICK s \in SUBSET S : Cardinality(s) = n /\ bad(s)
  OBVIOUS
<1>6. PICK y \in s : sum(s) # g[y] + sum(s \ {y})
  BY <1>5
<1> DEFINE p == Pick(s)
<1>7. /\ p \in s /\ Cardinality(s \ {p}) = n - 1 /\ n - 1 \in Nat
      /\ s \ {p} \in SUBSET S /\ s \ {y} \in SUBSET S /\ (s \ {p}) \ {y} \in SUBSET S
  BY <1>1, <1>5, PickSmaller
<1>8. sum(s) = g[p] + sum(s \ {p})
  BY <1>1, <1>7, SumEquation
<1>9. y # p /\ y \in s \ {p} /\ p \in s \ {y}
  BY <1>6, <1>7, <1>8
<1>10. Cardinality(s \ {y}) = n - 1
  BY <1>1, <1>5, FS_RemoveElement
<1>11. ~bad(s \ {p}) /\ ~bad(s \ {y})
  <2>1. n - 1 \notin wrong
    <3>1. n \in Nat /\ ~(n <= n - 1)
      OBVIOUS
    <3> QED
      BY <1>4, <3>1
  <2> QED
    BY <1>7, <1>10, <2>1
<1> HIDE DEF sum, p
<1>12. sum(s \ {p}) = g[y] + sum((s \ {p}) \ {y})
  BY <1>9, <1>11
<1>13. sum(s \ {y}) = g[p] + sum((s \ {y}) \ {p})
  BY <1>9, <1>11
<1>14. (s \ {p}) \ {y} = (s \ {y}) \ {p}
  OBVIOUS
<1>15. g[p] \in Int /\ g[y] \in Int /\ sum((s \ {p}) \ {y}) \in Int
  BY <1>1, <1>7, <1>9
<1>16. sum(s) = g[p] + (g[y] + sum((s \ {p}) \ {y}))
  BY <1>8, <1>12
<1>17. sum(s \ {y}) = g[p] + sum((s \ {p}) \ {y})
  BY <1>13, <1>14
<1>18. g[p] + (g[y] + sum((s \ {p}) \ {y})) = g[y] + (g[p] + sum((s \ {p}) \ {y}))
  BY <1>15
<1> QED
  BY <1>6, <1>16, <1>17, <1>18

\* The values outside the set do not matter.
LEMMA SumSame ==
  ASSUME NEW S, IsFiniteSet(S), NEW g, NEW h,
         \A x \in S : g[x] \in Int /\ h[x] = g[x]
  PROVE  SumFunctionOnSet(h, S) = SumFunctionOnSet(g, S)
<1> DEFINE sum(f, s) == SumFunctionOnSet(f, s)
           F == {s \in SUBSET S : sum(h, s) = sum(g, s)}
<1>1. {} \in F
  BY SumOfNone
<1>2. ASSUME NEW T \in SUBSET S, T \in F, NEW x \in S \ T PROVE T \cup {x} \in F
  <2>1. /\ IsFiniteSet(T \cup {x}) /\ (T \cup {x}) \ {x} = T
        /\ \A y \in T \cup {x} : g[y] \in Int /\ h[y] \in Int
    BY FS_Subset
  <2>2. /\ sum(g, T \cup {x}) = g[x] + sum(g, T)
        /\ sum(h, T \cup {x}) = h[x] + sum(h, T)
    BY <2>1, SumTakesOut
  <2> QED
    BY <1>2, <2>2
<1> HIDE DEF F
<1>3. S \in F
  BY <1>1, <1>2, AllSubsets
<1> QED
  BY <1>3 DEF F

LEMMA SumAdds ==
  ASSUME NEW S, IsFiniteSet(S), NEW x, x \notin S, NEW g,
         \A y \in S \cup {x} : g[y] \in Int
  PROVE  SumFunctionOnSet(g, S \cup {x}) = SumFunctionOnSet(g, S) + g[x]
<1>1. IsFiniteSet(S \cup {x}) /\ (S \cup {x}) \ {x} = S
  BY FS_AddElement
<1>2. SumFunctionOnSet(g, S \cup {x}) = g[x] + SumFunctionOnSet(g, S)
  BY <1>1, SumTakesOut
<1>3. SumFunctionOnSet(g, S) \in Int /\ g[x] \in Int
  BY SumType
<1> QED
  BY <1>2, <1>3

\* Changing one value changes the sum by as much.
LEMMA SumChanges ==
  ASSUME NEW S, IsFiniteSet(S), NEW g, NEW h, NEW x \in S,
         \A y \in S : g[y] \in Int, h[x] \in Int,
         \A y \in S \ {x} : h[y] = g[y]
  PROVE  SumFunctionOnSet(h, S) = SumFunctionOnSet(g, S) + (h[x] - g[x])
<1> DEFINE sum(f, s) == SumFunctionOnSet(f, s)
<1>1. IsFiniteSet(S \ {x})
  BY FS_Subset
<1>2. sum(h, S \ {x}) = sum(g, S \ {x})
  BY <1>1, SumSame
<1>3. \A y \in S : h[y] \in Int
  OBVIOUS
<1>4. sum(g, S) = g[x] + sum(g, S \ {x}) /\ sum(h, S) = h[x] + sum(h, S \ {x})
  BY <1>3, SumTakesOut
<1>5. sum(g, S \ {x}) \in Int
  BY <1>1, SumType
<1> HIDE DEF sum
<1>6. sum(h, S) = sum(g, S) + (h[x] - g[x])
  BY <1>2, <1>4, <1>5
<1> QED
  BY <1>6 DEF sum

LEMMA SumNat ==
  ASSUME NEW S, IsFiniteSet(S), NEW g, \A x \in S : g[x] \in Nat
  PROVE  SumFunctionOnSet(g, S) \in Nat
<1> DEFINE sum(s) == SumFunctionOnSet(g, s)
           F == {s \in SUBSET S : sum(s) \in Nat}
<1>1. {} \in F
  BY SumOfNone
<1>2. ASSUME NEW T \in SUBSET S, T \in F, NEW x \in S \ T PROVE T \cup {x} \in F
  <2>1. IsFiniteSet(T) /\ \A y \in T \cup {x} : g[y] \in Int
    BY FS_Subset
  <2>2. sum(T \cup {x}) = sum(T) + g[x]
    BY <2>1, SumAdds
  <2> QED
    BY <1>2, <2>2
<1> HIDE DEF F
<1>3. S \in F
  BY <1>1, <1>2, AllSubsets
<1> QED
  BY <1>3 DEF F

\* A part and the rest add up to the whole.
LEMMA SumOfParts ==
  ASSUME NEW S, IsFiniteSet(S), NEW g, \A x \in S : g[x] \in Int, NEW P \in SUBSET S
  PROVE  SumFunctionOnSet(g, S) = SumFunctionOnSet(g, S \ P) + SumFunctionOnSet(g, P)
<1> DEFINE sum(s) == SumFunctionOnSet(g, s)
           F == {s \in SUBSET P : sum((S \ P) \cup s) = sum(S \ P) + sum(s)}
<1>1. \A s \in SUBSET S : IsFiniteSet(s) /\ sum(s) \in Int
  BY FS_Subset, SumType
<1>2. {} \in F
  <2>1. (S \ P) \cup {} = S \ P /\ sum({}) = 0 /\ sum(S \ P) \in Int
    BY <1>1, SumOfNone
  <2> HIDE DEF sum
  <2> QED
    BY <2>1
<1>3. ASSUME NEW T \in SUBSET P, T \in F, NEW x \in P \ T PROVE T \cup {x} \in F
  <2> DEFINE U == (S \ P) \cup T
  <2>1. /\ U \in SUBSET S /\ x \notin U /\ x \in S /\ T \in SUBSET S
        /\ (S \ P) \cup (T \cup {x}) = U \cup {x}
    OBVIOUS
  <2>2. sum(U \cup {x}) = sum(U) + g[x] /\ sum(T \cup {x}) = sum(T) + g[x]
    <3>1. IsFiniteSet(U) /\ IsFiniteSet(T)
      BY <1>1, <2>1
    <3>2. (\A y \in U \cup {x} : g[y] \in Int) /\ (\A y \in T \cup {x} : g[y] \in Int)
      BY <2>1
    <3> HIDE DEF U
    <3> QED
      BY <2>1, <3>1, <3>2, SumAdds
  <2>3. sum(S \ P) \in Int /\ sum(T) \in Int /\ g[x] \in Int /\ sum(U) = sum(S \ P) + sum(T)
    BY <1>1, <1>3, <2>1
  <2>4. sum((S \ P) \cup (T \cup {x})) = sum(U \cup {x})
    BY <2>1
  <2> HIDE DEF sum, U
  <2>5. sum(U \cup {x}) = sum(S \ P) + sum(T \cup {x})
    BY <2>2, <2>3
  <2>6. sum((S \ P) \cup (T \cup {x})) = sum(S \ P) + sum(T \cup {x})
    BY <2>4, <2>5
  <2> QED
    BY <2>6
<1> HIDE DEF F
<1>4. P \in F
  <2>1. IsFiniteSet(P)
    BY <1>1
  <2> QED
    BY <1>2, <1>3, <2>1, AllSubsets
<1>5. (S \ P) \cup P = S
  OBVIOUS
<1> QED
  BY <1>4, <1>5 DEF F

\* A sum is at least that of its negative terms.
LEMMA SumOfNegatives ==
  ASSUME NEW S, IsFiniteSet(S), NEW g, NEW h, \A x \in S : g[x] \in Int /\ h[x] = -g[x]
  PROVE  0 <= SumFunctionOnSet(g, S) + SumFunctionOnSet(h, {x \in S : g[x] < 0})
<1> DEFINE sum(f, s) == SumFunctionOnSet(f, s)
           N(s) == {x \in s : g[x] < 0}
           F == {s \in SUBSET S : 0 <= sum(g, s) + sum(h, N(s))}
<1>1. \A s \in SUBSET S : /\ IsFiniteSet(s) /\ IsFiniteSet(N(s)) /\ N(s) \in SUBSET S
                          /\ \A y \in s : g[y] \in Int /\ h[y] \in Int
  BY FS_Subset
<1>2. \A s \in SUBSET S : sum(g, s) \in Int /\ sum(h, N(s)) \in Int
  <2>1. ASSUME NEW s \in SUBSET S
        PROVE  sum(g, s) \in Int /\ sum(h, N(s)) \in Int
    <3>1. \A y \in N(s) : h[y] \in Int
      BY <1>1
    <3> HIDE DEF N
    <3> QED
      BY <1>1, <3>1, SumType
  <2> QED
    BY <2>1
<1>3. {} \in F
  <2>1. N({}) = {} /\ sum(g, {}) = 0 /\ sum(h, {}) = 0
    BY SumOfNone
  <2>2. 0 <= sum(g, {}) + sum(h, N({}))
    BY <2>1
  <2> HIDE DEF sum, N
  <2> QED
    BY <2>2
<1>4. ASSUME NEW T \in SUBSET S, T \in F, NEW x \in S \ T PROVE T \cup {x} \in F
  <2>1. sum(g, T \cup {x}) = sum(g, T) + g[x] /\ g[x] \in Int /\ h[x] = -g[x]
    <3>1. \A y \in T \cup {x} : g[y] \in Int
      OBVIOUS
    <3> QED
      BY <1>1, <3>1, SumAdds
  <2>2. g[x] < 0 \/ 0 <= g[x]
    BY <2>1
  <2>3. \/ 0 <= g[x] /\ sum(h, N(T \cup {x})) = sum(h, N(T))
        \/ sum(h, N(T \cup {x})) = sum(h, N(T)) + h[x]
    <3>1. CASE g[x] < 0
      <4>1. /\ N(T \cup {x}) = N(T) \cup {x} /\ x \notin N(T) /\ IsFiniteSet(N(T))
            /\ \A y \in N(T) \cup {x} : h[y] \in Int
        BY <1>1, <3>1
      <4> HIDE DEF N
      <4> QED
        BY <4>1, SumAdds
    <3>2. CASE 0 <= g[x]
      <4>1. N(T \cup {x}) = N(T)
        BY <2>1, <3>2
      <4> HIDE DEF N, sum
      <4> QED
        BY <3>2, <4>1
    <3> QED
      BY <2>2, <3>1, <3>2
  <2>4. sum(g, T) \in Int /\ sum(h, N(T)) \in Int /\ 0 <= sum(g, T) + sum(h, N(T))
    BY <1>2, <1>4
  <2> HIDE DEF sum, N
  <2>5. 0 <= sum(g, T \cup {x}) + sum(h, N(T \cup {x}))
    BY <2>1, <2>3, <2>4
  <2> QED
    BY <2>5
<1> HIDE DEF F
<1>5. S \in F
  BY <1>3, <1>4, AllSubsets
<1> QED
  BY <1>5 DEF F

-----------------------------------------------------------------------------
(* The greatest and the least of a set of integers.                          *)

LEMMA Greatest ==
  ASSUME NEW S, IsFiniteSet(S), S # {}, S \subseteq Int
  PROVE  Max(S) \in S /\ \A x \in S : x <= Max(S)
<1> DEFINE top(T) == \E x \in T : \A y \in T : y <= x
           F == {T \in SUBSET S : T = {} \/ top(T)}
<1>1. {} \in F
  OBVIOUS
<1>2. ASSUME NEW T \in SUBSET S, T \in F, NEW x \in S \ T PROVE T \cup {x} \in F
  <2>1. CASE T = {}
    BY <2>1
  <2>2. CASE T # {}
    <3>1. PICK m \in T : \A y \in T : y <= m
      BY <1>2, <2>2
    <3>2. top(T \cup {x})
      <4>1. x \in Int /\ m \in Int /\ \A y \in T : y \in Int
        OBVIOUS
      <4>2. CASE x <= m
        BY <3>1, <4>2
      <4>3. CASE m <= x
        BY <3>1, <4>1, <4>3
      <4> QED
        BY <4>1, <4>2, <4>3
    <3> QED
      BY <3>2
  <2> QED
    BY <2>1, <2>2
<1> HIDE DEF F
<1>3. S \in F
  BY <1>1, <1>2, AllSubsets
<1>4. PICK x \in S : \A y \in S : x >= y
  BY <1>3 DEF F
<1> QED
  BY <1>4 DEF Max
LEMMA MaxBelow ==
  ASSUME NEW S, S # {}, S \subseteq Int, NEW b \in Int, \A x \in S : x <= b
  PROVE  Max(S) \in S /\ \A x \in S : x <= Max(S)
<1> DEFINE T == {b - x : x \in S}
<1>1. T \subseteq Nat /\ T # {}
  <2>1. \A x \in S : b - x \in Nat
    OBVIOUS
  <2> QED
    BY <2>1
<1>2. PICK m \in T : \A n \in T : m <= n
  BY <1>1, LeastNumber
<1>3. PICK x \in S : m = b - x
  OBVIOUS
<1>4. \A y \in S : x >= y
  <2>1. \A y \in S : b - x <= b - y /\ y \in Int
    BY <1>2, <1>3
  <2> QED
    BY <2>1
<1> QED
  BY <1>4 DEF Max

LEMMA MinAbove ==
  ASSUME NEW S, S # {}, S \subseteq Int, NEW b \in Int, \A x \in S : b <= x
  PROVE  Min(S) \in S /\ \A x \in S : Min(S) <= x
<1> DEFINE T == {x - b : x \in S}
<1>1. T \subseteq Nat /\ T # {}
  <2>1. \A x \in S : x - b \in Nat
    OBVIOUS
  <2> QED
    BY <2>1
<1>2. PICK m \in T : \A n \in T : m <= n
  BY <1>1, LeastNumber
<1>3. PICK x \in S : m = x - b
  OBVIOUS
<1>4. \A y \in S : x <= y
  <2>1. \A y \in S : x - b <= y - b /\ y \in Int
    BY <1>2, <1>3
  <2> QED
    BY <2>1
<1> QED
  BY <1>4 DEF Min

-----------------------------------------------------------------------------
(* Functions on an interval.                                                 *)

\* A function may be defined by its first value and the step from each value to
\* the next.
StepFunctions(n, S) == [0 .. n - 1 -> [S -> S]]
StepsThrough(n, S, a, step, f) ==
  f \in [0 .. n -> S] /\ f[0] = a /\ \A i \in 0 .. n - 1 : f[i + 1] = step[i][f[i]]

LEMMA StepByStep ==
  ASSUME NEW n \in Nat, NEW S, NEW a \in S, NEW step \in StepFunctions(n, S)
  PROVE  \E f : StepsThrough(n, S, a, step, f)
<1> USE DEF StepFunctions
<1> DEFINE upTo(m, f) == f[0] = a /\ \A i \in 0 .. m - 1 : f[i + 1] = step[i][f[i]]
           N == {m \in Nat : m <= n => \E f \in [0 .. m -> S] : upTo(m, f)}
<1>1. 0 \in N
  <2> DEFINE f == [i \in 0 .. 0 |-> a]
  <2>1. f \in [0 .. 0 -> S] /\ upTo(0, f)
    OBVIOUS
  <2> QED
    BY <2>1
<1>2. ASSUME NEW m \in Nat, m \in N PROVE m + 1 \in N
  <2> SUFFICES ASSUME m + 1 <= n PROVE \E f \in [0 .. m + 1 -> S] : upTo(m + 1, f)
    OBVIOUS
  <2>1. PICK f \in [0 .. m -> S] : upTo(m, f)
    BY <1>2
  <2> DEFINE g == [i \in 0 .. m + 1 |-> IF i <= m THEN f[i] ELSE step[m][f[m]]]
  <2>2. step[m][f[m]] \in S
    BY <2>1
  <2>3. g \in [0 .. m + 1 -> S]
    BY <2>1, <2>2
  <2>4. g[0] = a /\ g[m + 1] = step[m][g[m]] /\ \A i \in 0 .. m - 1 : g[i + 1] = step[i][g[i]]
    BY <2>1
  <2> HIDE DEF g
  <2>5. ASSUME NEW i \in 0 .. (m + 1) - 1 PROVE g[i + 1] = step[i][g[i]]
    <3>1. i = m \/ i \in 0 .. m - 1
      OBVIOUS
    <3> QED
      BY <2>4, <3>1
  <2>6. upTo(m + 1, g)
    BY <2>4, <2>5
  <2> HIDE DEF upTo
  <2> QED
    BY <2>3, <2>6
<1> HIDE DEF N
<1>3. n \in N
  BY <1>1, <1>2, AllNumbers
<1> QED
  BY <1>3 DEF N, StepsThrough

\* Integers that ascend are as far apart as their places at least.
LEMMA FarApart ==
  ASSUME NEW n \in Nat, NEW f \in [0 .. n - 1 -> Int],
         \A i, j \in 0 .. n - 1 : i < j => f[i] < f[j],
         NEW i \in 0 .. n - 1, NEW j \in 0 .. n - 1, i <= j
  PROVE  f[i] + (j - i) <= f[j]
<1> DEFINE N == {d \in Nat : i + d <= n - 1 => f[i] + d <= f[i + d]}
<1>1. 0 \in N
  OBVIOUS
<1>2. ASSUME NEW d \in Nat, d \in N PROVE d + 1 \in N
  <2> SUFFICES ASSUME i + (d + 1) <= n - 1 PROVE f[i] + (d + 1) <= f[i + (d + 1)]
    OBVIOUS
  <2>1. i + d \in 0 .. n - 1 /\ i + (d + 1) \in 0 .. n - 1 /\ i + d < i + (d + 1)
    OBVIOUS
  <2>2. f[i + d] < f[i + (d + 1)] /\ f[i] + d <= f[i + d]
    BY <1>2, <2>1
  <2>3. f[i] \in Int /\ f[i + d] \in Int /\ f[i + (d + 1)] \in Int
    BY <2>1
  <2> QED
    BY <2>2, <2>3
<1> HIDE DEF N
<1>3. j - i \in N
  BY <1>1, <1>2, AllNumbers
<1>4. i + (j - i) = j /\ j <= n - 1
  OBVIOUS
<1> QED
  BY <1>3, <1>4 DEF N
=============================================================================
