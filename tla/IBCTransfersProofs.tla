------------------------- MODULE IBCTransfersProofs -------------------------
(* Proofs about the packets and the funds of IBC transfers, for any        *)
(* recipients, amounts, limits, other users of the channel, failures and   *)
(* retries.                                                                *)
EXTENDS IBCFundsProofs, FiniteSetTheorems, WellFoundedInduction, TLAPS

USE SMTT(20), ZenonT(10)

-----------------------------------------------------------------------------
(* Sums over finite sets.  Induction is by a smallest counterexample.      *)

Below == {p \in Nat \X Nat : p[1] < p[2]}

\* The order of the naturals is well-founded.
LEMMA BelowWellFounded == IsWellFoundedOn(Below, Nat)
  BY NatLessThanWellFounded DEF OpToRel, Below

\* A non-empty set of naturals has a least element.
LEMMA LeastNatural ==
  ASSUME NEW S, S \subseteq Nat, S # {}
  PROVE  \E n \in S : \A m \in S : n <= m
<1>1. PICK n \in S : \A m \in S : ~(<<m, n>> \in Below)
  BY BelowWellFounded, WFMin, Zenon
<1>2. \A m, k \in Nat : m < k => <<m, k>> \in Below
  BY Zenon DEF Below
<1>3. \A m \in S : ~(m < n) /\ m \in Nat /\ n \in Nat
  BY <1>1, <1>2, Zenon
<1> QED
  BY <1>3

\* Of some finite sets one is the smallest.
LEMMA SmallestSet ==
  ASSUME NEW F, F # {}, \A T \in F : IsFiniteSet(T)
  PROVE  \E T \in F : \A U \in F : Cardinality(T) <= Cardinality(U)
<1> DEFINE sizes == {Cardinality(T) : T \in F}
<1>1. sizes \subseteq Nat /\ sizes # {}
  BY FS_CardinalityType
<1>2. PICK n \in sizes : \A m \in sizes : n <= m
  BY <1>1, LeastNatural, Zenon
<1> QED
  BY <1>2

\* A smallest counterexample: induction over finite sets, stated for a set of sets.
LEMMA SmallestSubset ==
  ASSUME NEW S, IsFiniteSet(S), NEW F, F \subseteq SUBSET S, F # {}
  PROVE  \E T \in F : IsFiniteSet(T) /\ \A x \in T : T \ {x} \notin F
<1>1. \A T \in F : IsFiniteSet(T)
  BY FS_Subset
<1>2. PICK T \in F : \A U \in F : Cardinality(T) <= Cardinality(U)
  BY <1>1, SmallestSet
<1>3. \A x \in T : Cardinality(T \ {x}) = Cardinality(T) - 1 /\ Cardinality(T) \in Nat
  BY <1>1, FS_RemoveElement, FS_CardinalityType, Zenon
<1> QED
  BY <1>1, <1>2, <1>3

\* the element that a fold takes first
First(s) == CHOOSE x \in s : TRUE

\* g is the recursive function that the sum over S is read from
Sums(fun, S, g) ==
    g = [s \in SUBSET S |-> IF s = {} THEN 0 ELSE fun[First(s)] + g[s \ {First(s)}]]

\* What SumFunctionOnSet is defined as.
LEMMA SumIsChosen ==
  ASSUME NEW fun, NEW S
  PROVE  SumFunctionOnSet(fun, S) = (CHOOSE g : Sums(fun, S, g))[S]
  BY DEF SumFunctionOnSet, FoldFunctionOnSet, MapThenFoldSet, Sums, First

\* That element is one of the set.
LEMMA FirstIn == \A s : s # {} => First(s) \in s
  BY DEF First

\* The recursion has at most one solution, also on a smaller set.
LEMMA SumsUnique ==
  ASSUME NEW fun, NEW S, IsFiniteSet(S), NEW T, T \subseteq S, NEW g, NEW h,
         Sums(fun, S, g), Sums(fun, T, h)
  PROVE  \A s \in SUBSET T : g[s] = h[s]
<1> DEFINE bad == {s \in SUBSET T : g[s] # h[s]}
<1> SUFFICES ASSUME bad # {} PROVE FALSE
  OBVIOUS
<1>1. IsFiniteSet(T)
  BY FS_Subset
<1>2. PICK s \in bad : \A x \in s : s \ {x} \notin bad
  BY <1>1, SmallestSubset, Zenon
<1>3. s \in SUBSET T /\ s \in SUBSET S
  OBVIOUS
<1>4. g[s] = IF s = {} THEN 0 ELSE fun[First(s)] + g[s \ {First(s)}]
  BY <1>3, Zenon DEF Sums
<1>5. h[s] = IF s = {} THEN 0 ELSE fun[First(s)] + h[s \ {First(s)}]
  BY <1>3, Zenon DEF Sums
<1>6. s # {}
  BY <1>4, <1>5
<1>7. g[s \ {First(s)}] = h[s \ {First(s)}]
  BY <1>2, <1>3, <1>6, FirstIn
<1> QED
  BY <1>4, <1>5, <1>6, <1>7

\* The recursion has a solution.
LEMMA SumsExist ==
  ASSUME NEW fun, NEW S, IsFiniteSet(S)
  PROVE  \E g : Sums(fun, S, g)
<1> DEFINE bad == {T \in SUBSET S : ~\E g : Sums(fun, T, g)}
<1> SUFFICES ASSUME bad # {} PROVE FALSE
  OBVIOUS
<1>1. PICK T \in bad : IsFiniteSet(T) /\ \A x \in T : T \ {x} \notin bad
  BY SmallestSubset, Zenon
<1>2. T \in SUBSET S /\ ~\E g : Sums(fun, T, g)
  OBVIOUS
<1>3. T # {}
  <2> SUFFICES ASSUME T = {} PROVE FALSE
    OBVIOUS
  <2> DEFINE g == [s \in SUBSET {} |-> 0]
  <2>1. Sums(fun, T, g)
    BY DEF Sums
  <2> QED
    BY <1>2, <2>1
<1> DEFINE x == First(T)
           Sol(U) == CHOOSE g : Sums(fun, U, g)
<1>4. x \in T
  BY <1>3, FirstIn
<1>5. ASSUME NEW U, U \subseteq T, U # T
      PROVE  Sums(fun, U, Sol(U))
  <2>1. PICK y \in T : U \subseteq T \ {y}
    BY <1>5
  <2>2. T \ {y} \in SUBSET S /\ T \ {y} \notin bad
    BY <1>1, <1>2
  <2>3. PICK h : Sums(fun, T \ {y}, h)
    BY <2>2
  <2> DEFINE k == [s \in SUBSET U |-> h[s]]
  <2>4. ASSUME NEW s \in SUBSET U
        PROVE  k[s] = IF s = {} THEN 0 ELSE fun[First(s)] + k[s \ {First(s)}]
    <3>1. s \in SUBSET (T \ {y}) /\ s \ {First(s)} \in SUBSET U
      BY <2>1
    <3>2. h[s] = IF s = {} THEN 0 ELSE fun[First(s)] + h[s \ {First(s)}]
      BY <2>3, <3>1, Zenon DEF Sums
    <3> QED
      BY <3>1, <3>2
  <2>5. k = [s \in SUBSET U |-> k[s]]
    OBVIOUS
  <2> HIDE DEF k
  <2>6. k = [s \in SUBSET U |-> IF s = {} THEN 0 ELSE fun[First(s)] + k[s \ {First(s)}]]
    BY <2>4, <2>5, Zenon
  <2>7. Sums(fun, U, k)
    BY <2>6, Zenon DEF Sums
  <2> QED
    BY <2>7
<1> DEFINE V(U) == Sol(U)[U]
           g == [s \in SUBSET T |-> IF s = {} THEN 0 ELSE fun[First(s)] + V(s \ {First(s)})]
<1>6. ASSUME NEW U, U \subseteq T, U # T
      PROVE  V(U) = IF U = {} THEN 0 ELSE fun[First(U)] + V(U \ {First(U)})
  <2>1. Sums(fun, U, Sol(U)) /\ IsFiniteSet(U)
    BY <1>1, <1>5, <1>6, FS_Subset
  <2> HIDE DEF Sol
  <2>2. Sol(U)[U] = IF U = {} THEN 0 ELSE fun[First(U)] + Sol(U)[U \ {First(U)}]
    BY <2>1, Zenon DEF Sums
  <2>3. CASE U # {}
    <3> DEFINE W == U \ {First(U)}
    <3>1. W \subseteq U /\ W \subseteq T /\ W # T
      BY <1>6
    <3>2. Sums(fun, W, Sol(W))
      BY <1>5, <3>1
    <3> HIDE DEF W
    <3>3. Sol(U)[W] = Sol(W)[W]
      BY <2>1, <3>1, <3>2, SumsUnique
    <3> QED
      BY <2>2, <2>3, <3>3 DEF W
  <2> QED
    BY <2>2, <2>3
<1> HIDE DEF V
<1>7. ASSUME NEW s \in SUBSET T
      PROVE  g[s] = IF s = {} THEN 0 ELSE fun[First(s)] + g[s \ {First(s)}]
  <2>1. CASE s # {}
    <3> DEFINE u == s \ {First(s)}
    <3>1. u \subseteq T /\ u # T /\ u \in SUBSET T
      BY <2>1, FirstIn
    <3>2. V(u) = IF u = {} THEN 0 ELSE fun[First(u)] + V(u \ {First(u)})
      BY <1>6, <3>1, Zenon
    <3> HIDE DEF u
    <3>3. g[u] = V(u)
      BY <3>1, <3>2
    <3>4. g[s] = fun[First(s)] + V(u)
      BY <2>1 DEF u
    <3> QED
      BY <2>1, <3>3, <3>4 DEF u
  <2> QED
    BY <2>1
<1>8. g = [s \in SUBSET T |-> g[s]]
  OBVIOUS
<1> HIDE DEF g
<1>9. g = [s \in SUBSET T |-> IF s = {} THEN 0 ELSE fun[First(s)] + g[s \ {First(s)}]]
  BY <1>7, <1>8, Zenon
<1>10. Sums(fun, T, g)
  BY <1>9, Zenon DEF Sums
<1> QED
  BY <1>2, <1>10

\* The sum over a set: zero, or one element and the sum of the others.
LEMMA SumStep ==
  ASSUME NEW fun, NEW S, IsFiniteSet(S)
  PROVE  SumFunctionOnSet(fun, S) =
            IF S = {} THEN 0 ELSE fun[First(S)] + SumFunctionOnSet(fun, S \ {First(S)})
<1> DEFINE Sol(U) == CHOOSE g : Sums(fun, U, g)
           T == S \ {First(S)}
<1>1. IsFiniteSet(T) /\ T \subseteq S
  BY FS_Subset
<1>2. Sums(fun, S, Sol(S)) /\ Sums(fun, T, Sol(T))
  BY <1>1, SumsExist
<1>3. SumFunctionOnSet(fun, S) = Sol(S)[S] /\ SumFunctionOnSet(fun, T) = Sol(T)[T]
  BY SumIsChosen
<1> HIDE DEF Sol, T
<1>4. Sol(S)[T] = Sol(T)[T]
  BY <1>1, <1>2, SumsUnique
<1>5. Sol(S)[S] = IF S = {} THEN 0 ELSE fun[First(S)] + Sol(S)[T]
  BY <1>2, Zenon DEF Sums, T
<1> QED
  BY <1>3, <1>4, <1>5 DEF T

\* The empty sum is zero.
LEMMA SumEmpty == \A fun : SumFunctionOnSet(fun, {}) = 0
  BY SumStep, FS_EmptySet, Zenon

\* A sum of naturals is a natural.
LEMMA SumType ==
  ASSUME NEW fun, NEW S, IsFiniteSet(S), \A x \in S : fun[x] \in Nat
  PROVE  SumFunctionOnSet(fun, S) \in Nat
<1> DEFINE bad == {T \in SUBSET S : SumFunctionOnSet(fun, T) \notin Nat}
<1> SUFFICES ASSUME bad # {} PROVE FALSE
  OBVIOUS
<1>1. PICK T \in bad : IsFiniteSet(T) /\ \A x \in T : T \ {x} \notin bad
  BY SmallestSubset, Zenon
<1>2. T # {}
  BY SumEmpty
<1>3. First(T) \in T /\ First(T) \in S
  BY <1>2, FirstIn
<1>4. SumFunctionOnSet(fun, T \ {First(T)}) \in Nat
  BY <1>1, <1>3
<1>5. SumFunctionOnSet(fun, T) = fun[First(T)] + SumFunctionOnSet(fun, T \ {First(T)})
  BY <1>1, <1>2, SumStep
<1> QED
  BY <1>3, <1>4, <1>5

\* Any element can be taken out of a sum.
LEMMA SumTake ==
  ASSUME NEW fun, NEW S, IsFiniteSet(S), \A y \in S : fun[y] \in Nat, NEW x \in S
  PROVE  SumFunctionOnSet(fun, S) = fun[x] + SumFunctionOnSet(fun, S \ {x})
<1> DEFINE Holds(T) == \A y \in T : SumFunctionOnSet(fun, T) = fun[y] + SumFunctionOnSet(fun, T \ {y})
           bad == {T \in SUBSET S : ~Holds(T)}
<1> SUFFICES ASSUME bad # {} PROVE FALSE
  OBVIOUS
<1>1. PICK T \in bad : IsFiniteSet(T) /\ \A y \in T : T \ {y} \notin bad
  BY SmallestSubset, Zenon
<1>2. PICK y \in T : SumFunctionOnSet(fun, T) # fun[y] + SumFunctionOnSet(fun, T \ {y})
  BY Zenon
<1> DEFINE c == First(T)
           U == (T \ {c}) \ {y}
<1>3. c \in T /\ T # {}
  BY <1>2, FirstIn
<1>4. SumFunctionOnSet(fun, T) = fun[c] + SumFunctionOnSet(fun, T \ {c})
  BY <1>1, <1>3, SumStep, Zenon
<1>5. y # c
  BY <1>2, <1>4, Zenon
<1>6. U = (T \ {y}) \ {c} /\ U \subseteq S /\ y \in T \ {c} /\ c \in T \ {y}
  BY <1>2, <1>3, <1>5
<1> HIDE DEF c
<1>7. Holds(T \ {c}) /\ Holds(T \ {y})
  BY <1>1, <1>2, <1>3, Zenon
<1>8. SumFunctionOnSet(fun, T \ {c}) = fun[y] + SumFunctionOnSet(fun, U)
  BY <1>6, <1>7
<1>9. SumFunctionOnSet(fun, T \ {y}) = fun[c] + SumFunctionOnSet(fun, U)
  BY <1>6, <1>7, Zenon
<1>10. SumFunctionOnSet(fun, U) \in Nat /\ fun[y] \in Nat /\ fun[c] \in Nat
  BY <1>2, <1>3, <1>6, FS_Subset, SumType
<1> HIDE DEF U
<1> QED
  BY <1>2, <1>4, <1>8, <1>9, <1>10

\* Only the values on the set count.
LEMMA SumSame ==
  ASSUME NEW f, NEW g, NEW S, IsFiniteSet(S), \A x \in S : f[x] = g[x]
  PROVE  SumFunctionOnSet(f, S) = SumFunctionOnSet(g, S)
<1> DEFINE bad == {T \in SUBSET S : SumFunctionOnSet(f, T) # SumFunctionOnSet(g, T)}
<1> SUFFICES ASSUME bad # {} PROVE FALSE
  OBVIOUS
<1>1. PICK T \in bad : IsFiniteSet(T) /\ \A x \in T : T \ {x} \notin bad
  BY SmallestSubset, Zenon
<1>2. T # {}
  BY SumEmpty
<1>3. First(T) \in T /\ First(T) \in S
  BY <1>2, FirstIn
<1>4. SumFunctionOnSet(f, T \ {First(T)}) = SumFunctionOnSet(g, T \ {First(T)})
  BY <1>1, <1>3
<1>5. /\ SumFunctionOnSet(f, T) = f[First(T)] + SumFunctionOnSet(f, T \ {First(T)})
      /\ SumFunctionOnSet(g, T) = g[First(T)] + SumFunctionOnSet(g, T \ {First(T)})
  BY <1>1, <1>2, SumStep
<1> QED
  BY <1>3, <1>4, <1>5

\* Sums over sets that have no element in common add up.
LEMMA SumUnion ==
  ASSUME NEW fun, NEW S, IsFiniteSet(S), NEW R, IsFiniteSet(R), S \cap R = {},
         \A x \in S \cup R : fun[x] \in Nat
  PROVE  SumFunctionOnSet(fun, S \cup R) = SumFunctionOnSet(fun, S) + SumFunctionOnSet(fun, R)
<1> DEFINE bad == {T \in SUBSET S : SumFunctionOnSet(fun, T \cup R) # SumFunctionOnSet(fun, T) + SumFunctionOnSet(fun, R)}
<1> SUFFICES ASSUME bad # {} PROVE FALSE
  BY Zenon
<1>0. SumFunctionOnSet(fun, R) \in Nat
  BY SumType
<1>1. PICK T \in bad : IsFiniteSet(T) /\ \A x \in T : T \ {x} \notin bad
  BY SmallestSubset, Zenon
<1>2. T # {}
  <2> SUFFICES ASSUME T = {} PROVE FALSE
    OBVIOUS
  <2>1. SumFunctionOnSet(fun, T) = 0 /\ T \cup R = R
    BY SumEmpty
  <2> QED
    BY <1>0, <2>1
<1>3. PICK x \in T : TRUE
  BY <1>2
<1> DEFINE U == T \ {x}
<1>4. /\ (T \cup R) \ {x} = U \cup R
      /\ U \in SUBSET S
      /\ U \notin bad
  BY <1>1
<1>5. IsFiniteSet(T \cup R) /\ IsFiniteSet(U)
  BY <1>1, FS_Union, FS_Subset, Zenon
<1>6. SumFunctionOnSet(fun, T \cup R) = fun[x] + SumFunctionOnSet(fun, U \cup R)
  BY <1>4, <1>5, SumTake
<1>7. SumFunctionOnSet(fun, T) = fun[x] + SumFunctionOnSet(fun, U)
  BY <1>1, SumTake
<1>8. SumFunctionOnSet(fun, U \cup R) = SumFunctionOnSet(fun, U) + SumFunctionOnSet(fun, R)
  BY <1>4
<1>9. SumFunctionOnSet(fun, U) \in Nat /\ fun[x] \in Nat
  BY <1>4, <1>5, SumType
<1>10. SumFunctionOnSet(fun, T \cup R) # SumFunctionOnSet(fun, T) + SumFunctionOnSet(fun, R)
  OBVIOUS
<1> HIDE DEF U
<1> QED
  BY <1>0, <1>6, <1>7, <1>8, <1>9, <1>10

\* The amounts are a function on a finite set.
LEMMA AmountFunction ==
  ASSUME NEW n \in Nat, NEW t, IsAmounts(t, n)
  PROVE  \E f : /\ \A i \in 1..n : f[i] = t[i].amount /\ f[i] \in Nat
                /\ \A S : AmountIn(t, S) = SumFunctionOnSet(f, S)
                /\ \A S \in SUBSET (1..n) : IsFiniteSet(S)
<1>1. IsFiniteSet(1..n)
  BY FS_Interval
<1>2. \A S \in SUBSET (1..n) : IsFiniteSet(S)
  BY <1>1, FS_Subset, Zenon
<1> WITNESS [i \in DOMAIN t |-> t[i].amount]
<1> QED
  BY <1>2 DEF AmountIn, IsAmounts

\* The amount of no transfer.
LEMMA ProvedNone == \A t : AmountIn(t, {}) = 0
  BY SumEmpty DEF AmountIn

\* Amounts are natural.
LEMMA ProvedType ==
  ASSUME NEW n \in Nat, NEW t, IsAmounts(t, n), NEW S, S \subseteq 1..n
  PROVE  AmountIn(t, S) \in Nat
<1>1. PICK f : /\ \A i \in 1..n : f[i] \in Nat
               /\ AmountIn(t, S) = SumFunctionOnSet(f, S)
               /\ IsFiniteSet(S)
  BY AmountFunction
<1>2. SumFunctionOnSet(f, S) \in Nat
  BY <1>1, SumType, Zenon
<1> QED
  BY <1>1, <1>2

\* The amount of one transfer.
LEMMA ProvedOne ==
  ASSUME NEW n \in Nat, NEW t, IsAmounts(t, n), NEW i \in 1..n
  PROVE  AmountIn(t, {i}) = t[i].amount
<1>1. PICK f : f[i] = t[i].amount /\ f[i] \in Nat /\ \A S : AmountIn(t, S) = SumFunctionOnSet(f, S)
  BY AmountFunction
<1>2. \A x \in {i} : f[x] \in Nat
  BY <1>1
<1>3. IsFiniteSet({i}) /\ i \in {i} /\ {i} \ {i} = {}
  BY FS_Singleton, Zenon
<1>4. SumFunctionOnSet(f, {i}) = f[i] + SumFunctionOnSet(f, {i} \ {i})
  BY <1>2, <1>3, SumTake
<1>5. SumFunctionOnSet(f, {i} \ {i}) = 0
  BY <1>3, SumEmpty
<1>6. SumFunctionOnSet(f, {i}) = f[i]
  BY <1>1, <1>4, <1>5
<1> QED
  BY <1>1, <1>6

\* The amounts of different transfers add up.
LEMMA ProvedParts ==
  ASSUME NEW n \in Nat, NEW t, IsAmounts(t, n), NEW U, NEW S, NEW T, Split(n, U, S, T)
  PROVE  AmountIn(t, U) = AmountIn(t, S) + AmountIn(t, T)
<1> USE DEF Split
<1>1. PICK f : /\ \A i \in 1..n : f[i] \in Nat
               /\ \A V : AmountIn(t, V) = SumFunctionOnSet(f, V)
               /\ IsFiniteSet(S) /\ IsFiniteSet(T)
  BY AmountFunction
<1>2. \A x \in S \cup T : f[x] \in Nat
  BY <1>1
<1>3. SumFunctionOnSet(f, S \cup T) = SumFunctionOnSet(f, S) + SumFunctionOnSet(f, T)
  BY <1>1, <1>2, SumUnion
<1> QED
  BY <1>1, <1>3

\* Two lists with the same amounts for some transfers.
LEMMA ProvedSame ==
  ASSUME NEW S, IsFiniteSet(S), NEW t, NEW u, S \subseteq DOMAIN t, S \subseteq DOMAIN u,
         \A i \in S : t[i].amount = u[i].amount
  PROVE  AmountIn(t, S) = AmountIn(u, S)
<1> DEFINE f == [i \in DOMAIN t |-> t[i].amount]
           g == [i \in DOMAIN u |-> u[i].amount]
<1>1. \A i \in S : f[i] = g[i]
  OBVIOUS
<1> HIDE DEF f, g
<1>2. SumFunctionOnSet(f, S) = SumFunctionOnSet(g, S)
  BY <1>1, SumSame
<1> QED
  BY <1>2 DEF AmountIn, f, g

\* What the proofs about funds use of sums and cardinalities.
LEMMA SumsHold == SumFacts
<1>1. Cardinality({}) = 0 /\ \A t : AmountIn(t, {}) = 0
  BY FS_EmptySet, ProvedNone
<1>2. ASSUME NEW n \in Nat, NEW t, IsAmounts(t, n)
      PROVE  /\ \A S \in SUBSET (1..n) : AmountIn(t, S) \in Nat
             /\ \A i \in 1..n : AmountIn(t, {i}) = t[i].amount
             /\ \A U, S, T : Split(n, U, S, T) => AmountIn(t, U) = AmountIn(t, S) + AmountIn(t, T)
             /\ \A u : \A S \in SUBSET (1..n) :
                   S \subseteq DOMAIN u /\ (\A i \in S : u[i].amount = t[i].amount) => AmountIn(u, S) = AmountIn(t, S)
  <2>1. \A S \in SUBSET (1..n) : AmountIn(t, S) \in Nat
    BY <1>2, ProvedType, Zenon
  <2>2. \A i \in 1..n : AmountIn(t, {i}) = t[i].amount
    BY <1>2, ProvedOne, Zenon
  <2>3. \A U, S, T : Split(n, U, S, T) => AmountIn(t, U) = AmountIn(t, S) + AmountIn(t, T)
    BY <1>2, ProvedParts
  <2>4. ASSUME NEW u, NEW S \in SUBSET (1..n), S \subseteq DOMAIN u, \A i \in S : u[i].amount = t[i].amount
        PROVE  AmountIn(u, S) = AmountIn(t, S)
    <3>1. IsFiniteSet(1..n)
      BY FS_Interval
    <3>2. IsFiniteSet(S) /\ S \subseteq DOMAIN t
      BY <1>2, <3>1, FS_Subset, Zenon DEF IsAmounts
    <3> QED
      BY <2>4, <3>2, ProvedSame, Zenon
  <2> QED
    BY <2>1, <2>2, <2>3, <2>4
<1>3. ASSUME NEW f \in [Messages -> Nat], NEW S \in SUBSET Messages
      PROVE  /\ SumFunctionOnSet(f, S) \in Nat
             /\ \A m \in S : SumFunctionOnSet(f, S \ {m}) = SumFunctionOnSet(f, S) - f[m]
  <2>1. IsFiniteSet(Messages)
    BY TransfersAssumption
  <2>2. \A T \in SUBSET Messages : IsFiniteSet(T) /\ \A m \in T : f[m] \in Nat
    BY <2>1, FS_Subset
  <2>3. \A T \in SUBSET Messages : SumFunctionOnSet(f, T) \in Nat
    BY <2>2, SumType
  <2>4. ASSUME NEW m \in S
        PROVE  SumFunctionOnSet(f, S \ {m}) = SumFunctionOnSet(f, S) - f[m]
    <3>1. SumFunctionOnSet(f, S) = f[m] + SumFunctionOnSet(f, S \ {m})
      BY <2>2, SumTake
    <3>2. SumFunctionOnSet(f, S \ {m}) \in Nat /\ f[m] \in Nat
      BY <2>2, <2>3
    <3> QED
      BY <3>1, <3>2
  <2> QED
    BY <2>3, <2>4
<1> QED
  BY <1>1, <1>2, <1>3, Zenon DEF SumFacts

-----------------------------------------------------------------------------
(* Sequences.                                                              *)

\* The transfers of a batch get different sequences, all of them new.
LEMMA NewSequences ==
  ASSUME nextSeq \in Nat, NEW batch \in SUBSET IDs
  PROVE  /\ Cardinality(batch) \in Nat
         /\ \A i \in batch : /\ SequenceIn(i, batch) \in Nat
                             /\ nextSeq <= SequenceIn(i, batch)
                             /\ SequenceIn(i, batch) < nextSeq + Cardinality(batch)
         /\ \A i, j \in batch : SequenceIn(i, batch) = SequenceIn(j, batch) => i = j
<1> DEFINE Before(i) == {j \in batch : j < i}
<1>1. IDs = 1..NonceBound /\ NonceBound \in Nat
  BY Bounds
<1>2. IsFiniteSet(IDs)
  BY <1>1, FS_Interval
<1>3. IsFiniteSet(batch)
  BY <1>2, FS_Subset
<1>4. Cardinality(batch) \in Nat
  BY <1>3, FS_CardinalityType
<1>5. \A i : Before(i) \subseteq batch
  OBVIOUS
<1>6. \A i : IsFiniteSet(Before(i))
  BY <1>3, <1>5, FS_Subset
<1>7. \A i : Cardinality(Before(i)) \in Nat
  BY <1>6, FS_CardinalityType, Zenon
<1>8. \A i \in batch : Cardinality(Before(i)) < Cardinality(batch)
  <2> TAKE i \in batch
  <2>1. i \notin Before(i)
    BY <1>1
  <2>2. Before(i) # batch
    BY <2>1
  <2>3. Cardinality(Before(i)) <= Cardinality(batch) /\ Cardinality(Before(i)) # Cardinality(batch)
    BY <1>3, <1>5, <2>2, FS_Subset
  <2> QED
    BY <1>4, <1>7, <2>3
<1>9. \A i, j \in batch : i < j => Cardinality(Before(i)) < Cardinality(Before(j))
  <2> SUFFICES ASSUME NEW i \in batch, NEW j \in batch, i < j
               PROVE  Cardinality(Before(i)) < Cardinality(Before(j))
    OBVIOUS
  <2> batch \subseteq Nat
    BY <1>1
  <2>0. \A k \in batch : k < i => k < j
    OBVIOUS
  <2>1. Before(i) \subseteq Before(j)
    BY <2>0, Zenon
  <2>2. i \in Before(j) /\ i \notin Before(i)
    BY <1>1
  <2>3. Cardinality(Before(i)) <= Cardinality(Before(j)) /\ Cardinality(Before(i)) # Cardinality(Before(j))
    BY <1>6, <2>1, <2>2, FS_Subset
  <2> QED
    BY <1>7, <2>3
<1>10. \A i : SequenceIn(i, batch) = nextSeq + Cardinality(Before(i))
  BY DEF SequenceIn
<1> HIDE DEF Before
<1>11. \A i, j \in batch : Cardinality(Before(i)) = Cardinality(Before(j)) => i = j
  BY <1>1, <1>7, <1>9
<1> QED
  BY <1>4, <1>7, <1>8, <1>10, <1>11

\* A batch of transfers that are not in flight is sent: every transfer of it has a packet
\* of its own, and the packets in flight stay what they are.
LEMMA Sent ==
  ASSUME PacketInv, NEW batch \in SUBSET IDs, SendIBCTransfers(batch),
         messageOf' = messageOf, transfers' = transfers,
         \A s \in DOMAIN transferOf : transferOf[s] \notin batch
  PROVE  /\ SequencesInv'
         /\ \A s \in DOMAIN transferOf : s \in DOMAIN transferOf' /\ transferOf'[s] = transferOf[s]
         /\ \A s \in DOMAIN transferOf' :
               /\ s \in DOMAIN packets'
               /\ packets'[s] = transfers[transferOf'[s]].amount
               /\ transferOf'[s] \in batch \/ (s \in DOMAIN transferOf /\ transferOf'[s] = transferOf[s])
         /\ \A s, t \in DOMAIN transferOf' : transferOf'[s] = transferOf'[t] => s = t
         /\ \A i \in batch : \E s \in DOMAIN transferOf' : transferOf'[s] = i
<1> DEFINE seqs == {SequenceIn(i, batch) : i \in batch}
           At(s) == CHOOSE i \in batch : s = SequenceIn(i, batch)
<1>1. nextSeq \in Nat
  BY DEF PacketInv, SequencesInv
<1>2. /\ Cardinality(batch) \in Nat
      /\ \A s \in seqs : s \in Nat /\ nextSeq <= s /\ s < nextSeq + Cardinality(batch)
  BY <1>1, NewSequences
<1>3. \A s \in seqs : At(s) \in batch /\ s = SequenceIn(At(s), batch)
  OBVIOUS
<1>4. \A i \in batch : SequenceIn(i, batch) \in seqs /\ At(SequenceIn(i, batch)) = i
  BY <1>1, <1>3, NewSequences
<1>5. /\ transferOf' = [s \in DOMAIN transferOf \cup seqs |-> IF s \in seqs THEN At(s) ELSE transferOf[s]]
      /\ nextSeq' = nextSeq + Cardinality(batch)
      /\ packets' = [s \in DOMAIN packets \cup seqs |-> IF s \in seqs THEN transfers[At(s)].amount ELSE packets[s]]
  BY DEF SendIBCTransfers, SetSeqIDMapping
<1>6. \A s \in DOMAIN packets \cup DOMAIN transferOf \cup DOMAIN messageOf : s \in Nat /\ s < nextSeq /\ s \notin seqs
  BY <1>1, <1>2 DEF PacketInv, SequencesInv
<1>7. \A s, t \in seqs : At(s) = At(t) => s = t
  BY <1>3
<1> HIDE DEF seqs, At
<1>8. DOMAIN transferOf' = DOMAIN transferOf \cup seqs /\ DOMAIN packets' = DOMAIN packets \cup seqs
  BY <1>5
<1>9. \A s \in DOMAIN packets' \cup DOMAIN transferOf' \cup DOMAIN messageOf' : s \in Nat /\ s < nextSeq'
  BY <1>1, <1>2, <1>5, <1>6, <1>8
<1>10. nextSeq' \in Nat /\ DOMAIN transferOf' \cap DOMAIN messageOf' = {}
  BY <1>1, <1>2, <1>5, <1>6, <1>8 DEF PacketInv, SequencesInv
<1>11. SequencesInv'
  BY <1>9, <1>10 DEF SequencesInv
<1>12. \A s \in DOMAIN transferOf : s \in DOMAIN transferOf' /\ transferOf'[s] = transferOf[s]
  BY <1>5, <1>6
<1>13. \A s \in seqs : /\ s \in DOMAIN transferOf' /\ transferOf'[s] = At(s) /\ At(s) \in batch
                       /\ s \in DOMAIN packets' /\ packets'[s] = transfers[At(s)].amount
  BY <1>3, <1>5
<1>14. \A s \in DOMAIN transferOf : s \in DOMAIN packets' /\ packets'[s] = transfers[transferOf[s]].amount
  BY <1>5, <1>6 DEF PacketInv, FlightInv
<1>15. \A s, t \in DOMAIN transferOf' : transferOf'[s] = transferOf'[t] => s = t
  BY <1>7, <1>8, <1>12, <1>13 DEF PacketInv, FlightInv
<1>16. \A i \in batch : \E s \in DOMAIN transferOf' : transferOf'[s] = i
  BY <1>4, <1>13
<1>17. ASSUME NEW s \in DOMAIN transferOf'
       PROVE  /\ s \in DOMAIN packets'
              /\ packets'[s] = transfers[transferOf'[s]].amount
              /\ transferOf'[s] \in batch \/ (s \in DOMAIN transferOf /\ transferOf'[s] = transferOf[s])
  <2>1. CASE s \in seqs
    BY <1>13, <2>1
  <2>2. CASE s \in DOMAIN transferOf
    BY <1>12, <1>14, <2>2
  <2> QED
    BY <1>8, <2>1, <2>2
<1> QED
  BY <1>11, <1>12, <1>15, <1>16, <1>17

-----------------------------------------------------------------------------
(* The actions.                                                            *)

\* Only the list of transfers changes, and no amount in it.
LEMMA OnlyTransfers ==
  ASSUME PacketInv, UNCHANGED <<status, queue, nextSeq, packets, transferOf, messageOf>>, ListInv',
         \A i \in DOMAIN transfers : transfers'[i].amount = transfers[i].amount
  PROVE  PacketInv'
<1>1. SequencesInv'
  BY DEF PacketInv, SequencesInv
<1>2. \A s \in DOMAIN transferOf : transferOf[s] \in DOMAIN transfers
  BY DEF PacketInv, FlightInv, ListInv
<1>3. FlightInv'
  BY <1>2 DEF PacketInv, FlightInv, IDs
<1> QED
  BY <1>1, <1>3 DEF PacketInv

\* Nothing of the packets and the list changes.
LEMMA OtherSteps ==
  ASSUME PacketInv, UNCHANGED <<transfers, status, queue, nextSeq, packets, transferOf, messageOf>>
  PROVE  PacketInv'
<1>1. ListInv'
  BY DEF PacketInv, ListInv, IDs
<1> QED
  BY <1>1, OnlyTransfers

LEMMA NewTransfer ==
  ASSUME PacketInv, NEW r, NEW amount, NEW state, NEW merged,
         \A i \in merged : i \in DOMAIN transfers /\ transfers[i].state # "archived",
         Len(transfers) < NonceBound, setNewTransfer(r, amount, state, merged),
         UNCHANGED <<status, queue, nextSeq, packets, transferOf, messageOf>>
  PROVE  PacketInv'
<1> DEFINE kept == deleteTransfers(merged)
           new == [to |-> r, amount |-> amount, state |-> state]
<1>1. PICK n \in 0..NonceBound : IsList(transfers, n)
  BY DEF PacketInv, ListInv
<1>2. n \in Nat /\ NonceBound \in Nat /\ IDs = 1..NonceBound
  BY Bounds
<1>3. /\ IsList(kept, n)
      /\ \A i \in 1..n : /\ kept[i].amount = transfers[i].amount
                         /\ i \notin merged => kept[i] = transfers[i]
  BY <1>1, StatesSet DEF deleteTransfers
<1>4. transfers' = Append(kept, new)
  BY DEF setNewTransfer
<1>5. transfers = [i \in 1..n |-> transfers[i]] /\ kept = [i \in 1..n |-> kept[i]] /\ \A i \in 1..n : IsRecord(kept[i])
  BY <1>1, <1>3 DEF IsList
<1>6. IsRecord(new)
  BY DEF IsRecord
<1> HIDE DEF kept, new
<1>7. Len(transfers) = n
  BY <1>2, <1>5, Appended
<1>8. Append(kept, new) = [i \in 1..(n + 1) |-> IF i = n + 1 THEN new ELSE kept[i]]
  BY <1>2, <1>5, Appended
<1>9. n + 1 \in 0..NonceBound
  BY <1>2, <1>7
<1>10. \A i \in 1..(n + 1) : transfers'[i] = IF i = n + 1 THEN new ELSE kept[i]
  BY <1>4, <1>8
<1>11. \A i \in 1..n : i \in 1..(n + 1) /\ i # n + 1
  BY <1>2
<1>12. \A i \in 1..(n + 1) : i = n + 1 \/ i \in 1..n
  BY <1>2
<1>13. \A i \in 1..n : transfers'[i] = kept[i]
  BY <1>10, <1>11
<1>14. DOMAIN transfers' = 1..(n + 1) /\ DOMAIN transfers = 1..n
  BY <1>4, <1>5, <1>8
<1>15. \A i \in 1..(n + 1) : IsRecord(transfers'[i])
  BY <1>5, <1>6, <1>10, <1>12
<1>16. transfers' = [i \in 1..(n + 1) |-> transfers'[i]]
  BY <1>4, <1>8
<1>17. IsList(transfers', n + 1)
  BY <1>15, <1>16 DEF IsList
<1>18. ASSUME NEW i \in IDs, status[i] # "none"
       PROVE  i \in DOMAIN transfers' /\ transfers'[i].state = "archived"
  <2>1. i \in 1..n /\ transfers[i].state = "archived"
    BY <1>14, <1>18 DEF PacketInv, ListInv
  <2>2. i \notin merged
    BY <2>1
  <2> QED
    BY <1>3, <1>11, <1>13, <1>14, <2>1, <2>2, Zenon
<1>19. ListInv'
  BY <1>9, <1>17, <1>18 DEF PacketInv, ListInv, IDs
<1>20. \A i \in DOMAIN transfers : transfers'[i].amount = transfers[i].amount
  BY <1>3, <1>13, <1>14
<1> QED
  BY <1>19, <1>20, OnlyTransfers

LEMMA EnqueueTransferInv ==
  ASSUME PacketInv, NEW r \in Recipients, NEW deposit \in Deposits, EnqueueTransfer(r, deposit)
  PROVE  PacketInv'
<1> DEFINE below == getTransfer(r, "insufficient")
           previous == getTransfer(r, "pending")
<1>1. /\ \A i \in below : i \in DOMAIN transfers /\ transfers[i].state = "insufficient"
      /\ \A i \in previous : i \in DOMAIN transfers /\ transfers[i].state = "pending"
  BY Pages
<1>2. \A i \in below : i \in DOMAIN transfers /\ transfers[i].state # "archived"
  BY <1>1
<1>3. \A i \in below \cup previous : i \in DOMAIN transfers /\ transfers[i].state # "archived"
  BY <1>1
<1>4. \/ \E amount : setNewTransfer(r, amount, "insufficient", below)
      \/ \E amount : setNewTransfer(r, amount, "pending", below \cup previous)
  BY DEF EnqueueTransfer
<1>5. /\ Len(transfers) < NonceBound
      /\ UNCHANGED <<status, queue, nextSeq, packets, transferOf, messageOf>>
  BY DEF EnqueueTransfer, ibcVars, channelVars
<1> HIDE DEF below, previous
<1>6. CASE \E amount : setNewTransfer(r, amount, "insufficient", below)
  BY <1>2, <1>5, <1>6, NewTransfer, Zenon
<1>7. CASE \E amount : setNewTransfer(r, amount, "pending", below \cup previous)
  BY <1>3, <1>5, <1>7, NewTransfer
<1> QED
  BY <1>4, <1>6, <1>7

LEMMA ExecutePendingTransfersInv ==
  ASSUME PacketInv, ExecutePendingTransfers
  PROVE  PacketInv'
<1> DEFINE page == GetTransfersForChainPaginated("axelarnet")
<1>1. \A i \in page : i \in DOMAIN transfers /\ transfers[i].state = "pending"
  BY Pages
<1>2. PICK paid \in SUBSET page : transfers' = PayOut(paid, page)
  BY DEF ExecutePendingTransfers
<1>3. UNCHANGED <<status, queue, nextSeq, packets, transferOf, messageOf>>
  BY DEF ExecutePendingTransfers, ibcVars, channelVars
<1> HIDE DEF page
<1>4. PICK n \in 0..NonceBound : IsList(transfers, n)
  BY DEF PacketInv, ListInv
<1>5. DOMAIN transfers = 1..n /\ \A i \in 1..n : IsRecord(transfers[i])
  BY <1>4 DEF IsList
<1> DEFINE end(i) == IF i \in paid THEN "archived" ELSE "failed"
<1>6. transfers' = [i \in 1..n |-> IF i \in page THEN [transfers[i] EXCEPT !.state = end(i)] ELSE transfers[i]]
  BY <1>2, <1>5 DEF PayOut
<1> HIDE DEF end
<1>7. \A i \in 1..n : [transfers[i] EXCEPT !.state = end(i)]
                         = [to |-> transfers[i].to, amount |-> transfers[i].amount, state |-> end(i)]
  BY <1>5 DEF IsRecord
<1>8. IsList(transfers', n) /\ \A i \in 1..n : transfers'[i].amount = transfers[i].amount
  BY <1>5, <1>6, <1>7 DEF IsList, IsRecord
<1>9. \A i \in IDs : status[i] # "none" => i \in 1..n /\ transfers'[i].state = "archived"
  BY <1>1, <1>5, <1>6 DEF PacketInv, ListInv
<1>10. ListInv'
  BY <1>3, <1>8, <1>9, <1>6, Zenon DEF PacketInv, ListInv, IDs
<1> QED
  BY <1>3, <1>5, <1>8, <1>10, OnlyTransfers, Zenon

\* The transfers routed are pending ones of x/nexus, which have no IBC transfer yet.
LEMMA RouteIBCTransfersInv ==
  ASSUME PacketInv, RouteIBCTransfers
  PROVE  PacketInv'
<1>1. PICK routed \in SUBSET GetTransfersForChainPaginated("cosmos") :
         /\ \A i \in routed : status[i] = "none"
         /\ transfers' = SetStates(routed, "archived")
         /\ status' = [i \in IDs |-> IF i \in routed THEN "pending" ELSE status[i]]
         /\ queue' = queue \cup routed
         /\ UNCHANGED channelVars
  BY DEF RouteIBCTransfers
<1>2. \A i \in routed : i \in DOMAIN transfers
  BY Pages
<1>3. PICK n \in 0..NonceBound : IsList(transfers, n)
  BY DEF PacketInv, ListInv
<1>4. DOMAIN transfers = 1..n
  BY <1>3 DEF IsList
<1>5. /\ IsList(transfers', n)
      /\ \A i \in 1..n : /\ transfers'[i].amount = transfers[i].amount
                         /\ i \in routed => transfers'[i].state = "archived"
                         /\ i \notin routed => transfers'[i] = transfers[i]
  BY <1>1, <1>3, StatesSet
<1>6. DOMAIN transfers' = 1..n
  BY <1>5 DEF IsList
<1>7. 1..n \subseteq IDs
  BY Bounds
<1>8. \A i \in IDs : status'[i] # "none" => i \in 1..n /\ transfers'[i].state = "archived"
  BY <1>1, <1>2, <1>4, <1>5, Zenon DEF PacketInv, ListInv
<1>9. ListInv'
  BY <1>1, <1>5, <1>6, <1>8, Zenon DEF PacketInv, ListInv, IDs
<1>10. SequencesInv'
  BY <1>1 DEF PacketInv, SequencesInv, channelVars
<1>11. \A s \in DOMAIN transferOf : transferOf[s] \in 1..n /\ transferOf[s] \notin routed /\ transferOf[s] \in IDs \ queue
  BY <1>1, <1>4, Zenon DEF PacketInv, FlightInv, ListInv
<1>12. queue' \subseteq IDs /\ \A i \in queue' : status'[i] = "pending"
  BY <1>1, <1>2, <1>4, <1>7, Zenon DEF PacketInv, FlightInv
<1>13. \A s \in DOMAIN transferOf :
          /\ s \in DOMAIN packets /\ transferOf[s] \in IDs \ queue'
          /\ status'[transferOf[s]] = "pending"
          /\ packets[s] = transfers'[transferOf[s]].amount
  BY <1>1, <1>5, <1>11, Zenon DEF PacketInv, FlightInv
<1>14. \A i \in IDs \ queue' : status'[i] = "pending" => \E s \in DOMAIN transferOf : transferOf[s] = i
  BY <1>1, Zenon DEF PacketInv, FlightInv
<1>15. FlightInv'
  BY <1>1, <1>12, <1>13, <1>14, ZenonT(30) DEF PacketInv, FlightInv, channelVars, IDs
<1> QED
  BY <1>9, <1>10, <1>15 DEF PacketInv

\* A batch is sent, out of the queue or when it is retried.
LEMMA SentInv ==
  ASSUME PacketInv, NEW batch \in SUBSET IDs, SendIBCTransfers(batch), UNCHANGED <<messageOf, transfers>>,
         DOMAIN status' = IDs, queue' \subseteq queue,
         \A s \in DOMAIN transferOf : transferOf[s] \notin batch /\ status'[transferOf[s]] = "pending",
         \A i \in batch : status[i] # "none" /\ status'[i] = "pending" /\ i \notin queue',
         \A i \in queue' : status'[i] = "pending",
         \A i \in IDs : status'[i] # "none" => status[i] # "none",
         \A i \in IDs \ (batch \cup queue') : status'[i] = "pending" => status[i] = "pending" /\ i \notin queue
  PROVE  PacketInv'
<1>1. /\ SequencesInv'
      /\ \A s \in DOMAIN transferOf : s \in DOMAIN transferOf' /\ transferOf'[s] = transferOf[s]
      /\ \A s \in DOMAIN transferOf' :
            /\ s \in DOMAIN packets'
            /\ packets'[s] = transfers[transferOf'[s]].amount
            /\ transferOf'[s] \in batch \/ (s \in DOMAIN transferOf /\ transferOf'[s] = transferOf[s])
      /\ \A s, t \in DOMAIN transferOf' : transferOf'[s] = transferOf'[t] => s = t
      /\ \A i \in batch : \E s \in DOMAIN transferOf' : transferOf'[s] = i
  BY Sent, Zenon
<1>2. ListInv'
  BY DEF PacketInv, ListInv, IDs
<1>3. ASSUME NEW s \in DOMAIN transferOf'
      PROVE  transferOf'[s] \in IDs \ queue' /\ status'[transferOf'[s]] = "pending"
  <2>1. CASE transferOf'[s] \in batch
    BY <2>1
  <2>2. CASE s \in DOMAIN transferOf /\ transferOf'[s] = transferOf[s]
    BY <2>2 DEF PacketInv, FlightInv
  <2> QED
    BY <1>1, <2>1, <2>2, Zenon
<1>4. ASSUME NEW i \in IDs \ queue', status'[i] = "pending"
      PROVE  \E s \in DOMAIN transferOf' : transferOf'[s] = i
  <2>1. CASE i \in batch
    BY <1>1, <2>1, Zenon
  <2>2. CASE i \notin batch
    <3>1. status[i] = "pending" /\ i \in IDs \ queue
      BY <1>4, <2>2, Zenon
    <3>2. \E s \in DOMAIN transferOf : transferOf[s] = i
      BY <3>1 DEF PacketInv, FlightInv
    <3> QED
      BY <1>1, <3>2, Zenon
  <2> QED
    BY <2>1, <2>2, Zenon
<1>5. queue' \subseteq IDs
  BY DEF PacketInv, FlightInv
<1>6. FlightInv'
  BY <1>1, <1>3, <1>4, <1>5, Zenon DEF FlightInv, IDs
<1> QED
  BY <1>1, <1>2, <1>6 DEF PacketInv

LEMMA EndBlockerInv ==
  ASSUME PacketInv, EndBlocker
  PROVE  PacketInv'
<1> DEFINE taken == Lowest(EndBlockerLimit, queue)
<1>1. PICK failed \in SUBSET taken :
         /\ SendIBCTransfers(taken \ failed)
         /\ status' = [i \in IDs |-> IF i \in failed THEN "failed" ELSE status[i]]
  BY Zenon DEF EndBlocker
<1>2. queue' = queue \ taken /\ UNCHANGED <<messageOf, transfers>>
  BY DEF EndBlocker, nexusVars
<1>3. taken \subseteq queue
  BY LowestSubset
<1> HIDE DEF taken
<1> DEFINE batch == taken \ failed
<1>4. queue \subseteq IDs /\ \A i \in queue : status[i] = "pending"
  BY DEF PacketInv, FlightInv
<1>5. batch \in SUBSET IDs /\ SendIBCTransfers(batch)
  BY <1>1, <1>3, <1>4
<1>6. \A s \in DOMAIN transferOf : transferOf[s] \in IDs \ queue /\ status[transferOf[s]] = "pending"
  BY DEF PacketInv, FlightInv
<1>7. \A s \in DOMAIN transferOf : transferOf[s] \notin batch /\ status'[transferOf[s]] = "pending"
  BY <1>1, <1>3, <1>6
<1>8. \A i \in batch : status[i] # "none" /\ status'[i] = "pending" /\ i \notin queue'
  BY <1>1, <1>2, <1>3, <1>4
<1>9. \A i \in queue' : status'[i] = "pending"
  BY <1>1, <1>2, <1>3, <1>4
<1>10. \A i \in IDs : status'[i] # "none" => status[i] # "none"
  BY <1>1, <1>3, <1>4
<1>11. \A i \in IDs \ (batch \cup queue') : status'[i] = "pending" => status[i] = "pending" /\ i \notin queue
  BY <1>1, <1>2, <1>3
<1>12. DOMAIN status' = IDs /\ queue' \subseteq queue
  BY <1>1, <1>2
<1> HIDE DEF batch
<1> QED
  BY <1>2, <1>5, <1>7, <1>8, <1>9, <1>10, <1>11, <1>12, SentInv, Zenon

LEMMA RetryIBCTransferInv ==
  ASSUME PacketInv, NEW i \in IDs, RetryIBCTransfer(i)
  PROVE  PacketInv'
<1>1. /\ status[i] = "failed" /\ SendIBCTransfers({i})
      /\ status' = [status EXCEPT ![i] = "pending"]
      /\ UNCHANGED <<messageOf, transfers, queue>>
  BY DEF RetryIBCTransfer, nexusVars
<1>2. DOMAIN status = IDs
  BY DEF PacketInv, ListInv
<1>3. \A s \in DOMAIN transferOf : transferOf[s] \in IDs \ queue /\ status[transferOf[s]] = "pending"
  BY DEF PacketInv, FlightInv
<1>4. \A k \in queue : status[k] = "pending" /\ k \in IDs
  BY DEF PacketInv, FlightInv
<1>5. DOMAIN status' = IDs /\ queue' \subseteq queue /\ {i} \in SUBSET IDs
  BY <1>1, <1>2
<1>6. \A s \in DOMAIN transferOf : transferOf[s] \notin {i} /\ status'[transferOf[s]] = "pending"
  BY <1>1, <1>2, <1>3
<1>7. \A k \in {i} : status[k] # "none" /\ status'[k] = "pending" /\ k \notin queue'
  BY <1>1, <1>2, <1>4
<1>8. \A k \in queue' : status'[k] = "pending"
  BY <1>1, <1>2, <1>4
<1>9. \A k \in IDs : status'[k] # "none" => status[k] # "none"
  BY <1>1, <1>2
<1>10. \A k \in IDs \ ({i} \cup queue') : status'[k] = "pending" => status[k] = "pending" /\ k \notin queue
  BY <1>1, <1>2
<1> QED
  BY <1>1, <1>5, <1>6, <1>7, <1>8, <1>9, <1>10, SentInv, Zenon

\* A packet that carries no transfer is sent, with or without a message.
LEMMA OtherPacketInv ==
  ASSUME PacketInv, NEW x, packets' = Plus(packets, nextSeq, x), nextSeq' = nextSeq + 1,
         DOMAIN messageOf' \subseteq DOMAIN messageOf \cup {nextSeq},
         UNCHANGED <<transfers, status, queue, transferOf>>
  PROVE  PacketInv'
<1>1. ListInv'
  BY DEF PacketInv, ListInv, IDs
<1>2. nextSeq \in Nat /\ \A s \in DOMAIN packets \cup DOMAIN transferOf \cup DOMAIN messageOf : s \in Nat /\ s < nextSeq
  BY DEF PacketInv, SequencesInv
<1>3. DOMAIN packets' = DOMAIN packets \cup {nextSeq} /\ \A s \in DOMAIN packets : s # nextSeq => packets'[s] = packets[s]
  BY DEF Plus
<1>4. \A s \in DOMAIN transferOf : s # nextSeq
  BY <1>2
<1>5. \A s \in DOMAIN packets' \cup DOMAIN transferOf' \cup DOMAIN messageOf' : s \in Nat /\ s < nextSeq'
  BY <1>2, <1>3
<1>6. nextSeq' \in Nat /\ DOMAIN transferOf' \cap DOMAIN messageOf' = {}
  BY <1>2, <1>4 DEF PacketInv, SequencesInv
<1>7. SequencesInv'
  BY <1>5, <1>6, Zenon DEF SequencesInv
<1>8. \A s \in DOMAIN transferOf : s \in DOMAIN packets' /\ packets'[s] = packets[s]
  BY <1>3, <1>4, Zenon DEF PacketInv, FlightInv
<1>9. FlightInv'
  BY <1>8 DEF PacketInv, FlightInv, IDs
<1> QED
  BY <1>1, <1>7, <1>9, Zenon DEF PacketInv

LEMMA SendMessageInv ==
  ASSUME PacketInv, NEW m \in Messages, SendMessage(m)
  PROVE  PacketInv'
<1>1. /\ packets' = Plus(packets, nextSeq, CoinOf(m)) /\ nextSeq' = nextSeq + 1
      /\ messageOf' = Plus(messageOf, nextSeq, m)
      /\ UNCHANGED <<transfers, status, queue, transferOf>>
  BY DEF SendMessage, nexusVars
<1>2. DOMAIN messageOf' \subseteq DOMAIN messageOf \cup {nextSeq}
  BY <1>1 DEF Plus
<1> QED
  BY <1>1, <1>2, OtherPacketInv

LEMMA SendOtherInv ==
  ASSUME PacketInv, SendOther
  PROVE  PacketInv'
<1>1. /\ packets' = Plus(packets, nextSeq, 0) /\ nextSeq' = nextSeq + 1
      /\ UNCHANGED <<transfers, status, queue, transferOf, messageOf>>
  BY DEF SendOther, nexusVars, ibcVars
<1> QED
  BY <1>1, OtherPacketInv

\* The packet of a transfer has come to its end, whichever end it is.
LEMMA TransferSettled ==
  ASSUME PacketInv, NEW s \in DOMAIN transferOf, NEW end, end \notin {"pending", "none"},
         status' = [status EXCEPT ![transferOf[s]] = end],
         transferOf' = Minus(transferOf, s), packets' = Minus(packets, s),
         UNCHANGED <<transfers, queue, nextSeq, messageOf>>
  PROVE  PacketInv'
<1>1. PICK i \in IDs : i = transferOf[s] /\ status[i] = "pending" /\ i \notin queue
  BY DEF PacketInv, FlightInv
<1>2. DOMAIN status = IDs
  BY DEF PacketInv, ListInv
<1>3. /\ DOMAIN status' = IDs /\ status'[i] = end
      /\ \A k \in IDs : k # i => status'[k] = status[k]
  BY <1>1, <1>2
<1>4. /\ DOMAIN transferOf' = DOMAIN transferOf \ {s} /\ DOMAIN packets' = DOMAIN packets \ {s}
      /\ \A t \in DOMAIN transferOf' : transferOf'[t] = transferOf[t]
      /\ \A t \in DOMAIN packets' : packets'[t] = packets[t]
  BY DEF Minus, Restrict
<1>5. \A t \in DOMAIN transferOf' : transferOf[t] # i
  BY <1>1, <1>4, Zenon DEF PacketInv, FlightInv
<1>6. ListInv'
  BY <1>1, <1>3, Zenon DEF PacketInv, ListInv, IDs
<1>7. SequencesInv'
  BY <1>4, Zenon DEF PacketInv, SequencesInv
<1>8. \A t \in DOMAIN transferOf' :
         /\ t \in DOMAIN packets' /\ transferOf'[t] \in IDs \ queue /\ status'[transferOf'[t]] = "pending"
         /\ packets'[t] = transfers[transferOf'[t]].amount
  BY <1>3, <1>4, <1>5 DEF PacketInv, FlightInv
<1>9. \A t, u \in DOMAIN transferOf' : transferOf'[t] = transferOf'[u] => t = u
  BY <1>4, Zenon DEF PacketInv, FlightInv
<1>10. \A k \in queue : k \in IDs /\ status'[k] = "pending"
  BY <1>1, <1>3, Zenon DEF PacketInv, FlightInv
<1>11. ASSUME NEW k \in IDs \ queue, status'[k] = "pending"
       PROVE  \E t \in DOMAIN transferOf' : transferOf'[t] = k
  <2>1. k # i /\ status[k] = "pending"
    BY <1>3, <1>11, Zenon
  <2>2. PICK t \in DOMAIN transferOf : transferOf[t] = k
    BY <2>1 DEF PacketInv, FlightInv
  <2>3. t # s
    BY <1>1, <2>1, <2>2, Zenon
  <2> QED
    BY <1>4, <2>2, <2>3
<1>12. FlightInv'
  BY <1>8, <1>9, <1>10, <1>11, Zenon DEF FlightInv, IDs
<1> QED
  BY <1>6, <1>7, <1>12, Zenon DEF PacketInv

\* A packet without transfer has come to its end.
LEMMA OtherSettled ==
  ASSUME PacketInv, NEW s, s \notin DOMAIN transferOf, packets' = Minus(packets, s),
         DOMAIN messageOf' \subseteq DOMAIN messageOf,
         UNCHANGED <<transfers, status, queue, nextSeq, transferOf>>
  PROVE  PacketInv'
<1>1. DOMAIN packets' = DOMAIN packets \ {s} /\ \A t \in DOMAIN packets' : packets'[t] = packets[t]
  BY Zenon DEF Minus, Restrict
<1>2. ListInv'
  BY DEF PacketInv, ListInv, IDs
<1>3. SequencesInv'
  BY <1>1 DEF PacketInv, SequencesInv
<1>4. \A t \in DOMAIN transferOf : t \in DOMAIN packets' /\ packets'[t] = packets[t]
  BY <1>1, Zenon DEF PacketInv, FlightInv
<1>5. FlightInv'
  BY <1>4 DEF PacketInv, FlightInv, IDs
<1> QED
  BY <1>2, <1>3, <1>5 DEF PacketInv

LEMMA OnAcknowledgementPacketInv ==
  ASSUME PacketInv, NEW s \in DOMAIN packets, OnAcknowledgementPacket(s)
  PROVE  PacketInv'
<1>1. packets' = Minus(packets, s) /\ UNCHANGED <<transfers, queue, nextSeq>>
  BY DEF OnAcknowledgementPacket, nexusVars
<1>2. CASE IsTransfer(s) /\ SetTransferCompleted(s)
  <2>1. /\ s \in DOMAIN transferOf /\ transferOf' = Minus(transferOf, s) /\ messageOf' = messageOf
        /\ status' = [status EXCEPT ![transferOf[s]] = "completed"]
    BY <1>2 DEF IsTransfer, SetTransferCompleted
  <2>2. "completed" \notin {"pending", "none"}
    OBVIOUS
  <2> QED
    BY <1>1, <2>1, <2>2, TransferSettled, Zenon
<1>3. CASE IsMessage(s) /\ SetMessageExecuted(s)
  <2>1. s \notin DOMAIN transferOf /\ messageOf' = Minus(messageOf, s) /\ UNCHANGED <<status, transferOf>>
    BY <1>3 DEF IsMessage, IsTransfer, SetMessageExecuted
  <2>2. DOMAIN messageOf' \subseteq DOMAIN messageOf
    BY <2>1 DEF Minus, Restrict
  <2> QED
    BY <1>1, <2>1, <2>2, OtherSettled, Zenon
<1>4. CASE ~IsTransfer(s) /\ UNCHANGED <<status, transferOf, messageOf>>
  <2>1. s \notin DOMAIN transferOf /\ UNCHANGED <<status, transferOf>> /\ DOMAIN messageOf' \subseteq DOMAIN messageOf
    BY <1>4 DEF IsTransfer
  <2> QED
    BY <1>1, <2>1, OtherSettled
<1> QED
  BY <1>2, <1>3, <1>4 DEF OnAcknowledgementPacket, setRoutedPacketCompleted

LEMMA OnTimeoutPacketInv ==
  ASSUME PacketInv, NEW s \in DOMAIN packets, OnTimeoutPacket(s)
  PROVE  PacketInv'
<1>1. packets' = Minus(packets, s) /\ UNCHANGED <<transfers, queue, nextSeq>>
  BY DEF OnTimeoutPacket, nexusVars
<1>2. CASE IsTransfer(s) /\ SetTransferFailed(s)
  <2>1. /\ s \in DOMAIN transferOf /\ transferOf' = Minus(transferOf, s) /\ messageOf' = messageOf
        /\ status' = [status EXCEPT ![transferOf[s]] = "failed"]
    BY <1>2 DEF IsTransfer, SetTransferFailed
  <2>2. "failed" \notin {"pending", "none"}
    BY Zenon
  <2> QED
    BY <1>1, <2>1, <2>2, TransferSettled, Zenon
<1>3. CASE IsMessage(s) /\ SetMessageFailed(s)
  <2>1. s \notin DOMAIN transferOf /\ messageOf' = Minus(messageOf, s) /\ UNCHANGED <<status, transferOf>>
    BY <1>3, Zenon DEF IsMessage, IsTransfer, SetMessageFailed
  <2>2. DOMAIN messageOf' \subseteq DOMAIN messageOf
    BY <2>1 DEF Minus, Restrict
  <2> QED
    BY <1>1, <2>1, <2>2, OtherSettled
<1>4. CASE ~IsTransfer(s) /\ UNCHANGED <<status, transferOf, messageOf>>
  <2>1. s \notin DOMAIN transferOf /\ UNCHANGED <<status, transferOf>> /\ DOMAIN messageOf' \subseteq DOMAIN messageOf
    BY <1>4 DEF IsTransfer
  <2> QED
    BY <1>1, <2>1, OtherSettled
<1> QED
  BY <1>2, <1>3, <1>4 DEF OnTimeoutPacket, setRoutedPacketFailed

-----------------------------------------------------------------------------
LEMMA InitPackets == Init => PacketInv
<1> SUFFICES ASSUME Init PROVE PacketInv
  OBVIOUS
<1>1. /\ transfers = <<>> /\ status = [i \in IDs |-> "none"] /\ queue = {}
      /\ nextSeq = 1 /\ packets = <<>> /\ transferOf = <<>> /\ messageOf = <<>>
  BY DEF Init
<1>2. 0 \in 0..NonceBound
  BY Bounds
<1>3. IsList(transfers, 0)
  BY <1>1 DEF IsList
<1>4. ListInv
  BY <1>1, <1>2, <1>3 DEF ListInv
<1>5. SequencesInv
  BY <1>1 DEF SequencesInv
<1>6. FlightInv
  BY <1>1 DEF FlightInv
<1> QED
  BY <1>4, <1>5, <1>6 DEF PacketInv

LEMMA NextPackets == PacketInv /\ [Next]_vars => PacketInv'
<1> SUFFICES ASSUME PacketInv, [Next]_vars PROVE PacketInv'
  OBVIOUS
<1>1. CASE \E r \in Recipients, deposit \in Deposits : EnqueueTransfer(r, deposit)
  BY <1>1, EnqueueTransferInv
<1>2. CASE \E info \in FeeInfos : RegisterAssetFee(info)
  BY <1>2, OtherSteps DEF RegisterAssetFee, ibcVars, channelVars
<1>3. CASE RegisterFeeCollector
  BY <1>3, OtherSteps DEF RegisterFeeCollector, ibcVars, channelVars
<1>4. CASE ActivateChain("cosmos") \/ DeactivateChain("cosmos")
  BY <1>4, OtherSteps DEF ActivateChain, DeactivateChain, ibcVars, channelVars
<1>5. CASE ExecutePendingTransfers
  BY <1>5, ExecutePendingTransfersInv
<1>6. CASE RouteIBCTransfers
  BY <1>6, RouteIBCTransfersInv
<1>7. CASE EndBlocker
  BY <1>7, EndBlockerInv
<1>8. CASE \E i \in IDs : RetryIBCTransfer(i)
  BY <1>8, RetryIBCTransferInv
<1>9. CASE \E m \in Messages : SendMessage(m)
  BY <1>9, SendMessageInv, Zenon
<1>10. CASE SendOther
  BY <1>10, SendOtherInv
<1>11. CASE \E p \in Receipts, withToken \in BOOLEAN : OnRecvMessage(p.amount, p.fee, withToken)
  BY <1>11, OtherSteps DEF OnRecvMessage, nexusVars, ibcVars, channelVars
<1>12. CASE \E s \in DOMAIN packets : OnAcknowledgementPacket(s) \/ OnTimeoutPacket(s)
  BY <1>12, OnAcknowledgementPacketInv, OnTimeoutPacketInv
<1>13. CASE UNCHANGED vars
  BY <1>13, OtherSteps DEF vars, nexusVars, ibcVars, channelVars
<1> QED
  BY <1>1, <1>2, <1>3, <1>4, <1>5, <1>6, <1>7, <1>8, <1>9, <1>10, <1>11, <1>12, <1>13 DEF Next

LEMMA AlwaysPackets == Spec => []PacketInv
  BY InitPackets, NextPackets, PTL DEF Spec

\* What the invariant says of the packets of a transfer, counted.
LEMMA PacketsCounted == PacketInv => PendingHasPacket
<1> SUFFICES ASSUME PacketInv PROVE PendingHasPacket
  OBVIOUS
<1>1. DOMAIN transferOf \cap DOMAIN messageOf = {}
  BY DEF PacketInv, SequencesInv
<1>2. \A s \in DOMAIN transferOf : s \in DOMAIN packets /\ packets[s] = transfers[transferOf[s]].amount
  BY DEF PacketInv, FlightInv
<1>3. ASSUME NEW i \in IDs
      PROVE  Cardinality({s \in DOMAIN transferOf : transferOf[s] = i})
                = IF status[i] = "pending" /\ i \notin queue THEN 1 ELSE 0
  <2>1. CASE status[i] = "pending" /\ i \notin queue
    <3>1. PICK s \in DOMAIN transferOf : transferOf[s] = i
      BY <2>1 DEF PacketInv, FlightInv
    <3>2. {t \in DOMAIN transferOf : transferOf[t] = i} = {s}
      BY <3>1 DEF PacketInv, FlightInv
    <3> QED
      BY <2>1, <3>2, FS_Singleton, Zenon
  <2>2. CASE ~(status[i] = "pending" /\ i \notin queue)
    <3>1. {t \in DOMAIN transferOf : transferOf[t] = i} = {}
      BY <2>2 DEF PacketInv, FlightInv
    <3> QED
      BY <2>2, <3>1, FS_EmptySet, Zenon
  <2> QED
    BY <2>1, <2>2
<1>4. \A i \in queue : status[i] = "pending"
  BY DEF PacketInv, FlightInv
<1> QED
  BY <1>1, <1>2, <1>3, <1>4 DEF PendingHasPacket

\* An IBC transfer is pending exactly while it is queued or has one packet in flight,
\* with its amount and mapped to it alone, whatever fails, times out and is retried and
\* whoever else sends messages and packets over the channel (SetSeqIDMapping, retries).
THEOREM OnePacketPerTransfer == Spec => []PendingHasPacket
  BY AlwaysPackets, PacketsCounted, PTL

\* A transfer that x/nexus still has as pending has no IBC transfer yet.
RoutedOnce == \A i \in DOMAIN transfers : transfers[i].state = "pending" => status[i] = "none"

\* RouteIBCTransfers never meets an ID that is taken, so EnqueueIBCTransfer never panics
\* and no transfer is sent to its recipient a second time.
THEOREM NeverRoutedTwice == Spec => []RoutedOnce
<1>1. PacketInv => RoutedOnce
  <2> SUFFICES ASSUME PacketInv, NEW i \in DOMAIN transfers, transfers[i].state = "pending"
               PROVE  status[i] = "none"
    BY DEF RoutedOnce
  <2>1. PICK n \in 0..NonceBound : IsList(transfers, n)
    BY DEF PacketInv, ListInv
  <2>2. i \in IDs
    BY <2>1, Bounds DEF IsList
  <2> QED
    BY <2>2 DEF PacketInv, ListInv
<1> QED
  BY <1>1, AlwaysPackets, PTL

-----------------------------------------------------------------------------
(* The funds.                                                              *)

LEMMA AlwaysFunds == Spec => [](PacketInv /\ FundsInv)
<1>1. Init => PacketInv /\ FundsInv
  BY SumsHold, InitPackets, InitFunds
<1>2. PacketInv /\ FundsInv /\ [Next]_vars => (PacketInv /\ FundsInv)'
  BY SumsHold, NextPackets, NextFunds
<1> QED
  BY <1>1, <1>2, PTL DEF Spec

\* Whatever is deposited, merged, paid, routed, retried, received or refunded, and in
\* whatever order, the escrow holds exactly what open claims need.
THEOREM EscrowIsExact == Spec => []EscrowBacksClaims
<1>1. FundsInv => EscrowBacksClaims
  <2>1. {i \in DOMAIN transfers : Claimed(i) \/ status[i] = "failed"} = ClaimsIn(transfers, status)
    BY DEF Claimed, ClaimsIn
  <2>2. {m \in Messages : message[m] \in {"approved", "failed"}} = WaitingIn(message)
    BY DEF WaitingIn
  <2> QED
    BY <2>1, <2>2, AmountIs DEF FundsInv, EscrowInv, EscrowBacksClaims, TokensIn
<1> QED
  BY AlwaysFunds, <1>1, PTL

\* The account can pay for all IBC transfers of the queue, so the end blocker never
\* panics for want of funds or because a transfer is no longer pending.
THEOREM QueueIsFunded == Spec => []AccountBacksQueue
<1>1. PacketInv /\ FundsInv => AccountBacksQueue
  BY AmountIs, Zenon DEF FundsInv, AccountInv, AccountBacksQueue, PacketInv, FlightInv
<1> QED
  BY AlwaysFunds, <1>1, PTL

\* Every recipient is owed what its open transfers hold, and deposits are merged.
THEOREM RecipientsGetTheirs == Spec => []RecipientsOwed
<1>1. PacketInv /\ FundsInv => RecipientsOwed
  <2> SUFFICES ASSUME PacketInv, FundsInv, NEW r \in Recipients
               PROVE  /\ owed[r] = Amount({i \in DOMAIN transfers : transfers[i].to = r
                                             /\ (Claimed(i) \/ status[i] \in {"pending", "failed"})})
                      /\ \A state \in {"insufficient", "pending"} : Cardinality(InState(r, state)) <= 1
    BY DEF RecipientsOwed
  <2>1. {i \in DOMAIN transfers : transfers[i].to = r /\ (Claimed(i) \/ status[i] \in {"pending", "failed"})}
           = OwedIn(transfers, status, r)
    BY DEF Claimed, OwedIn
  <2>2. owed[r] = Amount(OwedIn(transfers, status, r))
    BY AmountIs DEF FundsInv, OwedInv
  <2>3. ASSUME NEW state \in {"insufficient", "pending"}
        PROVE  Cardinality(InState(r, state)) <= 1
    <3>1. \A i, j \in InState(r, state) : i = j
      BY DEF FundsInv, MergedInv, InState
    <3>2. CASE InState(r, state) = {}
      BY <3>2, FS_EmptySet
    <3>3. CASE InState(r, state) # {}
      <4>1. PICK i : InState(r, state) = {i}
        BY <3>1, <3>3
      <4>2. Cardinality({i}) = 1
        BY FS_Singleton
      <4> QED
        BY <4>1, <4>2
    <3> QED
      BY <3>2, <3>3
  <2> QED
    BY <2>1, <2>2, <2>3, Zenon
<1> QED
  BY AlwaysFunds, <1>1, PTL

\* Every fee charged lies between the minimum and the maximum in force.
THEOREM FeesStayInBounds == Spec => FeesWithinBounds
<1>1. PacketInv /\ FundsInv /\ [Next]_vars => [fees' > fees => fees' - fees \in feeInfo.min..feeInfo.max]_vars
  BY SumsHold, NextFunds
<1> QED
  BY AlwaysFunds, <1>1, PTL DEF Spec, FeesWithinBounds

=============================================================================
