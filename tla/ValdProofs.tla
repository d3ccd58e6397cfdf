----------------------------- MODULE ValdProofs ------------------------------
(* Proofs about Broadcaster, the transactions of vald, for any calls,      *)
(* messages, limits and retries, and any number of transactions, restarts  *)
(* and late inclusions.                                                    *)
EXTENDS Broadcaster, FiniteSetTheorems, WellFoundedInduction, TLAPS

USE SMTT(20), ZenonT(10)

-----------------------------------------------------------------------------
(* The broadcaster of vald.                                                *)

CallStates == {"new", "waiting", "expired", "ok", "suppressed", "error"}

(* The tx factory is never ahead of the account and the node never behind, *)
(* so that only transactions with the account's sequence are let in.       *)
SequenceInv ==
    /\ {sequence, txfSequence, checkSequence} \subseteq Nat
    /\ txfSequence <= sequence /\ sequence <= checkSequence
    /\ \A t \in network : t.sequence = sequence
    /\ txEvent # NoTx => pc = "wait"
    /\ pc \in {"submit", "wait"} => tx.sequence = txfSequence
    /\ txEvent # NoTx => txfSequence < sequence

-----------------------------------------------------------------------------
LEMMA FailLeavesTx ==
    ASSUME NEW err, Fail(err)
    PROVE  txEvent' = NoTx /\ pc' \in {"prepare", "top"}
BY DEF Fail, Answer

LEMMA PreparedTx ==
    ASSUME PrepareTx, ~ \E err : Fail(err)
    PROVE  /\ tx'.sequence = txfSequence
           /\ pc' = "submit" /\ UNCHANGED <<txfSequence, txEvent>>
<1>1. /\ \E fee \in Fees : tx' = [sequence |-> txfSequence, calls |-> Range(taken), msgs |-> retryMsgs,
                                  batched |-> batched, fee |-> fee]
      /\ pc' = "submit" /\ UNCHANGED <<call, taken, retryMsgs, attempt, txfSequence, txEvent, excluded>>
  BY Zenon DEF PrepareTx
<1> QED
  BY <1>1

LEMMA MaxOfTwo ==
    ASSUME NEW m \in Nat, NEW n \in Nat
    PROVE  Max({m, n}) \in Nat /\ Max({m, n}) >= n
<1>1. \E x \in {m, n} : \A y \in {m, n} : x >= y
  OBVIOUS
<1> QED
  BY <1>1 DEF Max

LEMMA SequenceStep ==
    ASSUME SequenceInv, [Next]_vars
    PROVE  SequenceInv'
<1> USE DEF SequenceInv
<1>1. ASSUME NEW c \in Callers, Broadcast(c) \/ Expire(c)
      PROVE  SequenceInv'
  BY <1>1 DEF Broadcast, Expire, nodeVars, refundVars
<1>2. CASE CheckTraffic \/ Pop \/ FillBatch \/ prepareFactory
  BY <1>2 DEF CheckTraffic, Pop, FillBatch, prepareFactory, nodeVars, refundVars
<1>3. CASE PrepareTx
  <2>1. CASE ~ \E err : Fail(err)
    BY <1>3, <2>1, PreparedTx DEF PrepareTx, refundVars
  <2>2. CASE \E err : Fail(err)
    BY <1>3, <2>2, FailLeavesTx DEF PrepareTx, refundVars
  <2> QED
    BY <2>1, <2>2
<1>4. CASE BroadcastTx
  BY <1>4, FailLeavesTx DEF BroadcastTx, refundVars
<1>5. CASE waitForBlockInclusion
  BY <1>5, FailLeavesTx DEF waitForBlockInclusion, Answer, Timeout, refundVars
<1>6. ASSUME NEW t \in network, NEW bad, NEW balance, NEW outcome,
             IncludeTx(t, bad, balance, outcome)
      PROVE  SequenceInv'
  <2>1. sequence' = sequence + 1 /\ network' = {u \in network : u.sequence > sequence}
    BY <1>6 DEF IncludeTx, DeliverTx
  <2>2. network' = {}
    BY <2>1
  <2>3. checkSequence' \in Nat /\ checkSequence' >= sequence'
    BY <1>6, <2>1, MaxOfTwo DEF IncludeTx
  <2>4. txEvent' # NoTx => pc = "wait" /\ txfSequence < sequence'
    BY <1>6, <2>1 DEF IncludeTx
  <2> QED
    BY <1>6, <2>1, <2>2, <2>3, <2>4 DEF IncludeTx, clientVars
<1>7. CASE RestartNode
  BY <1>7 DEF RestartNode, clientVars, refundVars
<1>8. CASE UNCHANGED vars
  BY <1>8 DEF vars, clientVars, nodeVars, refundVars
<1> QED
  BY <1>1, <1>2, <1>3, <1>4, <1>5, <1>6, <1>7, <1>8 DEF Next, Goroutine

(* RetriesExclusive, for every instance: of the transactions that the      *)
(* stateful broadcaster has sent for a call and that can still be          *)
(* included, the account sequence lets one in, whatever timed out, was     *)
(* forgotten by the node or is included late.                              *)
THEOREM OneRetryIncluded == Spec => []RetriesExclusive
<1>1. Init => SequenceInv
  BY DEF Init, RefundsInit, SequenceInv
<1>2. SequenceInv => RetriesExclusive
  BY DEF SequenceInv, RetriesExclusive
<1> QED
  BY <1>1, <1>2, SequenceStep, PTL DEF Spec

-----------------------------------------------------------------------------
(* Least and last numbers.                                                 *)

Below == {p \in Nat \X Nat : p[1] < p[2]}

\* A non-empty set of naturals has a least element.
LEMMA LeastNatural ==
  ASSUME NEW S, S \subseteq Nat, S # {}
  PROVE  \E n \in S : \A m \in S : n <= m
<1>1. IsWellFoundedOn(Below, Nat)
  BY NatLessThanWellFounded DEF OpToRel, Below
<1>2. PICK n \in S : \A m \in S : ~(<<m, n>> \in Below)
  BY <1>1, WFMin, Zenon
<1>3. \A m, k \in Nat : m < k => <<m, k>> \in Below
  BY Zenon DEF Below
<1>4. \A m \in S : ~(m < n) /\ m \in Nat /\ n \in Nat
  BY <1>2, <1>3, Zenon
<1> QED
  BY <1>4

\* A non-empty set of indexes has a last element.
LEMMA LastIndex ==
  ASSUME NEW n \in Nat, NEW S, S \subseteq 1..n, S # {}
  PROVE  \E k \in S : \A l \in S : l <= k
<1> DEFINE T == {n - k : k \in S}
<1>0. \A k \in S : k \in 1..n /\ n - k \in Nat
  OBVIOUS
<1>1. T \subseteq Nat /\ T # {}
  BY <1>0, Zenon
<1>2. PICK d \in T : \A e \in T : d <= e
  BY <1>1, LeastNatural, Zenon
<1>3. PICK k \in S : d = n - k
  OBVIOUS
<1>4. \A l \in S : n - k <= n - l
  BY <1>2, <1>3, Zenon
<1> QED
  BY <1>0, <1>4

-----------------------------------------------------------------------------
(* Sums over finite sets.  Induction is by a smallest counterexample.      *)

\* Of some finite sets one is the smallest.
LEMMA SmallestSet ==
  ASSUME NEW F, F # {}, \A T \in F : IsFiniteSet(T)
  PROVE  \E T \in F : \A U \in F : Cardinality(T) <= Cardinality(U)
<1> DEFINE sizes == {Cardinality(T) : T \in F}
<1>1. sizes \subseteq Nat /\ sizes # {}
  BY FS_CardinalityType
<1>2. PICK n \in sizes : \A m \in sizes : n <= m
  BY <1>1, LeastNatural, Zenon
<1> QED
  BY <1>2

\* A smallest counterexample: induction over finite sets, stated for a set of sets.
LEMMA SmallestSubset ==
  ASSUME NEW S, IsFiniteSet(S), NEW F, F \subseteq SUBSET S, F # {}
  PROVE  \E T \in F : IsFiniteSet(T) /\ \A x \in T : T \ {x} \notin F
<1>1. \A T \in F : IsFiniteSet(T)
  BY FS_Subset
<1>2. PICK T \in F : \A U \in F : Cardinality(T) <= Cardinality(U)
  BY <1>1, SmallestSet
<1>3. \A x \in T : Cardinality(T \ {x}) = Cardinality(T) - 1 /\ Cardinality(T) \in Nat
  BY <1>1, FS_RemoveElement, FS_CardinalityType, Zenon
<1> QED
  BY <1>1, <1>2, <1>3

\* the element that a fold takes first
First(s) == CHOOSE x \in s : TRUE

\* g is the recursive function that the sum over S is read from
Sums(fun, S, g) ==
    g = [s \in SUBSET S |-> IF s = {} THEN 0 ELSE fun[First(s)] + g[s \ {First(s)}]]

\* What SumFunctionOnSet is defined as.
LEMMA SumIsChosen ==
  ASSUME NEW fun, NEW S
  PROVE  SumFunctionOnSet(fun, S) = (CHOOSE g : Sums(fun, S, g))[S]
  BY DEF SumFunctionOnSet, FoldFunctionOnSet, MapThenFoldSet, Sums, First

\* That element is one of the set.
LEMMA FirstIn == \A s : s # {} => First(s) \in s
  BY DEF First

\* The recursion has at most one solution, also on a smaller set.
LEMMA SumsUnique ==
  ASSUME NEW fun, NEW S, IsFiniteSet(S), NEW T, T \subseteq S, NEW g, NEW h,
         Sums(fun, S, g), Sums(fun, T, h)
  PROVE  \A s \in SUBSET T : g[s] = h[s]
<1> DEFINE bad == {s \in SUBSET T : g[s] # h[s]}
<1> SUFFICES ASSUME bad # {} PROVE FALSE
  OBVIOUS
<1>1. IsFiniteSet(T)
  BY FS_Subset
<1>2. PICK s \in bad : \A x \in s : s \ {x} \notin bad
  BY <1>1, SmallestSubset, Zenon
<1>3. s \in SUBSET T /\ s \in SUBSET S
  OBVIOUS
<1>4. g[s] = IF s = {} THEN 0 ELSE fun[First(s)] + g[s \ {First(s)}]
  BY <1>3, Zenon DEF Sums
<1>5. h[s] = IF s = {} THEN 0 ELSE fun[First(s)] + h[s \ {First(s)}]
  BY <1>3, Zenon DEF Sums
<1>6. s # {}
  BY <1>4, <1>5
<1>7. g[s \ {First(s)}] = h[s \ {First(s)}]
  BY <1>2, <1>3, <1>6, FirstIn
<1> QED
  BY <1>4, <1>5, <1>6, <1>7

\* The recursion has a solution.
LEMMA SumsExist ==
  ASSUME NEW fun, NEW S, IsFiniteSet(S)
  PROVE  \E g : Sums(fun, S, g)
<1> DEFINE bad == {T \in SUBSET S : ~\E g : Sums(fun, T, g)}
<1> SUFFICES ASSUME bad # {} PROVE FALSE
  OBVIOUS
<1>1. PICK T \in bad : IsFiniteSet(T) /\ \A x \in T : T \ {x} \notin bad
  BY SmallestSubset, Zenon
<1>2. T \in SUBSET S /\ ~\E g : Sums(fun, T, g)
  OBVIOUS
<1>3. T # {}
  <2> SUFFICES ASSUME T = {} PROVE FALSE
    OBVIOUS
  <2> DEFINE g == [s \in SUBSET {} |-> 0]
  <2>1. Sums(fun, T, g)
    BY DEF Sums
  <2> QED
    BY <1>2, <2>1
<1> DEFINE x == First(T)
           Sol(U) == CHOOSE g : Sums(fun, U, g)
<1>4. x \in T
  BY <1>3, FirstIn
<1>5. ASSUME NEW U, U \subseteq T, U # T
      PROVE  Sums(fun, U, Sol(U))
  <2>1. PICK y \in T : U \subseteq T \ {y}
    BY <1>5
  <2>2. T \ {y} \in SUBSET S /\ T \ {y} \notin bad
    BY <1>1, <1>2
  <2>3. PICK h : Sums(fun, T \ {y}, h)
    BY <2>2
  <2> DEFINE k == [s \in SUBSET U |-> h[s]]
  <2>4. ASSUME NEW s \in SUBSET U
        PROVE  k[s] = IF s = {} THEN 0 ELSE fun[First(s)] + k[s \ {First(s)}]
    <3>1. s \in SUBSET (T \ {y}) /\ s \ {First(s)} \in SUBSET U
      BY <2>1
    <3>2. h[s] = IF s = {} THEN 0 ELSE fun[First(s)] + h[s \ {First(s)}]
      BY <2>3, <3>1, Zenon DEF Sums
    <3> QED
      BY <3>1, <3>2
  <2>5. k = [s \in SUBSET U |-> k[s]]
    OBVIOUS
  <2> HIDE DEF k
  <2>6. k = [s \in SUBSET U |-> IF s = {} THEN 0 ELSE fun[First(s)] + k[s \ {First(s)}]]
    BY <2>4, <2>5, Zenon
  <2>7. Sums(fun, U, k)
    BY <2>6, Zenon DEF Sums
  <2> QED
    BY <2>7
<1> DEFINE V(U) == Sol(U)[U]
           g == [s \in SUBSET T |-> IF s = {} THEN 0 ELSE fun[First(s)] + V(s \ {First(s)})]
<1>6. ASSUME NEW U, U \subseteq T, U # T
      PROVE  V(U) = IF U = {} THEN 0 ELSE fun[First(U)] + V(U \ {First(U)})
  <2>1. Sums(fun, U, Sol(U)) /\ IsFiniteSet(U)
    BY <1>1, <1>5, <1>6, FS_Subset
  <2> HIDE DEF Sol
  <2>2. Sol(U)[U] = IF U = {} THEN 0 ELSE fun[First(U)] + Sol(U)[U \ {First(U)}]
    BY <2>1, Zenon DEF Sums
  <2>3. CASE U # {}
    <3> DEFINE W == U \ {First(U)}
    <3>1. W \subseteq U /\ W \subseteq T /\ W # T
      BY <1>6
    <3>2. Sums(fun, W, Sol(W))
      BY <1>5, <3>1
    <3> HIDE DEF W
    <3>3. Sol(U)[W] = Sol(W)[W]
      BY <2>1, <3>1, <3>2, SumsUnique
    <3> QED
      BY <2>2, <2>3, <3>3 DEF W
  <2> QED
    BY <2>2, <2>3
<1> HIDE DEF V
<1>7. ASSUME NEW s \in SUBSET T
      PROVE  g[s] = IF s = {} THEN 0 ELSE fun[First(s)] + g[s \ {First(s)}]
  <2>1. CASE s # {}
    <3> DEFINE u == s \ {First(s)}
    <3>1. u \subseteq T /\ u # T /\ u \in SUBSET T
      BY <2>1, FirstIn
    <3>2. V(u) = IF u = {} THEN 0 ELSE fun[First(u)] + V(u \ {First(u)})
      BY <1>6, <3>1, Zenon
    <3> HIDE DEF u
    <3>3. g[u] = V(u)
      BY <3>1, <3>2
    <3>4. g[s] = fun[First(s)] + V(u)
      BY <2>1 DEF u
    <3> QED
      BY <2>1, <3>3, <3>4 DEF u
  <2> QED
    BY <2>1
<1>8. g = [s \in SUBSET T |-> g[s]]
  OBVIOUS
<1> HIDE DEF g
<1>9. g = [s \in SUBSET T |-> IF s = {} THEN 0 ELSE fun[First(s)] + g[s \ {First(s)}]]
  BY <1>7, <1>8, Zenon
<1>10. Sums(fun, T, g)
  BY <1>9, Zenon DEF Sums
<1> QED
  BY <1>2, <1>10

\* The sum over a set: zero, or one element and the sum of the others.
LEMMA SumStep ==
  ASSUME NEW fun, NEW S, IsFiniteSet(S)
  PROVE  SumFunctionOnSet(fun, S) =
            IF S = {} THEN 0 ELSE fun[First(S)] + SumFunctionOnSet(fun, S \ {First(S)})
<1> DEFINE Sol(U) == CHOOSE g : Sums(fun, U, g)
           T == S \ {First(S)}
<1>1. IsFiniteSet(T) /\ T \subseteq S
  BY FS_Subset
<1>2. Sums(fun, S, Sol(S)) /\ Sums(fun, T, Sol(T))
  BY <1>1, SumsExist
<1>3. SumFunctionOnSet(fun, S) = Sol(S)[S] /\ SumFunctionOnSet(fun, T) = Sol(T)[T]
  BY SumIsChosen
<1> HIDE DEF Sol, T
<1>4. Sol(S)[T] = Sol(T)[T]
  BY <1>1, <1>2, SumsUnique
<1>5. Sol(S)[S] = IF S = {} THEN 0 ELSE fun[First(S)] + Sol(S)[T]
  BY <1>2, Zenon DEF Sums, T
<1> QED
  BY <1>3, <1>4, <1>5 DEF T

\* The empty sum is zero.
LEMMA SumEmpty == \A fun : SumFunctionOnSet(fun, {}) = 0
  BY SumStep, FS_EmptySet, Zenon

\* A sum of naturals is a natural.
LEMMA SumType ==
  ASSUME NEW fun, NEW S, IsFiniteSet(S), \A x \in S : fun[x] \in Nat
  PROVE  SumFunctionOnSet(fun, S) \in Nat
<1> DEFINE bad == {T \in SUBSET S : SumFunctionOnSet(fun, T) \notin Nat}
<1> SUFFICES ASSUME bad # {} PROVE FALSE
  OBVIOUS
<1>1. PICK T \in bad : IsFiniteSet(T) /\ \A x \in T : T \ {x} \notin bad
  BY SmallestSubset, Zenon
<1>2. T # {}
  BY SumEmpty
<1>3. First(T) \in T /\ First(T) \in S
  BY <1>2, FirstIn
<1>4. SumFunctionOnSet(fun, T \ {First(T)}) \in Nat
  BY <1>1, <1>3
<1>5. SumFunctionOnSet(fun, T) = fun[First(T)] + SumFunctionOnSet(fun, T \ {First(T)})
  BY <1>1, <1>2, SumStep
<1> QED
  BY <1>3, <1>4, <1>5

\* A sum of zeros is zero.
LEMMA SumOfZeros ==
  ASSUME NEW fun, NEW S, IsFiniteSet(S), \A x \in S : fun[x] = 0
  PROVE  SumFunctionOnSet(fun, S) = 0
<1> DEFINE bad == {T \in SUBSET S : SumFunctionOnSet(fun, T) # 0}
<1> SUFFICES ASSUME bad # {} PROVE FALSE
  OBVIOUS
<1>1. PICK T \in bad : IsFiniteSet(T) /\ \A x \in T : T \ {x} \notin bad
  BY SmallestSubset, Zenon
<1>2. T # {}
  BY SumEmpty
<1>3. First(T) \in T /\ First(T) \in S
  BY <1>2, FirstIn
<1>4. SumFunctionOnSet(fun, T \ {First(T)}) = 0
  BY <1>1, <1>3
<1>5. SumFunctionOnSet(fun, T) = fun[First(T)] + SumFunctionOnSet(fun, T \ {First(T)})
  BY <1>1, <1>2, SumStep
<1> QED
  BY <1>3, <1>4, <1>5

\* A sum of naturals changes with one value.
LEMMA SumChange ==
  ASSUME NEW S, IsFiniteSet(S), NEW f \in [S -> Nat], NEW g \in [S -> Nat], NEW x \in S,
         \A y \in S : y # x => g[y] = f[y]
  PROVE  SumFunctionOnSet(g, S) + f[x] = SumFunctionOnSet(f, S) + g[x]
<1> DEFINE Diff(T) == IF x \in T THEN g[x] - f[x] ELSE 0
           bad == {T \in SUBSET S : SumFunctionOnSet(g, T) # SumFunctionOnSet(f, T) + Diff(T)}
<1>1. bad = {}
  <2> SUFFICES ASSUME bad # {} PROVE FALSE
    OBVIOUS
  <2>1. PICK T \in bad : IsFiniteSet(T) /\ \A y \in T : T \ {y} \notin bad
    BY SmallestSubset, Zenon
  <2>2. T # {}
    <3>1. SumFunctionOnSet(f, {}) = 0 /\ SumFunctionOnSet(g, {}) = 0
      BY SumEmpty
    <3>2. Diff({}) = 0
      OBVIOUS
    <3>3. SumFunctionOnSet(g, {}) = SumFunctionOnSet(f, {}) + Diff({})
      BY <3>1, <3>2
    <3> HIDE DEF Diff
    <3> QED
      BY <3>3
  <2> DEFINE y == First(T)
             U == T \ {y}
  <2>3. y \in T /\ y \in S /\ U \in SUBSET S
    BY <2>2, FirstIn
  <2>4. SumFunctionOnSet(g, U) = SumFunctionOnSet(f, U) + Diff(U)
    BY <2>1, <2>3
  <2>5. /\ SumFunctionOnSet(f, T) = f[y] + SumFunctionOnSet(f, U)
        /\ SumFunctionOnSet(g, T) = g[y] + SumFunctionOnSet(g, U)
    BY <2>1, <2>2, SumStep
  <2>6. SumFunctionOnSet(f, U) \in Nat
    BY <2>3, FS_Subset, SumType
  <2>7. SumFunctionOnSet(g, T) # SumFunctionOnSet(f, T) + Diff(T)
    OBVIOUS
  <2>8. g[y] + Diff(U) = f[y] + Diff(T)
    BY <2>3
  <2>9. Diff(U) \in Int /\ Diff(T) \in Int /\ f[y] \in Nat /\ g[y] \in Nat
    BY <2>3
  <2> HIDE DEF y, U, Diff
  <2> QED
    BY <2>4, <2>5, <2>6, <2>7, <2>8, <2>9
<1>2. SumFunctionOnSet(g, S) = SumFunctionOnSet(f, S) + (g[x] - f[x])
  BY <1>1
<1>3. SumFunctionOnSet(f, S) \in Nat
  BY SumType
<1> QED
  BY <1>2, <1>3

-----------------------------------------------------------------------------
(* The messages of a transaction, one after the other.                     *)

\* f has the states after the first n messages
Runs(state, msgs, bad, n, f) ==
    f = [k \in 0..n |-> IF k = 0 THEN state ELSE RunMsg(f[k - 1], msgs, k, bad)]

LEMMA RunsExist ==
  ASSUME NEW state, NEW msgs, NEW bad
  PROVE  \A n \in Nat : \E f : Runs(state, msgs, bad, n, f)
<1> DEFINE none == {n \in Nat : ~ \E f : Runs(state, msgs, bad, n, f)}
<1> SUFFICES ASSUME none # {} PROVE FALSE
  OBVIOUS
<1>1. PICK n \in none : \A m \in none : n <= m
  BY LeastNatural, Zenon
<1>2. n \in Nat /\ ~ \E f : Runs(state, msgs, bad, n, f)
  OBVIOUS
<1>3. CASE n = 0
  <2> DEFINE f == [k \in 0..0 |-> state]
  <2>1. f = [k \in 0..0 |-> IF k = 0 THEN state ELSE RunMsg(f[k - 1], msgs, k, bad)]
    OBVIOUS
  <2> QED
    BY <1>2, <1>3, <2>1, Zenon DEF Runs
<1>4. CASE n # 0
  <2>1. n - 1 \in Nat /\ n - 1 \notin none
    BY <1>1, <1>2, <1>4
  <2>2. PICK g : Runs(state, msgs, bad, n - 1, g)
    BY <2>1
  <2> DEFINE f == [k \in 0..n |-> IF k = n THEN RunMsg(g[n - 1], msgs, n, bad) ELSE g[k]]
  <2>3. ASSUME NEW k \in 0..n
        PROVE  f[k] = IF k = 0 THEN state ELSE RunMsg(f[k - 1], msgs, k, bad)
    <3>1. CASE k = n
      BY <1>2, <1>4, <3>1
    <3>2. CASE k # n
      <4>1. k \in 0..(n - 1)
        BY <1>2, <3>2
      <4>2. g[k] = IF k = 0 THEN state ELSE RunMsg(g[k - 1], msgs, k, bad)
        BY <2>2, <4>1, Zenon DEF Runs
      <4>3. k # 0 => k - 1 \in 0..n /\ k - 1 # n
        BY <1>2, <4>1
      <4> QED
        BY <3>2, <4>2, <4>3
    <3> QED
      BY <3>1, <3>2
  <2>4. f = [k \in 0..n |-> f[k]]
    OBVIOUS
  <2> HIDE DEF f
  <2>5. Runs(state, msgs, bad, n, f)
    BY <2>3, <2>4, Zenon DEF Runs
  <2> QED
    BY <1>2, <2>5
<1> QED
  BY <1>3, <1>4

\* The state after the last message comes from a run.
LEMMA RunOf ==
  ASSUME NEW state, NEW msgs, NEW bad, Len(msgs) \in Nat
  PROVE  \E f : /\ RunMsgs(state, msgs, bad) = f[Len(msgs)]
                /\ f[0] = state
                /\ \A k \in 1..Len(msgs) : f[k] = RunMsg(f[k - 1], msgs, k, bad)
<1> DEFINE f == CHOOSE g : Runs(state, msgs, bad, Len(msgs), g)
<1>1. RunMsgs(state, msgs, bad) = f[Len(msgs)]
  BY DEF RunMsgs, Runs
<1>2. Runs(state, msgs, bad, Len(msgs), f)
  BY RunsExist
<1> HIDE DEF f
<1>3. \A k \in 0..Len(msgs) : f[k] = IF k = 0 THEN state ELSE RunMsg(f[k - 1], msgs, k, bad)
  BY <1>2, Zenon DEF Runs
<1>4. 0 \in 0..Len(msgs) /\ \A k \in 1..Len(msgs) : k \in 0..Len(msgs) /\ k # 0
  OBVIOUS
<1> QED
  BY <1>1, <1>3, <1>4

-----------------------------------------------------------------------------
(* Refunds.                                                                *)

\* The shares make up the fee.
LEMMA Shares ==
  ASSUME NEW fee \in Nat, NEW n \in Nat, n > 0
  PROVE  \E q, r \in Nat : q = fee \div n /\ r = fee % n /\ fee = n * q + r
<1>1. fee % n \in Nat
  OBVIOUS
<1>2. fee \div n \in Int
  OBVIOUS
<1>3. fee \div n \in Nat
  OBVIOUS
<1>4. fee % n = fee - n * (fee \div n)
  BY SMTT(30)
<1>5. PICK q \in Nat, r \in Nat : q = fee \div n /\ r = fee % n
  BY <1>1, <1>3
<1>6. r = fee - n * q
  BY <1>4, <1>5
<1>7. fee = n * q + r
  BY <1>6
<1> QED
  BY <1>5, <1>7

\* The parts of messages that are still to run.
LEMMA Parts ==
  ASSUME NEW n \in Nat, NEW k \in 1..n, NEW q \in Nat
  PROVE  /\ (n - k) * q \in Nat
         /\ (n - (k - 1)) * q = (n - k) * q + q
<1>1. PICK d \in Nat : d = n - k
  OBVIOUS
<1>2. d * q \in Nat /\ (d + 1) * q = d * q + q
  OBVIOUS
<1>3. n - (k - 1) = d + 1
  BY <1>1
<1> QED
  BY <1>1, <1>2, <1>3

\* the last index of a request
LastOf(msgs, msg) == CHOOSE k \in DOMAIN msgs : msgs[k] = msg /\ \A l \in DOMAIN msgs : msgs[l] = msg => l <= k

\* what the fee collector still has of the fee when the first k messages have run
Left(fee, n, k) == IF k = 0 THEN fee ELSE (n - k) * (fee \div n)

RunState == [pending : [Msgs -> Nat], collector : Int, failed : SUBSET Nat, unpaid : BOOLEAN]

\* nothing is refunded beyond the fee, the refunds of other messages are not touched
RunInv(state, msgs, fee, balance, k) ==
    /\ state \in RunState
    /\ state.unpaid = FALSE
    /\ state.collector >= balance + Left(fee, Len(msgs), k)
    /\ \A msg \in Range(msgs) : \/ state.pending[msg] = 0
                                \/ state.pending[msg] = splitFeesEvenly(fee, Len(msgs), LastOf(msgs, msg))

\* The share of a message is not more than what it adds to what is left.
LEMMA ShareCovered ==
  ASSUME NEW msgs \in Seq(Msgs), NEW fee \in Nat, NEW k \in 1..Len(msgs)
  PROVE  LET share == splitFeesEvenly(fee, Len(msgs), LastOf(msgs, msgs[k]))
         IN  /\ share \in Nat
             /\ Left(fee, Len(msgs), k) \in Nat
             /\ Left(fee, Len(msgs), k) + share <= Left(fee, Len(msgs), k - 1)
<1>1. PICK n \in Nat : n = Len(msgs) /\ DOMAIN msgs = 1..n /\ k \in 1..n /\ n > 0
  OBVIOUS
<1>2. PICK last \in 1..n : last = LastOf(msgs, msgs[k]) /\ k <= last
  <2> DEFINE S == {l \in DOMAIN msgs : msgs[l] = msgs[k]}
  <2>1. S \subseteq 1..n /\ S # {}
    BY <1>1
  <2>2. \E l \in S : \A m \in S : m <= l
    BY <2>1, LastIndex, Zenon
  <2>3. \E l \in DOMAIN msgs : msgs[l] = msgs[k] /\ \A m \in DOMAIN msgs : msgs[m] = msgs[k] => m <= l
    BY <2>2
  <2>4. /\ LastOf(msgs, msgs[k]) \in DOMAIN msgs
        /\ \A m \in DOMAIN msgs : msgs[m] = msgs[k] => m <= LastOf(msgs, msgs[k])
    BY <2>3, Zenon DEF LastOf
  <2> QED
    BY <1>1, <2>4
<1>3. PICK q \in Nat, r \in Nat : q = fee \div n /\ r = fee % n /\ fee = n * q + r
  BY <1>1, Shares, Zenon
<1>4. (n - k) * q \in Nat /\ (n - (k - 1)) * q = (n - k) * q + q
  BY <1>1, Parts
<1>5. splitFeesEvenly(fee, n, last) = q + (IF last = 1 THEN r ELSE 0)
  BY <1>3 DEF splitFeesEvenly
<1>6. Left(fee, n, k) = (n - k) * q
  BY <1>1, <1>3 DEF Left
<1>7. CASE k = 1
  <2>1. Left(fee, n, k - 1) = fee
    BY <1>7 DEF Left
  <2>2. fee = (n - k) * q + q + r
    BY <1>3, <1>4, <1>7
  <2>3. PICK p \in Nat : p = (n - k) * q
    BY <1>4
  <2> QED
    BY <1>1, <1>2, <1>5, <1>6, <2>1, <2>2, <2>3
<1>8. CASE k # 1
  <2>1. Left(fee, n, k - 1) = (n - (k - 1)) * q
    BY <1>1, <1>3, <1>8 DEF Left
  <2>2. last # 1
    BY <1>2, <1>8
  <2>3. PICK p \in Nat : p = (n - k) * q
    BY <1>4
  <2> QED
    BY <1>1, <1>2, <1>4, <1>5, <1>6, <2>1, <2>2, <2>3
<1> QED
  BY <1>7, <1>8

\* What paying a refund changes.
LEMMA PaidRefund ==
  ASSUME NEW state \in RunState, NEW msg \in Msgs, state.pending[msg] \in Nat
  PROVE  /\ RefundMsg(state, msg) \in RunState
         /\ RefundMsg(state, msg).pending = [state.pending EXCEPT ![msg] = 0]
         /\ RefundMsg(state, msg).collector = state.collector - state.pending[msg]
         /\ RefundMsg(state, msg).unpaid = state.unpaid
<1>1. PICK new \in [Msgs -> Nat] : new = [state.pending EXCEPT ![msg] = 0]
  BY Zenon DEF RunState
<1>2. PICK rest \in Int : rest = state.collector - state.pending[msg]
  BY DEF RunState
<1>3. RefundMsg(state, msg) = [state EXCEPT !.collector = rest, !.pending = new]
  BY Zenon, <1>1, <1>2 DEF RefundMsg
<1>4. LET end == [state EXCEPT !.collector = rest, !.pending = new]
      IN  end \in RunState /\ end.pending = new /\ end.collector = rest /\ end.unpaid = state.unpaid
  BY Zenon DEF RunState
<1> QED
  BY <1>1, <1>2, <1>3, <1>4

\* A message takes no more than its share, and its refund can be paid.
LEMMA RunStep ==
  ASSUME NEW msgs \in Seq(Msgs), NEW fee \in Nat, NEW balance \in Nat, NEW bad, NEW k \in 1..Len(msgs),
         NEW state, RunInv(state, msgs, fee, balance, k - 1)
  PROVE  RunInv(RunMsg(state, msgs, k, bad), msgs, fee, balance, k)
<1> DEFINE share == splitFeesEvenly(fee, Len(msgs), LastOf(msgs, msgs[k]))
           left == Left(fee, Len(msgs), k)
           before == Left(fee, Len(msgs), k - 1)
<1>1. share \in Nat /\ left \in Nat /\ left + share <= before
  BY ShareCovered
<1>2. before \in Int /\ before >= left
  <2>1. k - 1 = 0 \/ k - 1 \in 1..Len(msgs)
    OBVIOUS
  <2>2. before \in Int
    BY <2>1, ShareCovered DEF Left
  <2> QED
    BY <1>1, <2>2
<1>3. msgs[k] \in Msgs /\ msgs[k] \in Range(msgs) /\ Range(msgs) \subseteq Msgs
  BY DEF Range
<1> HIDE DEF share, left, before
<1>4. /\ state \in RunState
      /\ state.unpaid = FALSE
      /\ state.collector \in Int /\ state.collector >= balance + before
      /\ \A msg \in Range(msgs) : \/ state.pending[msg] = 0
                                  \/ state.pending[msg] = splitFeesEvenly(fee, Len(msgs), LastOf(msgs, msg))
  BY DEF RunInv, RunState, before
<1>5. PICK refund : refund = state.pending[msgs[k]]
  OBVIOUS
<1>6. state.collector >= balance + left
  BY <1>1, <1>2, <1>4
<1>7. CASE k \in bad
  <2> DEFINE end == [state EXCEPT !.failed = @ \cup {k}]
  <2>1. RunMsg(state, msgs, k, bad) = end
    BY <1>7 DEF RunMsg
  <2>2. end \in RunState /\ end.pending = state.pending /\ end.collector = state.collector /\ end.unpaid = state.unpaid
    <3>1. k \in Nat
      OBVIOUS
    <3> QED
      BY <1>4, <3>1, Zenon DEF RunState
  <2> HIDE DEF end
  <2> QED
    BY <1>4, <1>6, <2>1, <2>2 DEF RunInv, left
<1>8. CASE k \notin bad
  <2>1. refund \in Nat /\ refund <= share
    BY <1>1, <1>3, <1>4, <1>5 DEF share
  <2>2. refund <= state.collector
    BY <1>1, <1>2, <1>4, <2>1
  <2>3. RunMsg(state, msgs, k, bad) = RefundMsg(state, msgs[k])
    BY <1>5, <1>8, <2>2 DEF RunMsg
  <2>4. PICK end : end = RefundMsg(state, msgs[k])
    OBVIOUS
  <2>5. /\ end \in RunState /\ end.unpaid = state.unpaid
        /\ end.pending = [state.pending EXCEPT ![msgs[k]] = 0]
        /\ end.collector = state.collector - refund
    BY <1>3, <1>4, <1>5, <2>1, <2>4, PaidRefund, Zenon
  <2>6. end.collector >= balance + left
    BY <1>1, <1>2, <1>4, <2>1, <2>5
  <2>7. state.pending \in [Msgs -> Nat]
    BY <1>4 DEF RunState
  <2>8. \A msg \in Range(msgs) : end.pending[msg] = 0 \/ end.pending[msg] = state.pending[msg]
    BY <1>3, <2>5, <2>7
  <2> QED
    BY <1>4, <2>3, <2>4, <2>5, <2>6, <2>8 DEF RunInv, left
<1> QED
  BY <1>7, <1>8

\* With a fee every request has its share pending when the messages start to run.
LEMMA RunStart ==
  ASSUME NEW msgs \in Seq(Msgs), NEW fee \in Nat, fee > 0, NEW balance \in Nat,
         pending \in [Msgs -> Nat]
  PROVE  RunInv(AnteHandle(msgs, fee, balance), msgs, fee, balance, 0)
<1> DEFINE new == [msg \in Msgs |-> SetPendingRefund(pending, msgs, fee, msg)]
<1>1. Range(msgs) \subseteq Msgs /\ \A msg \in Range(msgs) : \E k \in 1..Len(msgs) : msgs[k] = msg
  BY DEF Range
<1>2. ASSUME NEW msg \in Range(msgs)
      PROVE  /\ SetPendingRefund(pending, msgs, fee, msg) = splitFeesEvenly(fee, Len(msgs), LastOf(msgs, msg))
             /\ splitFeesEvenly(fee, Len(msgs), LastOf(msgs, msg)) \in Nat
  <2>1. PICK k \in 1..Len(msgs) : msgs[k] = msg
    BY <1>1
  <2>2. splitFeesEvenly(fee, Len(msgs), LastOf(msgs, msg)) \in Nat
    BY <2>1, ShareCovered, Zenon
  <2> QED
    BY <2>2, Zenon DEF SetPendingRefund, LastOf
<1>3. \A msg \in Msgs : SetPendingRefund(pending, msgs, fee, msg) \in Nat
  <2> SUFFICES ASSUME NEW msg \in Msgs, msg \notin Range(msgs)
               PROVE  SetPendingRefund(pending, msgs, fee, msg) \in Nat
    BY <1>2
  <2> QED
    BY DEF SetPendingRefund
<1>4. new \in [Msgs -> Nat]
  BY <1>3
<1>5. \A msg \in Range(msgs) : new[msg] = splitFeesEvenly(fee, Len(msgs), LastOf(msgs, msg))
  BY <1>1, <1>2
<1>6. AnteHandle(msgs, fee, balance) = [pending |-> new, collector |-> balance + fee, failed |-> {}, unpaid |-> FALSE]
  <2>1. fee # 0
    OBVIOUS
  <2> QED
    BY <2>1, Zenon DEF AnteHandle
<1> HIDE DEF new
<1>7. Left(fee, Len(msgs), 0) = fee
  BY DEF Left
<1> QED
  BY <1>4, <1>5, <1>6, <1>7 DEF RunInv, RunState

\* When all messages have run, no more than the fee is refunded.
LEMMA RunEnd ==
  ASSUME NEW msgs \in Seq(Msgs), NEW fee \in Nat, fee > 0, NEW balance \in Nat, NEW bad,
         pending \in [Msgs -> Nat]
  PROVE  RunInv(RunMsgs(AnteHandle(msgs, fee, balance), msgs, bad), msgs, fee, balance, Len(msgs))
<1>1. PICK n \in Nat : n = Len(msgs)
  OBVIOUS
<1>2. PICK f : /\ RunMsgs(AnteHandle(msgs, fee, balance), msgs, bad) = f[n]
               /\ f[0] = AnteHandle(msgs, fee, balance)
               /\ \A k \in 1..n : f[k] = RunMsg(f[k - 1], msgs, k, bad)
  BY <1>1, RunOf
<1> DEFINE broken == {k \in 0..n : ~ RunInv(f[k], msgs, fee, balance, k)}
<1>3. broken = {}
  <2> SUFFICES ASSUME broken # {} PROVE FALSE
    OBVIOUS
  <2>1. broken \subseteq Nat
    OBVIOUS
  <2>2. PICK k \in broken : \A l \in broken : k <= l
    BY <2>1, LeastNatural, Zenon
  <2>3. k \in 0..n /\ ~ RunInv(f[k], msgs, fee, balance, k)
    OBVIOUS
  <2>4. k # 0
    BY <1>2, <2>3, RunStart
  <2>5. k - 1 \in 0..n /\ k - 1 \notin broken /\ k \in 1..n
    BY <2>2, <2>3, <2>4
  <2>6. RunInv(f[k - 1], msgs, fee, balance, k - 1)
    BY <2>5
  <2>7. RunInv(RunMsg(f[k - 1], msgs, k, bad), msgs, fee, balance, k)
    BY <1>1, <2>5, <2>6, RunStep
  <2> QED
    BY <1>2, <2>3, <2>5, <2>7
<1>4. n \in 0..n /\ n \notin broken
  BY <1>3
<1> QED
  BY <1>1, <1>2, <1>4

-----------------------------------------------------------------------------
(* Refunds over all transactions.                                          *)

\* what the fee collector has beyond the pending refunds
Excess(state) == state.collector - SumFunctionOnSet(state.pending, Msgs)

\* The sum of all pending refunds, and how one of them changes it.
LEMMA PendingSum ==
  ASSUME NEW old \in [Msgs -> Nat]
  PROVE  SumFunctionOnSet(old, Msgs) \in Nat
  BY RefundsAssumption, SumType

LEMMA PendingChange ==
  ASSUME NEW old \in [Msgs -> Nat], NEW new \in [Msgs -> Nat], NEW msg \in Msgs,
         \A m \in Msgs : m # msg => new[m] = old[m]
  PROVE  SumFunctionOnSet(new, Msgs) + old[msg] = SumFunctionOnSet(old, Msgs) + new[msg]
  BY RefundsAssumption, SumChange

\* A message changes nothing of it: a refund that is paid is not pending any more.
LEMMA ExcessStep ==
  ASSUME NEW msgs \in Seq(Msgs), NEW k \in 1..Len(msgs), NEW bad, NEW state \in RunState
  PROVE  RunMsg(state, msgs, k, bad) \in RunState /\ Excess(RunMsg(state, msgs, k, bad)) = Excess(state)
<1>1. msgs[k] \in Msgs /\ state.pending \in [Msgs -> Nat] /\ state.collector \in Int
  BY DEF RunState
<1>2. CASE RunMsg(state, msgs, k, bad) = [state EXCEPT !.failed = @ \cup {k}]
  BY <1>2 DEF RunState, Excess
<1>3. CASE RunMsg(state, msgs, k, bad) = [state EXCEPT !.failed = @ \cup {k}, !.unpaid = TRUE]
  <2>0. state.failed \in SUBSET Nat
    BY Zenon DEF RunState
  <2>a. k \in Nat
    OBVIOUS
  <2>1. PICK failed \in SUBSET Nat : failed = state.failed \cup {k}
    BY <2>0, <2>a, Zenon
  <2>2. PICK end : end = [state EXCEPT !.failed = failed, !.unpaid = TRUE]
    OBVIOUS
  <2>3. end \in RunState /\ end.pending = state.pending /\ end.collector = state.collector
    BY <2>2, Zenon DEF RunState
  <2>4. RunMsg(state, msgs, k, bad) = end
    BY <1>3, <2>1, <2>2, Zenon
  <2> QED
    BY <2>3, <2>4 DEF Excess
<1>4. CASE RunMsg(state, msgs, k, bad) = RefundMsg(state, msgs[k])
  <2>1. PICK end : end = RefundMsg(state, msgs[k])
    OBVIOUS
  <2>2. state.pending[msgs[k]] \in Nat
    BY <1>1
  <2>3. /\ end \in RunState
        /\ end.pending = [state.pending EXCEPT ![msgs[k]] = 0]
        /\ end.collector = state.collector - state.pending[msgs[k]]
    BY <1>1, <2>1, <2>2, PaidRefund, Zenon
  <2>4. PICK old \in [Msgs -> Nat], new \in [Msgs -> Nat] : old = state.pending /\ new = end.pending
    BY <1>1, <2>3, Zenon DEF RunState
  <2>5. new[msgs[k]] = 0 /\ \A m \in Msgs : m # msgs[k] => new[m] = old[m]
    BY <1>1, <2>3, <2>4
  <2>6. SumFunctionOnSet(new, Msgs) + old[msgs[k]] = SumFunctionOnSet(old, Msgs) + new[msgs[k]]
    BY <1>1, <2>5, PendingChange, Zenon
  <2>7. SumFunctionOnSet(new, Msgs) \in Nat /\ SumFunctionOnSet(old, Msgs) \in Nat
    BY PendingSum
  <2>8. Excess(end) = Excess(state)
    BY <1>1, <2>2, <2>3, <2>4, <2>5, <2>6, <2>7 DEF Excess
  <2> QED
    BY <1>4, <2>1, <2>3, <2>8
<1> QED
  BY <1>2, <1>3, <1>4, Zenon DEF RunMsg

\* Nor do all messages.
LEMMA ExcessEnd ==
  ASSUME NEW msgs \in Seq(Msgs), NEW bad, NEW state \in RunState
  PROVE  RunMsgs(state, msgs, bad) \in RunState /\ Excess(RunMsgs(state, msgs, bad)) = Excess(state)
<1>1. PICK n \in Nat : n = Len(msgs)
  OBVIOUS
<1>2. PICK f : /\ RunMsgs(state, msgs, bad) = f[n]
               /\ f[0] = state
               /\ \A k \in 1..n : f[k] = RunMsg(f[k - 1], msgs, k, bad)
  BY <1>1, RunOf
<1> DEFINE Good(k) == f[k] \in RunState /\ Excess(f[k]) = Excess(state)
           broken == {k \in 0..n : ~Good(k)}
<1>3. broken = {}
  <2> SUFFICES ASSUME broken # {} PROVE FALSE
    OBVIOUS
  <2>1. broken \subseteq Nat
    OBVIOUS
  <2>2. PICK k \in broken : \A l \in broken : k <= l
    BY <2>1, LeastNatural, Zenon
  <2>3. k \in 0..n /\ ~Good(k)
    OBVIOUS
  <2>4. k # 0
    BY <1>2, <2>3
  <2>5. k - 1 \in 0..n /\ k - 1 \notin broken /\ k \in 1..n
    BY <2>2, <2>3, <2>4
  <2>6. Good(k - 1)
    BY <2>5
  <2>7. LET end == RunMsg(f[k - 1], msgs, k, bad) IN end \in RunState /\ Excess(end) = Excess(f[k - 1])
    BY <1>1, <2>5, <2>6, ExcessStep
  <2> QED
    BY <1>2, <2>3, <2>5, <2>6, <2>7
<1>4. n \in 0..n /\ n \notin broken
  BY <1>3
<1> QED
  BY <1>2, <1>4

\* The shares of a fee add no more than the fee to what is pending: it is used up from
\* message to message, with the requests of the first k messages set.
LEMMA SharesAdd ==
  ASSUME NEW msgs \in Seq(Msgs), NEW fee \in Nat, pending \in [Msgs -> Nat],
         NEW new \in [Msgs -> Nat],
         \A msg \in Range(msgs) : new[msg] = splitFeesEvenly(fee, Len(msgs), LastOf(msgs, msg)),
         \A msg \in Msgs \ Range(msgs) : new[msg] = pending[msg]
  PROVE  SumFunctionOnSet(new, Msgs) <= SumFunctionOnSet(pending, Msgs) + fee
<1>1. PICK n \in Nat : n = Len(msgs) /\ DOMAIN msgs = 1..n
  OBVIOUS
<1>2. IsFiniteSet(Msgs)
  BY RefundsAssumption
<1>3. Range(msgs) \subseteq Msgs /\ \A msg \in Range(msgs) : \E k \in 1..n : msgs[k] = msg
  BY <1>1 DEF Range
<1> DEFINE Upto(k) == {msgs[l] : l \in 1..k}
           Set(k) == [msg \in Msgs |-> IF msg \in Upto(k) THEN new[msg] ELSE pending[msg]]
           Total(k) == SumFunctionOnSet(Set(k), Msgs)
           total == SumFunctionOnSet(pending, Msgs)
           Good(k) == Total(k) + Left(fee, n, k) <= total + fee
           broken == {k \in 0..n : ~Good(k)}
<1>4. \A k \in 0..n : Set(k) \in [Msgs -> Nat]
  OBVIOUS
<1>5. total \in Nat /\ \A k \in 0..n : Total(k) \in Nat
  <2>1. ASSUME NEW h \in [Msgs -> Nat] PROVE SumFunctionOnSet(h, Msgs) \in Nat
    BY <1>2, SumType
  <2> HIDE DEF Set
  <2> QED
    BY <1>4, <2>1
<1>6. Good(0)
  <2>1. Set(0) = pending
    OBVIOUS
  <2>2. Left(fee, n, 0) = fee
    BY DEF Left
  <2> QED
    BY <1>5, <2>1, <2>2
<1>7. ASSUME NEW k \in 1..n, Good(k - 1)
      PROVE  Good(k)
  <2>1. PICK share \in Nat : share = new[msgs[k]] /\ Left(fee, n, k) \in Nat
                             /\ Left(fee, n, k) + share <= Left(fee, n, k - 1)
    <3>1. new[msgs[k]] = splitFeesEvenly(fee, Len(msgs), LastOf(msgs, msgs[k]))
      BY <1>1, Zenon DEF Range
    <3> QED
      BY <1>1, <3>1, ShareCovered, Zenon
  <2>2. msgs[k] \in Msgs /\ k \in 0..n /\ k - 1 \in 0..n
    BY <1>1
  <2>3. Upto(k) = Upto(k - 1) \cup {msgs[k]}
    <3>1. 1..k = 1..(k - 1) \cup {k}
      OBVIOUS
    <3> QED
      BY <3>1, Zenon
  <2> HIDE DEF Upto
  <2>4. PICK old \in [Msgs -> Nat], next \in [Msgs -> Nat] : old = Set(k - 1) /\ next = Set(k)
    BY <1>4, <2>2, Zenon
  <2>5. next[msgs[k]] = share /\ \A m \in Msgs : m # msgs[k] => next[m] = old[m]
    BY <2>1, <2>2, <2>3, <2>4, Zenon
  <2>6. /\ SumFunctionOnSet(next, Msgs) + old[msgs[k]] = SumFunctionOnSet(old, Msgs) + next[msgs[k]]
        /\ SumFunctionOnSet(next, Msgs) \in Nat /\ SumFunctionOnSet(old, Msgs) \in Nat /\ old[msgs[k]] \in Nat
    BY <2>2, <2>5, PendingChange, PendingSum, Zenon
  <2>7. Left(fee, n, k - 1) \in Int
    <3>1. k - 1 = 0 \/ k - 1 \in 1..n
      OBVIOUS
    <3>2. k - 1 = 0 => Left(fee, n, k - 1) = fee
      BY DEF Left
    <3>3. \A j \in 1..n : Left(fee, n, j) \in Nat
      BY <1>1, ShareCovered, Zenon
    <3>4. PICK j \in 0..n : j = k - 1
      BY <2>2
    <3> QED
      BY <3>1, <3>2, <3>3, <3>4
  <2>8. SumFunctionOnSet(old, Msgs) + Left(fee, n, k - 1) <= total + fee
    BY <1>7, <2>4
  <2>9. SumFunctionOnSet(next, Msgs) + Left(fee, n, k) <= total + fee
    <3>1. total + fee \in Int /\ next[msgs[k]] \in Nat
      BY <1>5, <2>1, <2>5
    <3>2. Left(fee, n, k) + next[msgs[k]] <= Left(fee, n, k - 1)
      BY <2>1, <2>5, Zenon
    <3>3. Left(fee, n, k) \in Int
      BY <2>1
    <3> HIDE DEF total
    <3>4. PICK l \in Int, r \in Int, t \in Int : l = Left(fee, n, k) /\ r = Left(fee, n, k - 1) /\ t = total + fee
      BY <2>7, <3>1, <3>3, Zenon
    <3>5. PICK a \in Nat, b \in Nat, c \in Nat, d \in Nat :
              /\ a = SumFunctionOnSet(next, Msgs) /\ c = SumFunctionOnSet(old, Msgs)
              /\ b = old[msgs[k]] /\ d = next[msgs[k]]
      BY <2>6, <3>1, Zenon
    <3>6. a + b = c + d /\ l + d <= r /\ c + r <= t
      BY <2>6, <2>8, <3>2, <3>4, <3>5, Zenon
    <3>7. a + l <= t
      BY <3>6
    <3> QED
      BY <3>4, <3>5, <3>7, Zenon
  <2> QED
    BY <2>4, <2>9
<1> HIDE DEF Good
<1>8. broken = {}
  <2> SUFFICES ASSUME broken # {} PROVE FALSE
    OBVIOUS
  <2>1. broken \subseteq Nat
    OBVIOUS
  <2>2. PICK k \in broken : \A l \in broken : k <= l
    BY <2>1, LeastNatural, Zenon
  <2>3. k \in 0..n /\ ~Good(k) /\ k # 0
    BY <1>6
  <2>4. k - 1 \in 0..n /\ k - 1 \notin broken /\ k \in 1..n
    BY <2>2, <2>3
  <2> QED
    BY <1>7, <2>3, <2>4
<1>9. Good(n) /\ n \in 0..n
  BY <1>8
<1>10. Set(n) = new
  <2>1. Upto(n) = Range(msgs)
    BY <1>1 DEF Range
  <2> QED
    BY <2>1
<1>11. Left(fee, n, n) \in Nat
  <2>1. n = 0 \/ n \in 1..n
    OBVIOUS
  <2>2. n = 0 => Left(fee, n, n) = fee
    BY DEF Left
  <2> QED
    BY <1>1, <2>1, <2>2, ShareCovered, Zenon
<1>12. Total(n) = SumFunctionOnSet(new, Msgs)
  BY <1>10, Zenon
<1> HIDE DEF Total
<1> QED
  BY <1>5, <1>9, <1>11, <1>12 DEF Good

\* The fee covers what the ante handler adds to the pending refunds.
LEMMA AnteExcess ==
  ASSUME NEW msgs \in Seq(Msgs), NEW fee \in Nat, NEW balance \in Nat, pending \in [Msgs -> Nat]
  PROVE  /\ AnteHandle(msgs, fee, balance) \in RunState
         /\ Excess(AnteHandle(msgs, fee, balance)) >= balance - SumFunctionOnSet(pending, Msgs)
<1>1. PICK ante : ante = AnteHandle(msgs, fee, balance)
  OBVIOUS
<1>2. ante.collector = balance + fee
  BY <1>1 DEF AnteHandle
<1>3. CASE fee = 0
  <2>1. ante \in RunState /\ ante.pending = pending
    BY <1>1, <1>3 DEF AnteHandle, RunState
  <2>2. SumFunctionOnSet(pending, Msgs) \in Nat
    BY RefundsAssumption, SumType
  <2> QED
    BY <1>1, <1>2, <1>3, <2>1, <2>2 DEF Excess
<1>4. CASE fee > 0
  <2>1. RunInv(ante, msgs, fee, balance, 0)
    BY <1>1, <1>4, RunStart
  <2>2. ante \in RunState /\ ante.pending \in [Msgs -> Nat]
    BY <2>1 DEF RunInv, RunState
  <2>3. ante.pending = [msg \in Msgs |-> SetPendingRefund(pending, msgs, fee, msg)]
    BY <1>1, <1>4 DEF AnteHandle
  <2>4. \A msg \in Msgs \ Range(msgs) : ante.pending[msg] = pending[msg]
    BY <2>3 DEF SetPendingRefund
  <2>5. \A msg \in Range(msgs) : ante.pending[msg] = splitFeesEvenly(fee, Len(msgs), LastOf(msgs, msg))
    <3>1. Range(msgs) \subseteq Msgs
      BY DEF Range
    <3> QED
      BY <2>3, <3>1, Zenon DEF SetPendingRefund, LastOf
  <2>6. SumFunctionOnSet(ante.pending, Msgs) <= SumFunctionOnSet(pending, Msgs) + fee
    BY <2>2, <2>4, <2>5, SharesAdd, Zenon
  <2>7. SumFunctionOnSet(pending, Msgs) \in Nat /\ SumFunctionOnSet(ante.pending, Msgs) \in Nat
    BY <2>2, RefundsAssumption, SumType
  <2> QED
    BY <1>1, <1>2, <2>2, <2>6, <2>7 DEF Excess
<1> QED
  BY <1>3, <1>4

\* A transaction with a fee is not refunded more than the fee, and what is pending after
\* any transaction is covered, whatever its outcome.
Covered == SumFunctionOnSet(pending, Msgs) <= kept

LEMMA DeliverCovered ==
  ASSUME NEW msgs \in Seq(Msgs), NEW batch, NEW fee \in Nat, NEW bad, NEW balance \in Nat, NEW outcome,
         pending \in [Msgs -> Nat], kept \in Int, Covered, ~exceeded,
         DeliverTx(msgs, batch, fee, bad, balance, outcome)
  PROVE  pending' \in [Msgs -> Nat] /\ kept' \in Int /\ Covered' /\ ~exceeded'
<1>1. PICK ante : /\ ante = AnteHandle(msgs, fee, balance) /\ ante \in RunState
                  /\ Excess(ante) >= balance - SumFunctionOnSet(pending, Msgs)
  BY AnteExcess
<1>2. PICK end : end = RunMsgs(ante, msgs, bad) /\ end \in RunState /\ Excess(end) = Excess(ante)
  BY <1>1, ExcessEnd
<1>3. /\ exceeded' = (exceeded \/ (fee > 0 /\ (end.unpaid \/ end.collector < balance)))
      /\ \E state \in {ante, end} : pending' = state.pending /\ kept' = kept + state.collector - balance
  BY <1>1, <1>2, Zenon DEF DeliverTx
<1>4. ~exceeded'
  <2>1. CASE fee = 0
    <3>1. ~(fee > 0)
      BY <2>1
    <3> QED
      BY <1>3, <3>1, Zenon
  <2>2. CASE fee > 0
    <3>1. RunInv(end, msgs, fee, balance, Len(msgs))
      BY <1>1, <1>2, <2>2, RunEnd
    <3>2. Left(fee, Len(msgs), Len(msgs)) \in Nat
      <4>1. Len(msgs) = 0 \/ Len(msgs) \in 1..Len(msgs)
        OBVIOUS
      <4>2. Len(msgs) = 0 => Left(fee, Len(msgs), Len(msgs)) = fee
        BY DEF Left
      <4> QED
        BY <4>1, <4>2, ShareCovered, Zenon
    <3>3. end.collector \in Int /\ end.collector >= balance /\ end.unpaid = FALSE
      BY <3>1, <3>2 DEF RunInv, RunState
    <3>4. ~(end.collector < balance)
      BY <3>3
    <3> QED
      BY <1>3, <3>3, <3>4, Zenon
  <2> QED
    BY <2>1, <2>2
<1>5. PICK state \in {ante, end} : pending' = state.pending /\ kept' = kept + state.collector - balance
  BY <1>3
<1>6. state \in RunState /\ Excess(state) >= balance - SumFunctionOnSet(pending, Msgs)
  BY <1>1, <1>2
<1>7. pending' \in [Msgs -> Nat] /\ state.collector \in Int /\ kept' \in Int
  BY <1>5, <1>6 DEF RunState
<1>8. SumFunctionOnSet(pending, Msgs) \in Nat /\ SumFunctionOnSet(pending', Msgs) \in Nat
  BY <1>7, RefundsAssumption, SumType
<1>9. Excess(state) = state.collector - SumFunctionOnSet(pending', Msgs)
  BY <1>5 DEF Excess
<1>10. SumFunctionOnSet(pending', Msgs) <= kept'
  BY <1>5, <1>6, <1>7, <1>8, <1>9 DEF Covered
<1> QED
  BY <1>4, <1>7, <1>10 DEF Covered

(* What is sent are messages of calls; an outcome that names a message     *)
(* names one of those that were sent.                                      *)
RefundInv ==
    /\ backlog \in Seq(Callers) /\ retryMsgs \in Seq(Msgs)
    /\ pc \in {"submit", "wait"} => tx.msgs = retryMsgs /\ tx.fee \in Fees
    /\ \A t \in network : t.msgs \in Seq(Msgs) /\ t.fee \in Fees
    /\ txEvent # NoTx => pc = "wait"
    /\ txEvent # NoTx /\ txEvent.code = "msg" => txEvent.index \in DOMAIN retryMsgs
    /\ pending \in [Msgs -> Nat]
    /\ kept \in Int /\ Covered /\ ~exceeded

\* A retry sends the same messages, or all but the one that failed.
LEMMA FailKeepsMsgs ==
  ASSUME retryMsgs \in Seq(Msgs), NEW err, err.index = 0 \/ err.index \in DOMAIN retryMsgs, Fail(err)
  PROVE  retryMsgs' \in Seq(Msgs) /\ txEvent' = NoTx /\ pc' \in {"prepare", "top"}
<1>1. txEvent' = NoTx /\ pc' \in {"prepare", "top"}
  BY FailLeavesTx
<1>2. ASSUME err.index \in DOMAIN retryMsgs
      PROVE  Without(retryMsgs, err.index) \in Seq(Msgs)
  <2>1. PICK i \in 1..Len(retryMsgs) : i = err.index
    BY <1>2
  <2>2. Without(retryMsgs, i) = SubSeq(retryMsgs, 1, i - 1) \o SubSeq(retryMsgs, i + 1, Len(retryMsgs))
    BY DEF Without
  <2>3. SubSeq(retryMsgs, 1, i - 1) \in Seq(Msgs)
    OBVIOUS
  <2>4. SubSeq(retryMsgs, i + 1, Len(retryMsgs)) \in Seq(Msgs)
    OBVIOUS
  <2> QED
    BY <2>1, <2>2, <2>3, <2>4
<1>3. retryMsgs' = retryMsgs \/ (err.index # 0 /\ retryMsgs' = Without(retryMsgs, err.index))
  BY DEF Fail, Answer, CanExclude
<1> QED
  BY <1>1, <1>2, <1>3

\* The backlog, or a batch, with another call.
LEMMA AppendCall ==
  \A s \in Seq(Callers), c \in Callers :
      Append(s, c) \in Seq(Callers) /\ Range(Append(s, c)) = Range(s) \cup {c}
<1> SUFFICES ASSUME NEW s \in Seq(Callers), NEW c \in Callers
             PROVE  Append(s, c) \in Seq(Callers) /\ Range(Append(s, c)) = Range(s) \cup {c}
  OBVIOUS
<1> DEFINE t == Append(s, c)
<1>1. /\ t \in Seq(Callers) /\ Len(t) = Len(s) + 1
      /\ t[Len(t)] = c /\ \A i \in 1..Len(s) : t[i] = s[i]
  OBVIOUS
<1> HIDE DEF t
<1>2. \A i \in DOMAIN t : t[i] \in Range(s) \cup {c}
  BY <1>1 DEF Range
<1>3. \A x \in Range(s) \cup {c} : x \in Range(t)
  BY <1>1 DEF Range
<1>4. \A x \in Range(t) : x \in Range(s) \cup {c}
  BY <1>2, Zenon DEF Range
<1>5. Range(t) = Range(s) \cup {c}
  BY <1>3, <1>4, Zenon
<1> QED
  BY <1>1, <1>5, Zenon DEF t

LEMMA RefundStep ==
  ASSUME RefundInv, [Next]_vars
  PROVE  RefundInv'
<1> USE DEF RefundInv, Covered
<1>0. Fees \subseteq Nat /\ Balances \subseteq Nat /\ MsgsOf \in [Callers -> Seq(Msgs)]
  BY RefundsAssumption, BroadcasterAssumption
<1>1. ASSUME NEW c \in Callers, Broadcast(c) \/ Expire(c)
      PROVE  RefundInv'
  <2>1. backlog' = backlog \/ backlog' = Append(backlog, c)
    BY <1>1 DEF Broadcast, Expire
  <2>2. backlog' \in Seq(Callers)
    BY <2>1, AppendCall, Zenon
  <2>3. UNCHANGED <<pc, retryMsgs, tx, txEvent, network, pending, kept, exceeded>>
    BY <1>1, Zenon DEF Broadcast, Expire, nodeVars, refundVars
  <2> QED
    BY <2>2, <2>3
<1>2. ASSUME CheckTraffic \/ prepareFactory
      PROVE  RefundInv'
  <2>1. /\ UNCHANGED <<backlog, tx, txEvent, network, pending, kept, exceeded>>
        /\ pc' \notin {"submit", "wait"} /\ pc \notin {"submit", "wait"}
    BY <1>2 DEF CheckTraffic, prepareFactory, nodeVars, refundVars
  <2>2. retryMsgs' = retryMsgs \/ retryMsgs' = <<>>
    BY <1>2 DEF CheckTraffic, prepareFactory
  <2>3. <<>> \in Seq(Msgs) /\ retryMsgs \in Seq(Msgs)
    OBVIOUS
  <2>4. retryMsgs' \in Seq(Msgs)
    BY Zenon, <2>2, <2>3
  <2> QED
    BY <2>1, <2>4
<1>3. ASSUME Pop \/ FillBatch
      PROVE  RefundInv'
  <2>1. Head(backlog) \in Callers /\ Tail(backlog) \in Seq(Callers)
    BY <1>3 DEF Pop, FillBatch
  <2>2. MsgsOf[Head(backlog)] \in Seq(Msgs) /\ retryMsgs \o MsgsOf[Head(backlog)] \in Seq(Msgs)
    BY <1>0, <2>1
  <2>3. backlog' \in Seq(Callers) /\ retryMsgs' \in Seq(Msgs) /\ pc' \in {"prepare", "fill"} /\ pc \notin {"submit", "wait"}
    BY <1>3, <2>1, <2>2, Zenon DEF Pop, FillBatch
  <2>4. UNCHANGED <<txEvent, network, pending, kept, exceeded>> /\ txEvent = NoTx
    BY <1>3 DEF Pop, FillBatch, nodeVars, refundVars
  <2> QED
    BY <2>3, <2>4, Zenon
<1>4. CASE PrepareTx
  <2> DEFINE Prepared ==
                /\ \E fee \in Fees : tx' = [sequence |-> txfSequence, calls |-> Range(taken), msgs |-> retryMsgs,
                                            batched |-> batched, fee |-> fee]
                /\ pc' = "submit" /\ UNCHANGED <<retryMsgs, txEvent>>
  <2>0. UNCHANGED <<backlog, network, pending, kept, exceeded>> /\ pc = "simulate"
    BY <1>4, Zenon DEF PrepareTx, refundVars
  <2>1. CASE Prepared
    <3>1. tx'.msgs = retryMsgs /\ tx'.fee \in Fees /\ pc' = "submit" /\ UNCHANGED <<retryMsgs, txEvent>>
      BY <2>1
    <3> QED
      BY <2>0, <3>1, Zenon
  <2>2. CASE Fail(SdkErr("sequence"))
    BY <2>0, <2>2, FailKeepsMsgs DEF SdkErr
  <2>3. ASSUME NEW k \in DOMAIN retryMsgs, Fail([code |-> "msg", index |-> k, sdk |-> FALSE])
        PROVE  RefundInv'
    BY <2>0, <2>3, FailKeepsMsgs, Zenon
  <2> QED
    BY <1>4, <2>1, <2>2, <2>3, Zenon DEF PrepareTx
<1>5. CASE BroadcastTx
  <2>1. CASE Fail(SdkErr("sequence"))
    BY <1>5, <2>1, FailKeepsMsgs, Zenon DEF BroadcastTx, refundVars, SdkErr
  <2>2. CASE ~Fail(SdkErr("sequence"))
    BY <1>5, <2>2 DEF BroadcastTx, refundVars
  <2> QED
    BY <2>1, <2>2, Zenon
<1>6. CASE waitForBlockInclusion
  <2>1. retryMsgs' \in Seq(Msgs) /\ txEvent' = NoTx /\ pc' \in {"prepare", "top"}
    <3>1. CASE Answer("ok")
      BY <3>1, Zenon DEF Answer
    <3>2. ASSUME Fail([code |-> txEvent.code, index |-> IF txEvent.code = "msg" THEN txEvent.index ELSE 0, sdk |-> TRUE]),
                 txEvent # NoTx
          PROVE  retryMsgs' \in Seq(Msgs) /\ txEvent' = NoTx /\ pc' \in {"prepare", "top"}
      BY <3>2, FailKeepsMsgs
    <3>3. CASE Timeout
      BY <3>3, FailKeepsMsgs DEF Timeout, PlainErr
    <3> QED
      BY <1>6, <3>1, <3>2, <3>3 DEF waitForBlockInclusion
  <2> QED
    BY <1>6, <2>1 DEF waitForBlockInclusion, refundVars
<1>7. ASSUME NEW t \in network, NEW bad \in SUBSET DOMAIN t.msgs, NEW balance \in Balances,
             NEW outcome \in Outcomes(t.msgs), IncludeTx(t, bad, balance, outcome)
      PROVE  RefundInv'
  <2>1. DeliverTx(t.msgs, t.batched, t.fee, bad, balance, outcome)
    BY <1>7 DEF IncludeTx
  <2>2. t.msgs \in Seq(Msgs) /\ t.fee \in Nat /\ balance \in Nat
    BY <1>0, Zenon
  <2>3. pending' \in [Msgs -> Nat] /\ kept' \in Int /\ Covered' /\ ~exceeded'
    BY <2>1, <2>2, DeliverCovered, Zenon
  <2>4. outcome.code = "msg" => outcome.index \in DOMAIN t.msgs
    BY DEF Outcomes
  <2>5. network' \subseteq network /\ UNCHANGED clientVars
    BY <1>7 DEF IncludeTx
  <2>6. txEvent' = txEvent \/ (txEvent' = outcome /\ pc = "wait" /\ tx = t)
    BY <1>7 DEF IncludeTx
  <2> QED
    BY <2>3, <2>4, <2>5, <2>6, Zenon DEF clientVars
<1>8. CASE RestartNode
  BY <1>8 DEF RestartNode, clientVars, refundVars
<1>9. CASE UNCHANGED vars
  BY <1>9 DEF vars, clientVars, nodeVars, refundVars
<1> QED
  BY <1>1, <1>2, <1>3, <1>4, <1>5, <1>6, <1>7, <1>8, <1>9, Zenon DEF Next, Goroutine

LEMMA RefundInit == Init => RefundInv
<1> SUFFICES ASSUME Init
             PROVE  RefundInv
  OBVIOUS
<1>1. pending \in [Msgs -> Nat] /\ \A msg \in Msgs : pending[msg] = 0
  BY DEF Init, RefundsInit
<1>2. SumFunctionOnSet(pending, Msgs) = 0
  BY <1>1, RefundsAssumption, SumOfZeros
<1> QED
  BY <1>1, <1>2 DEF Init, RefundsInit, RefundInv, Covered

(* RefundsCovered, for every instance: the shares of splitFeesEvenly and   *)
(* the deletion of a pending refund keep what RefundMsg pays, also for     *)
(* repeated requests and for those left by a failed transaction, within    *)
(* the fee, so that the fee collector can pay whenever there is a fee; and *)
(* the sum of all pending refunds stays within the fees that are left.     *)
THEOREM FeesCoverRefunds == Spec => []RefundsCovered
<1>1. Init => RefundInv
  BY RefundInit
<1>2. RefundInv => RefundsCovered
  BY Zenon DEF RefundInv, Covered, RefundsCovered
<1> QED
  BY <1>1, <1>2, RefundStep, PTL DEF Spec

-----------------------------------------------------------------------------
(* Answers.                                                                *)

\* The messages that are sent are messages of every call of the transaction, all of them
\* but those that the node reported as failing; only a single call loses messages.
Carried ==
    \A c \in Range(taken) :
        /\ \A msg \in Range(MsgsOf[c]) : msg \in Range(retryMsgs) \/ <<c, msg>> \in excluded
        /\ \E msg \in Range(MsgsOf[c]) : msg \in Range(retryMsgs)
        /\ ~batched => Range(retryMsgs) \subseteq Range(MsgsOf[c])

(* A transaction is sent for all calls that are taken, and its success     *)
(* served all of them, before it is answered.                              *)
AnswerInv ==
    /\ call \in [Callers -> CallStates]
    /\ AnsweredWasServed
    /\ taken \in Seq(Callers)
    /\ pc \in {"submit", "wait"} => tx.calls = Range(taken)
    /\ txEvent # NoTx /\ txEvent.code = "ok" =>
          \A c \in Range(taken), msg \in Range(retryMsgs) : <<c, msg>> \in served
    /\ Carried

\* Of several messages one is left out, and no other.
LEMMA WithoutRange ==
  ASSUME NEW s \in Seq(Msgs), NEW k \in 1..Len(s), Len(s) > 1
  PROVE  /\ Range(Without(s, k)) \subseteq Range(s)
         /\ Range(s) \subseteq Range(Without(s, k)) \cup {s[k]}
         /\ \E msg : msg \in Range(Without(s, k))
<1> DEFINE t == Without(s, k)
<1>1. /\ DOMAIN t = 1..(Len(s) - 1)
      /\ \A i \in 1..(Len(s) - 1) : t[i] = s[IF i < k THEN i ELSE i + 1]
  <2> DEFINE a == SubSeq(s, 1, k - 1)
             b == SubSeq(s, k + 1, Len(s))
  <2>1. a \in Seq(Msgs) /\ Len(a) = k - 1 /\ \A i \in 1..(k - 1) : a[i] = s[i]
    OBVIOUS
  <2>2. b \in Seq(Msgs) /\ Len(b) = Len(s) - k /\ \A i \in 1..(Len(s) - k) : b[i] = s[i + k]
    OBVIOUS
  <2>3. t = a \o b
    BY DEF Without
  <2> HIDE DEF a, b
  <2>4. DOMAIN t = 1..(Len(s) - 1)
    BY <2>1, <2>2, <2>3
  <2>5. ASSUME NEW i \in 1..(Len(s) - 1)
        PROVE  t[i] = s[IF i < k THEN i ELSE i + 1]
    <3>1. CASE i < k
      BY <2>1, <2>2, <2>3, <3>1
    <3>2. CASE i >= k
      <4>1. i - (k - 1) \in 1..(Len(s) - k) /\ (i - (k - 1)) + k = i + 1
        BY <3>2
      <4>2. t[i] = b[i - (k - 1)]
        BY <2>1, <2>2, <2>3, <3>2
      <4> QED
        BY <2>1, <2>2, <3>2, <4>1, <4>2
    <3> QED
      BY <3>1, <3>2
  <2> QED
    BY <2>4, <2>5
<1> HIDE DEF t
<1>2. Range(t) \subseteq Range(s)
  BY <1>1 DEF Range
<1>3. ASSUME NEW i \in 1..Len(s), i # k
      PROVE  \E j \in DOMAIN t : t[j] = s[i]
  <2>1. CASE i < k
    BY <1>1, <2>1
  <2>2. CASE i > k
    <3>1. i - 1 \in 1..(Len(s) - 1) /\ ~(i - 1 < k) /\ (i - 1) + 1 = i
      BY <2>2
    <3> QED
      BY <1>1, <3>1, Zenon
  <2> QED
    BY <1>3, <2>1, <2>2
<1>4. Range(s) \subseteq Range(t) \cup {s[k]}
  BY <1>3 DEF Range
<1>5. t[1] \in Range(t)
  BY <1>1 DEF Range
<1> QED
  BY <1>2, <1>4, <1>5, Zenon DEF t

(* A failure is answered, but not with a response, or it is retried.       *)
LEMMA FailGivesNoResponse ==
  ASSUME call \in [Callers -> CallStates], NEW err, Fail(err)
  PROVE  /\ call' \in [Callers -> CallStates]
         /\ \A c \in Callers : call'[c] = "ok" => call[c] = "ok"
<1>1. CASE RetryOnError(err) /\ attempt < MaxRetries
  BY <1>1 DEF Fail
<1>2. CASE ~(RetryOnError(err) /\ attempt < MaxRetries)
  BY <1>2 DEF Fail, Answer, CallStates
<1> QED
  BY <1>1, <1>2

\* A call that has a response stays served.
LEMMA StaysServed ==
  ASSUME AnsweredWasServed, served \subseteq served', excluded \subseteq excluded',
         \A c \in Callers : call'[c] = "ok" => call[c] = "ok"
  PROVE  AnsweredWasServed'
  BY DEF AnsweredWasServed

\* A retry leaves out the message that failed, if it leaves out any.
LEMMA FailCarries ==
  ASSUME RefundInv, Carried, taken \in Seq(Callers), NEW err,
         err.index = 0 \/ err.index \in DOMAIN retryMsgs, Fail(err), UNCHANGED batched
  PROVE  Carried' /\ taken' = taken /\ excluded \subseteq excluded'
<1>1. taken' = taken
  BY DEF Fail, Answer
<1>2. CASE UNCHANGED <<retryMsgs, excluded>>
  BY <1>1, <1>2, Zenon DEF Carried
<1>3. CASE ~ UNCHANGED <<retryMsgs, excluded>>
  <2>1. /\ CanExclude(err)
        /\ retryMsgs' = Without(retryMsgs, err.index)
        /\ excluded' = excluded \cup (Range(taken) \X {retryMsgs[err.index]})
    BY <1>3, Zenon DEF Fail, Answer
  <2>2. PICK k \in 1..Len(retryMsgs) : k = err.index /\ Len(retryMsgs) > 1 /\ ~batched
    <3>1. err.index \in DOMAIN retryMsgs /\ Len(retryMsgs) > 1 /\ ~batched
      BY <2>1, Zenon DEF CanExclude
    <3>2. retryMsgs \in Seq(Msgs)
      BY Zenon DEF RefundInv
    <3>3. DOMAIN retryMsgs = 1..Len(retryMsgs)
      BY <3>2
    <3> QED
      BY <3>1, <3>3, Zenon
  <2>3. /\ Range(retryMsgs') \subseteq Range(retryMsgs)
        /\ Range(retryMsgs) \subseteq Range(retryMsgs') \cup {retryMsgs[k]}
        /\ \E msg : msg \in Range(retryMsgs')
    BY <2>1, <2>2, WithoutRange, Zenon DEF RefundInv
  <2>4. ASSUME NEW c \in Range(taken)
        PROVE  /\ \A msg \in Range(MsgsOf[c]) : msg \in Range(retryMsgs') \/ <<c, msg>> \in excluded'
               /\ \E msg \in Range(MsgsOf[c]) : msg \in Range(retryMsgs')
               /\ Range(retryMsgs') \subseteq Range(MsgsOf[c])
    <3>1. <<c, retryMsgs[k]>> \in excluded' /\ excluded \subseteq excluded'
      BY <2>1, <2>2
    <3>2. Range(retryMsgs) \subseteq Range(MsgsOf[c])
      BY <2>2 DEF Carried
    <3>3. \A msg \in Range(MsgsOf[c]) : msg \in Range(retryMsgs) \/ <<c, msg>> \in excluded
      BY DEF Carried
    <3>4. \A msg \in Range(MsgsOf[c]) : msg \in Range(retryMsgs') \/ <<c, msg>> \in excluded'
      BY <2>3, <3>1, <3>3
    <3> QED
      BY <2>3, <3>2, <3>4
  <2> QED
    BY <1>1, <2>1, <2>4, Zenon DEF Carried
<1> QED
  BY <1>1, <1>2, <1>3

\* What a failure does to the invariant.
LEMMA FailKeepsAnswers ==
  ASSUME RefundInv, AnswerInv, NEW err, err.index = 0 \/ err.index \in DOMAIN retryMsgs, Fail(err),
         UNCHANGED <<batched, served>>
  PROVE  AnswerInv'
<1>1. txEvent' = NoTx /\ pc' \in {"prepare", "top"}
  BY FailLeavesTx
<1>2. /\ call' \in [Callers -> CallStates]
      /\ \A c \in Callers : call'[c] = "ok" => call[c] = "ok"
  BY FailGivesNoResponse, Zenon DEF AnswerInv
<1>3. Carried' /\ taken' = taken /\ excluded \subseteq excluded'
  BY FailCarries DEF AnswerInv
<1>4. AnsweredWasServed'
  BY <1>2, <1>3, StaysServed DEF AnswerInv
<1> QED
  BY <1>1, <1>2, <1>3, <1>4 DEF AnswerInv

\* The messages of a batch are those of its calls.
LEMMA RangeOfBoth ==
  ASSUME NEW s \in Seq(Msgs), NEW t \in Seq(Msgs)
  PROVE  Range(s \o t) = Range(s) \cup Range(t)
<1>1. ASSUME NEW i \in DOMAIN (s \o t)
      PROVE  (s \o t)[i] \in Range(s) \cup Range(t)
  BY DEF Range
<1>2. ASSUME NEW i \in DOMAIN s
      PROVE  s[i] \in Range(s \o t)
  <2>1. i \in DOMAIN (s \o t) /\ (s \o t)[i] = s[i]
    OBVIOUS
  <2> QED
    BY <2>1, Zenon DEF Range
<1>3. ASSUME NEW i \in DOMAIN t
      PROVE  t[i] \in Range(s \o t)
  <2>1. Len(s) + i \in DOMAIN (s \o t) /\ (s \o t)[Len(s) + i] = t[i]
    OBVIOUS
  <2> QED
    BY <2>1, Zenon DEF Range
<1> QED
  BY <1>1, <1>2, <1>3, Zenon DEF Range

LEMMA AnswerStep ==
  ASSUME RefundInv, AnswerInv, [Next]_vars
  PROVE  AnswerInv'
<1>1. ASSUME NEW c \in Callers, Broadcast(c) \/ Expire(c)
      PROVE  AnswerInv'
  <2>1. UNCHANGED <<pc, taken, batched, retryMsgs, tx, txEvent, served, excluded>>
    BY <1>1 DEF Broadcast, Expire, nodeVars
  <2>2. /\ call' \in [Callers -> CallStates]
        /\ \A d \in Callers : call'[d] = "ok" => call[d] = "ok"
    BY <1>1, Zenon DEF Broadcast, Expire, AnswerInv, CallStates
  <2>3. AnsweredWasServed'
    BY <2>1, <2>2, StaysServed, Zenon DEF AnswerInv
  <2> QED
    BY <2>1, <2>2, <2>3 DEF AnswerInv, Carried
<1>2. CASE CheckTraffic \/ prepareFactory
  <2>1. /\ UNCHANGED <<call, batched, txEvent, served, excluded>>
        /\ pc' \notin {"submit", "wait"} /\ txEvent = NoTx
    BY <1>2 DEF CheckTraffic, prepareFactory, nodeVars, RefundInv
  <2>2. AnsweredWasServed'
    BY <2>1, StaysServed DEF AnswerInv
  <2>3. (taken' = <<>> /\ Range(taken') = {}) \/ UNCHANGED <<taken, retryMsgs>>
    BY <1>2 DEF CheckTraffic, prepareFactory, Range
  <2>4. taken' \in Seq(Callers)
    <3>1. taken \in Seq(Callers) /\ <<>> \in Seq(Callers)
      BY DEF AnswerInv
    <3> QED
      BY <2>3, <3>1, Zenon
  <2>5. Carried'
    BY <2>1, <2>3 DEF AnswerInv, Carried
  <2> QED
    BY <2>1, <2>2, <2>4, <2>5 DEF AnswerInv
<1>3. CASE Pop \/ FillBatch
  <2>1. /\ UNCHANGED <<call, txEvent, served, excluded>>
        /\ pc' \notin {"submit", "wait"} /\ txEvent = NoTx
    BY <1>3 DEF Pop, FillBatch, nodeVars, RefundInv
  <2>2. AnsweredWasServed'
    BY <2>1, StaysServed DEF AnswerInv
  <2>3. PICK d \in Callers : d = Head(backlog)
    BY <1>3 DEF Pop, FillBatch, RefundInv
  <2>4. MsgsOf[d] \in Seq(Msgs) /\ \E msg : msg \in Range(MsgsOf[d])
    <3>1. MsgsOf[d] \in Seq(Msgs) /\ MsgsOf[d] # <<>>
      BY BroadcasterAssumption
    <3>2. 1 \in DOMAIN MsgsOf[d]
      BY <3>1
    <3> QED
      BY <3>1, <3>2, Zenon DEF Range
  <2>5. \/ UNCHANGED <<taken, retryMsgs>> /\ batched'
        \/ taken' = <<d>> /\ retryMsgs' = MsgsOf[d]
        \/ taken' = Append(taken, d) /\ retryMsgs' = retryMsgs \o MsgsOf[d] /\ batched'
    BY <1>3, <2>3 DEF Pop, FillBatch
  <2>6. CASE UNCHANGED <<taken, retryMsgs>> /\ batched'
    BY <2>1, <2>2, <2>6 DEF AnswerInv, Carried
  <2>7. CASE taken' = <<d>> /\ retryMsgs' = MsgsOf[d]
    <3>1. taken' \in Seq(Callers) /\ Range(taken') = {d}
      BY <2>7 DEF Range
    <3>2. Carried'
      BY <2>4, <2>7, <3>1 DEF Carried
    <3> QED
      BY <2>1, <2>2, <3>1, <3>2, Zenon DEF AnswerInv
  <2>8. CASE taken' = Append(taken, d) /\ retryMsgs' = retryMsgs \o MsgsOf[d] /\ batched'
    <3>1. taken' \in Seq(Callers) /\ Range(taken') = Range(taken) \cup {d}
      BY <2>8, AppendCall, Zenon DEF AnswerInv
    <3>2. Range(retryMsgs') = Range(retryMsgs) \cup Range(MsgsOf[d])
      <4>1. retryMsgs \in Seq(Msgs)
        BY Zenon DEF RefundInv
      <4> QED
        BY <2>4, <2>8, <4>1, RangeOfBoth
    <3>3. Carried'
      BY <2>1, <2>4, <2>8, <3>1, <3>2 DEF AnswerInv, Carried
    <3> QED
      BY <2>1, <2>2, <3>1, <3>3, Zenon DEF AnswerInv
  <2> QED
    BY <2>5, <2>6, <2>7, <2>8, Zenon
<1>4. CASE PrepareTx
  <2>0. UNCHANGED <<batched, served>>
    BY <1>4, Zenon DEF PrepareTx
  <2> DEFINE Prepared ==
                /\ \E fee \in Fees : tx' = [sequence |-> txfSequence, calls |-> Range(taken), msgs |-> retryMsgs,
                                            batched |-> batched, fee |-> fee]
                /\ pc' = "submit" /\ UNCHANGED <<call, taken, retryMsgs, txEvent, excluded>>
  <2>1. CASE Prepared
    <3>1. /\ tx'.calls = Range(taken) /\ pc' = "submit"
          /\ UNCHANGED <<call, taken, retryMsgs, txEvent, excluded>>
      BY <2>1
    <3>2. txEvent = NoTx
      BY <1>4, Zenon DEF PrepareTx, RefundInv
    <3>3. AnsweredWasServed'
      BY <2>0, <3>1, StaysServed DEF AnswerInv
    <3> QED
      BY <2>0, <3>1, <3>2, <3>3 DEF AnswerInv, Carried
  <2>2. CASE Fail(SdkErr("sequence"))
    BY <2>0, <2>2, FailKeepsAnswers DEF SdkErr
  <2>3. ASSUME NEW k \in DOMAIN retryMsgs, Fail([code |-> "msg", index |-> k, sdk |-> FALSE])
        PROVE  AnswerInv'
    BY <2>0, <2>3, FailKeepsAnswers, Zenon
  <2> QED
    BY <1>4, <2>1, <2>2, <2>3, Zenon DEF PrepareTx
<1>5. CASE BroadcastTx
  <2>0. UNCHANGED <<batched, served>>
    BY <1>5, Zenon DEF BroadcastTx
  <2>1. CASE Fail(SdkErr("sequence"))
    BY <2>0, <2>1, FailKeepsAnswers DEF SdkErr
  <2>2. CASE ~Fail(SdkErr("sequence"))
    <3>1. /\ UNCHANGED <<call, taken, retryMsgs, tx, txEvent, excluded>>
          /\ pc = "submit" /\ txEvent = NoTx
      BY <1>5, <2>2 DEF BroadcastTx, RefundInv
    <3>2. AnsweredWasServed'
      BY <2>0, <3>1, StaysServed DEF AnswerInv
    <3> QED
      BY <2>0, <3>1, <3>2 DEF AnswerInv, Carried
  <2> QED
    BY <2>1, <2>2, Zenon
<1>6. CASE waitForBlockInclusion
  <2>0. UNCHANGED <<batched, served>>
    BY <1>6, Zenon DEF waitForBlockInclusion
  <2>1. CASE txEvent # NoTx /\ checkErr(txEvent) /\ Answer("ok") /\ UNCHANGED excluded
    <3>1. \A c \in Range(taken), msg \in Range(retryMsgs) : <<c, msg>> \in served
      BY <2>1, Zenon DEF AnswerInv, checkErr
    <3>2. /\ call' \in [Callers -> CallStates]
          /\ \A c \in Callers : call'[c] = "ok" => call[c] = "ok" \/ c \in Range(taken)
      BY <2>1, Zenon DEF Answer, AnswerInv, CallStates
    <3>3. /\ UNCHANGED <<taken, retryMsgs, excluded>>
          /\ txEvent' = NoTx /\ pc' \notin {"submit", "wait"}
      BY <2>1 DEF Answer
    <3>4. \A c \in Range(taken) :
              /\ \E msg \in Range(MsgsOf[c]) : <<c, msg>> \in served
              /\ \A msg \in Range(MsgsOf[c]) : <<c, msg>> \in served \cup excluded
      BY <3>1 DEF AnswerInv, Carried
    <3>5. AnsweredWasServed'
      BY <2>0, <3>2, <3>3, <3>4, Zenon DEF AnswerInv, AnsweredWasServed
    <3>6. Carried'
      BY <2>0, <3>3 DEF AnswerInv, Carried
    <3> QED
      BY <3>2, <3>3, <3>5, <3>6, Zenon DEF AnswerInv
  <2>2. ASSUME Fail([code |-> txEvent.code, index |-> IF txEvent.code = "msg" THEN txEvent.index ELSE 0, sdk |-> TRUE]),
               txEvent # NoTx
        PROVE  AnswerInv'
    BY <2>0, <2>2, FailKeepsAnswers DEF RefundInv
  <2>3. CASE Timeout
    BY <2>0, <2>3, FailKeepsAnswers DEF Timeout, PlainErr
  <2> QED
    BY <1>6, <2>1, <2>2, <2>3, Zenon DEF waitForBlockInclusion
<1>7. ASSUME NEW t \in network, NEW bad, NEW balance, NEW outcome, IncludeTx(t, bad, balance, outcome)
      PROVE  AnswerInv'
  <2>1. /\ UNCHANGED <<call, taken, batched, retryMsgs, pc, tx, excluded>>
        /\ served \subseteq served'
        /\ outcome.code = "ok" => t.calls \X Range(t.msgs) \subseteq served'
    BY <1>7 DEF IncludeTx, clientVars
  <2>2. txEvent' = txEvent \/ (txEvent' = outcome /\ pc = "wait" /\ tx = t)
    BY <1>7 DEF IncludeTx
  <2>3. AnsweredWasServed'
    BY <2>1, StaysServed DEF AnswerInv
  <2>4. Carried'
    BY <2>1 DEF AnswerInv, Carried
  <2>5. ASSUME pc = "wait", tx = t, outcome.code = "ok"
        PROVE  \A c \in Range(taken), msg \in Range(retryMsgs) : <<c, msg>> \in served'
    <3>1. t.calls = Range(taken) /\ t.msgs = retryMsgs
      BY <2>5 DEF AnswerInv, RefundInv
    <3> QED
      BY <2>1, <2>5, <3>1
  <2>6. txEvent' # NoTx /\ txEvent'.code = "ok" =>
          \A c \in Range(taken), msg \in Range(retryMsgs) : <<c, msg>> \in served'
    BY <2>1, <2>2, <2>5 DEF AnswerInv
  <2> QED
    BY <2>1, <2>3, <2>4, <2>6 DEF AnswerInv
<1>8. CASE RestartNode \/ UNCHANGED vars
  <2>1. UNCHANGED <<call, taken, batched, retryMsgs, pc, tx, txEvent, served, excluded>>
    BY <1>8 DEF RestartNode, vars, clientVars, nodeVars
  <2>2. AnsweredWasServed'
    BY <2>1, StaysServed DEF AnswerInv
  <2> QED
    BY <2>1, <2>2 DEF AnswerInv, Carried
<1> QED
  BY <1>1, <1>2, <1>3, <1>4, <1>5, <1>6, <1>7, <1>8, Zenon DEF Next, Goroutine

(* AnsweredWasServed, for every instance: a response of the broadcaster is *)
(* that of a transaction with the calls it is given to, and a message of   *)
(* a call that no successful transaction had was left out by RetryOnError  *)
(* because the node had reported it, across all timeouts, retries and      *)
(* late inclusions.                                                        *)
THEOREM TruthfulAnswers == Spec => []AnsweredWasServed
<1>1. Init => RefundInv
  BY RefundInit
<1>2. Init => AnswerInv
  BY DEF Init, AnswerInv, AnsweredWasServed, CallStates, Carried, Range
<1>3. AnswerInv => AnsweredWasServed
  BY DEF AnswerInv
<1> QED
  BY <1>1, <1>2, <1>3, RefundStep, AnswerStep, PTL DEF Spec
==============================================================================
