----------------------------- MODULE NexusProofs -----------------------------
(* Proofs about x/nexus: about ChainMaintainers, for any validators,       *)
(* proxies, weights, thresholds, windows and sizes of the bitmaps, and any *)
(* number of polls; and about MessageFlow, for any set of messages, any    *)
(* chains they come from and go to, and any limits.                        *)
EXTENDS ChainMaintainers, MessageFlow, WellFoundedInduction, TLAPS

USE SMTT(20), ZenonT(10)

Below == {p \in Nat \X Nat : p[1] < p[2]}

\* A non-empty set of naturals has a least element.
LEMMA LeastNatural ==
  ASSUME NEW S, S \subseteq Nat, S # {}
  PROVE  \E n \in S : \A m \in S : n <= m
<1>1. IsWellFoundedOn(Below, Nat)
  BY NatLessThanWellFounded DEF OpToRel, Below
<1>2. PICK n \in S : \A m \in S : ~(<<m, n>> \in Below)
  BY <1>1, WFMin, Zenon
<1>3. \A m, k \in Nat : m < k => <<m, k>> \in Below
  BY Zenon DEF Below
<1>4. \A m \in S : ~(m < n) /\ m \in Nat /\ n \in Nat
  BY <1>2, <1>3, Zenon
<1> QED
  BY <1>4

-----------------------------------------------------------------------------
(* Storing a record keeps the relation one-to-one if neither the operator  *)
(* nor the proxy has a record with somebody else.                          *)
LEMMA StoreKeepsOneToOne ==
    ASSUME ProxiesOneToOne, NEW v, NEW p, NEW active,
           CanActivateProxy(v, p), setProxiedValidator(v, p, active)
    PROVE  ProxiesOneToOne'
<1> DEFINE record == [validator |-> v, proxy |-> p, active |-> active]
<1>1. record.validator = v /\ record.proxy = p
  OBVIOUS
<1>2. /\ DOMAIN byOperator' = DOMAIN byOperator \cup {v}
      /\ byOperator'[v] = record
      /\ \A w \in DOMAIN byOperator : w # v => byOperator'[w] = byOperator[w]
  BY DEF setProxiedValidator
<1>3. /\ DOMAIN byProxy' = DOMAIN byProxy \cup {p}
      /\ byProxy'[p] = record
      /\ \A q \in DOMAIN byProxy : q # p => byProxy'[q] = byProxy[q]
  BY DEF setProxiedValidator
<1> HIDE DEF record
<1>4. ASSUME NEW w \in DOMAIN byOperator'
      PROVE  LET r == byOperator'[w]
             IN  r.validator = w /\ r.proxy \in DOMAIN byProxy' /\ byProxy'[r.proxy] = r
  <2>1. CASE w = v
    BY <1>1, <1>2, <1>3, <2>1
  <2>2. CASE w # v
    <3>1. w \in DOMAIN byOperator /\ byOperator'[w] = byOperator[w]
      BY <1>2, <2>2
    <3>2. byOperator[w].proxy # p
      BY <2>2, <3>1 DEF ProxiesOneToOne, CanActivateProxy
    <3> QED
      BY <1>3, <3>1, <3>2 DEF ProxiesOneToOne
  <2> QED
    BY <2>1, <2>2
<1>5. ASSUME NEW q \in DOMAIN byProxy'
      PROVE  LET r == byProxy'[q]
             IN  r.proxy = q /\ r.validator \in DOMAIN byOperator' /\ byOperator'[r.validator] = r
  <2>1. CASE q = p
    BY <1>1, <1>2, <1>3, <2>1
  <2>2. CASE q # p
    <3>1. q \in DOMAIN byProxy /\ byProxy'[q] = byProxy[q]
      BY <1>3, <2>2
    <3>2. byProxy[q].validator # v
      BY <2>2, <3>1 DEF ProxiesOneToOne, CanActivateProxy
    <3> QED
      BY <1>2, <3>1, <3>2 DEF ProxiesOneToOne
  <2> QED
    BY <2>1, <2>2
<1> QED
  BY <1>4, <1>5 DEF ProxiesOneToOne

LEMMA ProxiesStep ==
    ASSUME ProxiesOneToOne, [MaintainersNext]_maintainersVars
    PROVE  ProxiesOneToOne'
<1>1. ASSUME NEW v \in Validators, NEW p \in Proxies, RegisterProxy(v, p)
      PROVE  ProxiesOneToOne'
  BY <1>1, StoreKeepsOneToOne, Zenon DEF RegisterProxy
<1>2. ASSUME NEW v \in Validators, DeactivateProxy(v)
      PROVE  ProxiesOneToOne'
  <2>1. CanActivateProxy(v, byOperator[v].proxy)
    BY <1>2 DEF DeactivateProxy, CanActivateProxy, ProxiesOneToOne
  <2> QED
    BY <1>2, <2>1, StoreKeepsOneToOne, Zenon DEF DeactivateProxy
<1>3. CASE UNCHANGED proxyVars
  BY <1>3 DEF proxyVars, ProxiesOneToOne
<1>4. ASSUME NEW v \in Validators, Unbond(v) \/ Bond(v)
      PROVE  UNCHANGED proxyVars
  BY <1>4 DEF Unbond, Bond
<1>5. ASSUME NEW p \in Proxies, RegisterChainMaintainer(p) \/ DeregisterChainMaintainer(p)
      PROVE  UNCHANGED proxyVars
  BY <1>5 DEF RegisterChainMaintainer, DeregisterChainMaintainer
<1>6. ASSUME activateChain \/ deactivateChain \/ StartPoll \/ ClosePoll \/ EndBlock \/ Migrate8to9 \/ UNCHANGED maintainersVars
      PROVE  UNCHANGED proxyVars
  BY <1>6, Zenon DEF activateChain, deactivateChain, StartPoll, ClosePoll, EndBlock, Migrate8to9, maintainersVars
<1> QED
  BY <1>1, <1>2, <1>3, <1>4, <1>5, <1>6 DEF MaintainersNext

(* ProxiesOneToOne, for every instance: the two indexes that               *)
(* setProxiedValidator of x/snapshot writes hold the same records.         *)
THEOREM OneToOne == MaintainersSpec => []ProxiesOneToOne
<1>1. MaintainersInit => ProxiesOneToOne
  BY DEF MaintainersInit, ProxiesOneToOne
<1> QED
  BY <1>1, ProxiesStep, PTL DEF MaintainersSpec

-----------------------------------------------------------------------------
(* Closing a poll only takes rewards away, and from nobody the membership. *)
LEMMA PollsPayOut ==
    ASSUME RewardsOfMaintainers, ClosePoll
    PROVE  RewardsOfMaintainers'
<1>1. PICK absent \in SUBSET voters :
          \/ HandleExpiredPoll(absent)
          \/ \E incorrect \in SUBSET (voters \ absent) : HandleCompletedPoll(absent, incorrect)
  BY Zenon DEF ClosePoll
<1>2. CASE HandleExpiredPoll(absent)
  BY <1>2 DEF HandleExpiredPoll, ClearRewards, RewardsOfMaintainers
<1>3. ASSUME NEW incorrect, HandleCompletedPoll(absent, incorrect)
      PROVE  RewardsOfMaintainers'
  BY <1>3 DEF HandleCompletedPoll, ClearRewards, RewardsOfMaintainers
<1> QED
  BY <1>1, <1>2, <1>3

LEMMA RewardsStep ==
    ASSUME RewardsOfMaintainers, [MaintainersNext]_maintainersVars
    PROVE  RewardsOfMaintainers'
<1> USE DEF RewardsOfMaintainers, markVars
<1>1. ASSUME NEW v \in Validators, NEW p \in Proxies, RegisterProxy(v, p)
      PROVE  RewardsOfMaintainers'
  BY <1>1 DEF RegisterProxy
<1>2. ASSUME NEW v \in Validators, DeactivateProxy(v) \/ Unbond(v) \/ Bond(v)
      PROVE  RewardsOfMaintainers'
  BY <1>2, Zenon DEF DeactivateProxy, Unbond, Bond
<1>3. ASSUME NEW p \in Proxies, RegisterChainMaintainer(p)
      PROVE  RewardsOfMaintainers'
  BY <1>3 DEF RegisterChainMaintainer
<1>4. ASSUME NEW p \in Proxies, DeregisterChainMaintainer(p)
      PROVE  RewardsOfMaintainers'
  BY <1>4 DEF DeregisterChainMaintainer, RemoveChainMaintainers, ClearRewards, Restrict
<1>5. CASE activateChain \/ deactivateChain \/ StartPoll
  BY <1>5 DEF activateChain, deactivateChain, StartPoll
<1>6. CASE ClosePoll
  BY <1>6, PollsPayOut
<1>7. CASE EndBlock
  BY <1>7 DEF EndBlock, RemoveChainMaintainers, ClearRewards, Restrict
<1>8. CASE Migrate8to9
  BY <1>8 DEF Migrate8to9, shrinkMaintainerStateBitmaps
<1>9. CASE UNCHANGED maintainersVars
  BY <1>9 DEF maintainersVars
<1> QED
  BY <1>1, <1>2, <1>3, <1>4, <1>5, <1>6, <1>7, <1>8, <1>9 DEF MaintainersNext

(* RewardsOfMaintainers, for every instance: DeregisterChainMaintainer,    *)
(* the end blocker and the vote handler leave no rewards in the pool of a  *)
(* chain to somebody who is not its maintainer.                            *)
THEOREM OnlyMaintainersRewarded == MaintainersSpec => []RewardsOfMaintainers
<1>1. MaintainersInit => RewardsOfMaintainers
  BY DEF MaintainersInit, RewardsOfMaintainers
<1> QED
  BY <1>1, RewardsStep, PTL DEF MaintainersSpec

-----------------------------------------------------------------------------
(* The sums of the marks of a maintainer.                                  *)

\* f has the sums of the first marks, up to n of them
Adds(seq, n, f) == f = [i \in 0..n |-> IF i = 0 THEN 0 ELSE f[i - 1] + seq[i]]

LEMMA AddsExist ==
  ASSUME NEW seq
  PROVE  \A n \in Nat : \E f : Adds(seq, n, f)
<1> DEFINE none == {n \in Nat : ~ \E f : Adds(seq, n, f)}
<1> SUFFICES ASSUME none # {} PROVE FALSE
  OBVIOUS
<1>1. PICK n \in none : \A m \in none : n <= m
  BY LeastNatural, Zenon
<1>2. n \in Nat /\ ~ \E f : Adds(seq, n, f)
  OBVIOUS
<1>3. CASE n = 0
  <2> DEFINE f == [k \in 0..0 |-> 0]
  <2>1. f = [k \in 0..0 |-> IF k = 0 THEN 0 ELSE f[k - 1] + seq[k]]
    OBVIOUS
  <2> QED
    BY <1>2, <1>3, <2>1, Zenon DEF Adds
<1>4. CASE n # 0
  <2>1. n - 1 \in Nat /\ n - 1 \notin none
    BY <1>1, <1>2, <1>4
  <2>2. PICK g : Adds(seq, n - 1, g)
    BY <2>1
  <2> DEFINE f == [k \in 0..n |-> IF k = n THEN g[n - 1] + seq[n] ELSE g[k]]
  <2>3. ASSUME NEW k \in 0..n
        PROVE  f[k] = IF k = 0 THEN 0 ELSE f[k - 1] + seq[k]
    <3>1. CASE k = n
      BY <1>2, <1>4, <3>1
    <3>2. CASE k # n
      <4>1. k \in 0..(n - 1)
        BY <1>2, <3>2
      <4>2. g[k] = IF k = 0 THEN 0 ELSE g[k - 1] + seq[k]
        BY <2>2, <4>1, Zenon DEF Adds
      <4>3. k # 0 => k - 1 \in 0..n /\ k - 1 # n
        BY <1>2, <4>1
      <4> QED
        BY <3>2, <4>2, <4>3
    <3> QED
      BY <3>1, <3>2
  <2>4. f = [k \in 0..n |-> f[k]]
    OBVIOUS
  <2> HIDE DEF f
  <2>5. Adds(seq, n, f)
    BY <2>3, <2>4, Zenon DEF Adds
  <2> QED
    BY <1>2, <2>5
<1> QED
  BY <1>3, <1>4

LEMMA AddsSteps ==
  ASSUME NEW seq, NEW n \in Nat, NEW f, Adds(seq, n, f), \A i \in 1..n : seq[i] \in Int
  PROVE  f[0] = 0 /\ \A k \in 1..n : f[k] = f[k - 1] + seq[k] /\ f[k - 1] \in Int /\ f[k] \in Int
<1>1. \A k \in 0..n : f[k] = IF k = 0 THEN 0 ELSE f[k - 1] + seq[k]
  BY Zenon DEF Adds
<1>2. f[0] = 0 /\ \A k \in 1..n : f[k] = f[k - 1] + seq[k]
  BY <1>1
<1> DEFINE none == {k \in 0..n : f[k] \notin Int}
<1>3. none = {}
  <2> SUFFICES ASSUME none # {} PROVE FALSE
    OBVIOUS
  <2>1. none \subseteq Nat
    OBVIOUS
  <2>2. PICK k \in none : \A l \in none : k <= l
    BY <2>1, LeastNatural, Zenon
  <2>3. k \in 1..n /\ k - 1 \in 0..n /\ k - 1 \notin none
    BY <1>2, <2>2
  <2> QED
    BY <1>2, <2>2, <2>3
<1>4. \A k \in 1..n : k \in 0..n /\ k - 1 \in 0..n
  OBVIOUS
<1> QED
  BY <1>2, <1>3, <1>4

\* The first n marks of g are those of h after m, and h has N.
Stretch(g, h, m, n, N) == m + n <= N /\ (\A i \in 1..N : h[i] \in Int) /\ (\A i \in 1..n : g[i] = h[m + i])

LEMMA AddsStretch ==
  ASSUME NEW g, NEW h, NEW m \in Nat, NEW n \in Nat, NEW N \in Nat, Stretch(g, h, m, n, N),
         NEW e, Adds(g, n, e), NEW f, Adds(h, N, f)
  PROVE  f[m + n] = f[m] + e[n] /\ f[m] \in Int /\ e[n] \in Int
<1>1. /\ f[0] = 0
      /\ \A k \in 1..N : f[k] = f[k - 1] + h[k] /\ f[k - 1] \in Int /\ f[k] \in Int
  BY AddsSteps, Zenon DEF Stretch
<1>2. \A i \in 1..n : m + i \in 1..N /\ g[i] = h[m + i] /\ g[i] \in Int
  BY DEF Stretch
<1>3. e[0] = 0 /\ \A k \in 1..n : e[k] = e[k - 1] + g[k] /\ e[k - 1] \in Int /\ e[k] \in Int
  BY <1>2, AddsSteps
<1> DEFINE none == {k \in 0..n : f[m + k] # f[m] + e[k]}
<1>4. f[m] \in Int /\ e[n] \in Int
  BY <1>1, <1>3 DEF Stretch
<1>5. none = {}
  <2> SUFFICES ASSUME none # {} PROVE FALSE
    OBVIOUS
  <2>1. none \subseteq Nat
    OBVIOUS
  <2>2. PICK k \in none : \A l \in none : k <= l
    BY <2>1, LeastNatural, Zenon
  <2>3. k \in 1..n /\ k - 1 \in 0..n /\ k - 1 \notin none
    BY <1>3, <1>4, <2>2
  <2>4. f[m + (k - 1)] = f[m] + e[k - 1]
    BY <2>3
  <2>5. m + k \in 1..N /\ (m + k) - 1 = m + (k - 1)
    BY <2>3 DEF Stretch
  <2>6. f[m + k] = f[m + (k - 1)] + h[m + k] /\ e[k] = e[k - 1] + h[m + k] /\ e[k - 1] \in Int /\ h[m + k] \in Int
    BY <1>1, <1>2, <1>3, <2>3, <2>5
  <2> QED
    BY <1>4, <2>2, <2>4, <2>6
<1> QED
  BY <1>4, <1>5

LEMMA SumIsAdded == \A seq : \A n \in Nat : \E f : Adds(seq, n, f) /\ SumTo(seq, n) = f[n]
<1> SUFFICES ASSUME NEW seq, NEW n \in Nat
             PROVE  \E f : Adds(seq, n, f) /\ SumTo(seq, n) = f[n]
  OBVIOUS
<1> DEFINE f == CHOOSE g : Adds(seq, n, g)
<1>1. SumTo(seq, n) = f[n]
  BY DEF SumTo, Adds
<1>2. Adds(seq, n, f)
  BY AddsExist
<1> QED
  BY <1>1, <1>2, Zenon

\* The sum of a stretch is the difference of two sums.
LEMMA SumOfStretch ==
  ASSUME NEW g, NEW h, NEW m \in Nat, NEW n \in Nat, Stretch(g, h, m, n, m + n)
  PROVE  SumTo(h, m) \in Int /\ SumTo(g, n) \in Int /\ SumTo(h, m + n) = SumTo(h, m) + SumTo(g, n)
<1>1. PICK e : Adds(g, n, e) /\ SumTo(g, n) = e[n]
  BY SumIsAdded
<1>2. PICK d : Adds(h, m, d) /\ SumTo(h, m) = d[m]
  BY SumIsAdded
<1>3. PICK f : Adds(h, m + n, f) /\ SumTo(h, m + n) = f[m + n]
  BY SumIsAdded
<1>4. f[m + n] = f[m] + e[n] /\ f[m] \in Int /\ e[n] \in Int
  BY <1>1, <1>3, AddsStretch
<1>5. Stretch(h, h, 0, m, m + n)
  BY DEF Stretch
<1>6. f[0 + m] = f[0] + d[m] /\ d[m] \in Int
  BY <1>2, <1>3, <1>5, AddsStretch
<1>7. f[0] = 0
  BY <1>3, AddsSteps DEF Stretch
<1> QED
  BY <1>1, <1>2, <1>3, <1>4, <1>6, <1>7

\* marks are zeros and ones
IsMarks(h) == h \in Seq({0, 1})

\* the sum of the first k marks, none if k is negative
Tally(h, k) == IF k <= 0 THEN 0 ELSE SumTo(h, k)

LEMMA MarkNumbers ==
  ASSUME NEW h, IsMarks(h)
  PROVE  Len(h) \in Nat /\ \A i \in 1..Len(h) : h[i] \in Int
<1>1. Len(h) \in Nat /\ \A i \in 1..Len(h) : h[i] \in {0, 1}
  BY DEF IsMarks
<1> QED
  BY <1>1

LEMMA SumToNone == \A h : SumTo(h, 0) = 0
<1> SUFFICES ASSUME NEW h PROVE SumTo(h, 0) = 0
  OBVIOUS
<1>1. PICK f : Adds(h, 0, f) /\ SumTo(h, 0) = f[0]
  BY SumIsAdded
<1> QED
  BY <1>1, AddsSteps

LEMMA TallyType ==
  ASSUME NEW h, IsMarks(h)
  PROVE  \A k \in Int : k <= Len(h) => Tally(h, k) \in Int
<1> SUFFICES ASSUME NEW k \in Int, k <= Len(h), k > 0 PROVE SumTo(h, k) \in Int
  BY DEF Tally
<1>1. Stretch(h, h, 0, k, 0 + k) /\ k \in Nat
  BY MarkNumbers DEF Stretch
<1> QED
  BY <1>1, SumOfStretch, Zenon

\* A new mark adds to the last sum, and leaves the others.
LEMMA TallyAppend ==
  ASSUME NEW h, IsMarks(h), NEW x \in {0, 1}
  PROVE  /\ IsMarks(Append(h, x)) /\ Len(Append(h, x)) = Len(h) + 1
         /\ Tally(Append(h, x), Len(h) + 1) = Tally(h, Len(h)) + x
         /\ \A k \in Int : k <= Len(h) => Tally(Append(h, x), k) = Tally(h, k)
<1> DEFINE g == Append(h, x)
<1>1. IsMarks(g) /\ Len(g) = Len(h) + 1 /\ g[Len(h) + 1] = x /\ \A i \in 1..Len(h) : g[i] = h[i]
  BY DEF IsMarks
<1> HIDE DEF g
<1>2. Len(h) \in Nat /\ (\A i \in 1..Len(h) : h[i] \in Int) /\ (\A i \in 1..(Len(h) + 1) : g[i] \in Int)
  BY <1>1, MarkNumbers
<1>3. ASSUME NEW k \in Nat, k <= Len(h)
      PROVE  SumTo(g, k) = SumTo(h, k) /\ SumTo(h, k) \in Int
  <2>1. Stretch(g, h, 0, k, 0 + k)
    BY <1>1, <1>2, <1>3 DEF Stretch
  <2>2. SumTo(h, 0 + k) = SumTo(h, 0) + SumTo(g, k) /\ SumTo(g, k) \in Int
    BY <2>1, SumOfStretch
  <2> QED
    BY <2>2, SumToNone
<1>4. \A k \in Int : k <= Len(h) => Tally(g, k) = Tally(h, k)
  BY <1>3 DEF Tally
<1>5. SumTo(g, Len(h) + 1) = SumTo(h, Len(h)) + x
  <2>1. Stretch(<<x>>, g, Len(h), 1, Len(h) + 1)
    BY <1>1, <1>2 DEF Stretch
  <2>2. SumTo(g, Len(h) + 1) = SumTo(g, Len(h)) + SumTo(<<x>>, 1)
    BY <1>2, <2>1, SumOfStretch
  <2>3. PICK f : Adds(<<x>>, 1, f) /\ SumTo(<<x>>, 1) = f[1]
    BY SumIsAdded
  <2>4. \A i \in 1..1 : <<x>>[i] \in Int
    OBVIOUS
  <2>5. f[0] = 0 /\ f[1] = f[1 - 1] + <<x>>[1]
    BY <2>3, <2>4, AddsSteps
  <2>6. SumTo(<<x>>, 1) = x
    BY <2>3, <2>5
  <2> QED
    BY <1>2, <1>3, <2>2, <2>6
<1>6. Tally(g, Len(h) + 1) = Tally(h, Len(h)) + x
  BY <1>2, <1>5, SumToNone DEF Tally
<1> QED
  BY <1>1, <1>4, <1>6 DEF g

\* The last marks are counted by the difference of two sums.
LEMMA SumOfLast ==
  ASSUME NEW h, IsMarks(h), NEW w \in Nat
  PROVE  Sum(LastMarks(h, w)) = Tally(h, Len(h)) - Tally(h, Len(h) - w)
<1>1. Len(h) \in Nat /\ \A i \in 1..Len(h) : h[i] \in Int
  BY MarkNumbers
<1>2. Tally(h, Len(h)) = SumTo(h, Len(h)) /\ Tally(h, Len(h)) \in Int
  BY <1>1, SumToNone, TallyType DEF Tally
<1>3. CASE w >= Len(h)
  BY <1>1, <1>2, <1>3 DEF Sum, LastMarks, Tally
<1>4. CASE w < Len(h)
  <2>1. PICK m \in Nat \ {0} : m = Len(h) - w /\ m + w = Len(h)
    BY <1>1, <1>4
  <2> DEFINE g == SubSeq(h, m + 1, m + w)
  <2>2. LastMarks(h, w) = g
    BY <1>1, <1>4, <2>1 DEF LastMarks
  <2>3. Len(g) = w /\ \A i \in 1..w : g[i] = h[m + i]
    <3>1. g = [i \in 1..((m + w) - (m + 1) + 1) |-> h[i + (m + 1) - 1]]
      OBVIOUS
    <3>2. (m + w) - (m + 1) + 1 = w /\ \A i \in 1..w : i + (m + 1) - 1 = m + i
      BY <2>1
    <3>3. g = [i \in 1..w |-> h[i + (m + 1) - 1]]
      BY <3>1, <3>2, Zenon
    <3>4. Len(g) = w
      BY <3>3
    <3> QED
      BY <3>2, <3>3, <3>4, Zenon
  <2> HIDE DEF g
  <2>4. Stretch(g, h, m, w, m + w)
    BY <1>1, <2>1, <2>3 DEF Stretch
  <2>5. SumTo(h, m) \in Int /\ SumTo(g, w) \in Int /\ SumTo(h, m + w) = SumTo(h, m) + SumTo(g, w)
    BY <2>1, <2>4, SumOfStretch
  <2>6. Tally(h, m) = SumTo(h, m)
    BY <2>1 DEF Tally
  <2>7. Sum(g) = SumTo(g, w)
    BY <2>3 DEF Sum
  <2> QED
    BY <1>2, <2>1, <2>2, <2>5, <2>6, <2>7
<1> QED
  BY <1>1, <1>3, <1>4

-----------------------------------------------------------------------------
(* The circular buffer.                                                    *)

IsBuffer(b) ==
    /\ b = [size |-> b.size, values |-> b.values, index |-> b.index, max |-> b.max]
    /\ b.size \in Nat \ {0} /\ b.index \in 0..(b.size - 1) /\ b.max \in Nat /\ b.size <= b.max
    /\ b.values = [i \in 0..(b.size - 1) |-> b.values[i]]

\* The value at the index is the sum of all marks, those before it, around the end of
\* the slice, are the earlier sums; the buffer does not wrap around before it has its
\* maximal size.
Holds(b, h) ==
    /\ IsBuffer(b) /\ IsMarks(h)
    /\ \A i \in 0..b.index : b.values[i] = Tally(h, Len(h) - (b.index - i))
    /\ \A i \in (b.index + 1)..(b.size - 1) : b.values[i] = Tally(h, Len(h) - (b.index + b.size - i))
    /\ b.size < b.max => b.index = Len(h)

LEMMA Wraps ==
  ASSUME NEW s \in Nat \ {0}, NEW x \in 0..(3 * s - 1)
  PROVE  x % s = IF x < s THEN x ELSE IF x < 2 * s THEN x - s ELSE x - 2 * s
<1>1. CASE x < s
  BY <1>1
<1>2. CASE x >= s /\ x < 2 * s
  BY <1>2
<1>3. CASE x >= 2 * s
  BY <1>3
<1> QED
  BY <1>1, <1>2, <1>3

\* What the indexes of the slice are.
LEMMA Indexes ==
  ASSUME NEW b, IsBuffer(b)
  PROVE  /\ addToIndex(b, 1) = IF b.index + 1 = b.size THEN 0 ELSE b.index + 1
         /\ \A j \in 0..(b.size - 1) : addToIndex(b, -j) = IF j <= b.index THEN b.index - j ELSE b.index - j + b.size
         /\ \A i \in 0..(b.size - 1) : b.index + 1 = b.size => addToIndex(b, 1 + i) = i
<1>1. b.size \in Nat \ {0} /\ b.index \in 0..(b.size - 1)
  BY DEF IsBuffer
<1>2. addToIndex(b, 1) = IF b.index + 1 = b.size THEN 0 ELSE b.index + 1
  <2> DEFINE x == b.index + 1 + b.size
  <2>1. x \in 0..(3 * b.size - 1)
    BY <1>1
  <2>2. addToIndex(b, 1) = x % b.size
    BY DEF addToIndex
  <2> HIDE DEF x
  <2>3. x % b.size = IF x < b.size THEN x ELSE IF x < 2 * b.size THEN x - b.size ELSE x - 2 * b.size
    BY <1>1, <2>1, Wraps, Zenon
  <2> QED
    BY <1>1, <2>1, <2>2, <2>3 DEF x
<1>3. ASSUME NEW j \in 0..(b.size - 1)
      PROVE  addToIndex(b, -j) = IF j <= b.index THEN b.index - j ELSE b.index - j + b.size
  <2> DEFINE x == b.index + (-j) + b.size
  <2>1. x \in 0..(3 * b.size - 1)
    BY <1>1
  <2>2. addToIndex(b, -j) = x % b.size
    BY DEF addToIndex
  <2> HIDE DEF x
  <2>3. x % b.size = IF x < b.size THEN x ELSE IF x < 2 * b.size THEN x - b.size ELSE x - 2 * b.size
    BY <1>1, <2>1, Wraps, Zenon
  <2> QED
    BY <1>1, <2>1, <2>2, <2>3 DEF x
<1>4. ASSUME NEW i \in 0..(b.size - 1), b.index + 1 = b.size
      PROVE  addToIndex(b, 1 + i) = i
  <2> DEFINE x == b.index + (1 + i) + b.size
  <2>1. x \in 0..(3 * b.size - 1)
    BY <1>1, <1>4
  <2>2. addToIndex(b, 1 + i) = x % b.size
    BY DEF addToIndex
  <2> HIDE DEF x
  <2>3. x % b.size = IF x < b.size THEN x ELSE IF x < 2 * b.size THEN x - b.size ELSE x - 2 * b.size
    BY <1>1, <2>1, Wraps, Zenon
  <2> QED
    BY <1>1, <1>4, <2>1, <2>2, <2>3 DEF x
<1> QED
  BY <1>2, <1>3, <1>4

\* A new buffer has no marks.
LEMMA NewHolds ==
  ASSUME NEW max \in {MaxSize, OldMaxSize}
  PROVE  Holds(NewCircularBuffer(max), <<>>)
<1>1. /\ InitialSize \in Nat \ {0} /\ max \in Nat /\ InitialSize <= max
  BY MaintainersAssumption
<1> DEFINE b == NewCircularBuffer(max)
<1>2. /\ b.size = InitialSize /\ b.index = 0 /\ b.max = max
      /\ b.values = [i \in 0..(InitialSize - 1) |-> 0]
      /\ b = [size |-> b.size, values |-> b.values, index |-> b.index, max |-> b.max]
  BY DEF NewCircularBuffer
<1> HIDE DEF b
<1>3. IsMarks(<<>>) /\ Len(<<>>) = 0
  BY DEF IsMarks
<1>4. IsBuffer(b)
  BY <1>1, <1>2 DEF IsBuffer
<1>5. \A i \in 0..b.index : b.values[i] = Tally(<<>>, 0 - (b.index - i))
  BY <1>1, <1>2 DEF Tally
<1>6. \A i \in (b.index + 1)..(b.size - 1) : b.values[i] = Tally(<<>>, 0 - (b.index + b.size - i))
  BY <1>1, <1>2 DEF Tally
<1> QED
  BY <1>2, <1>3, <1>4, <1>5, <1>6 DEF Holds, b

\* A buffer that fits stays as it is.
LEMMA FittedIs ==
  ASSUME NEW b, IsBuffer(b)
  PROVE  Fitted(b) = b
  BY DEF Fitted, IsBuffer

\* A buffer that is full grows to a larger one with the same sums.
LEMMA GrownHolds ==
  ASSUME NEW b, NEW h, Holds(b, h)
  PROVE  Holds(Grown(b), h) /\ (Grown(b).size < Grown(b).max => Grown(b).index + 1 < Grown(b).size)
<1>1. /\ IsBuffer(b) /\ IsMarks(h) /\ Len(h) \in Nat
      /\ b.size \in Nat \ {0} /\ b.index \in 0..(b.size - 1) /\ b.max \in Nat /\ b.size <= b.max
      /\ b.size < b.max => b.index = Len(h)
  BY MarkNumbers DEF Holds, IsBuffer
<1>2. addToIndex(b, 1) = IF b.index + 1 = b.size THEN 0 ELSE b.index + 1
  BY <1>1, Indexes
<1>3. CASE ~(b.index + 1 = b.size /\ b.size < b.max)
  <2>1. ~(isFull(b) /\ b.size < b.max)
    <3> SUFFICES ASSUME b.size < b.max PROVE ~isFull(b)
      OBVIOUS
    <3>1. b.index + 1 # b.size /\ b.index = Len(h) /\ b.index + 1 \in (b.index + 1)..(b.size - 1)
      BY <1>1, <1>3
    <3>2. b.values[b.index + 1] = Tally(h, Len(h) - (b.index + b.size - (b.index + 1)))
      BY <3>1 DEF Holds
    <3>3. Len(h) - (b.index + b.size - (b.index + 1)) <= 0
      BY <1>1, <3>1
    <3> QED
      BY <1>2, <3>1, <3>2, <3>3 DEF isFull, Tally
  <2>2. Grown(b) = b
    BY <2>1 DEF Grown
  <2> QED
    BY <1>1, <1>3, <2>2
<1>4. CASE b.index + 1 = b.size /\ b.size < b.max
  <2> DEFINE size == IF 2 * b.size < b.max THEN 2 * b.size ELSE b.max
             c == Grown(b)
  <2>1. c = grow(b)
    BY <1>4 DEF Grown, isFull
  <2>2. addToIndex(b, 1) = 0 /\ b.index = Len(h) /\ b.index = b.size - 1
    BY <1>1, <1>2, <1>4
  <2>3. b.values[0] = 0
    <3>1. b.values[0] = Tally(h, Len(h) - (b.index - 0)) /\ Len(h) - (b.index - 0) = 0
      BY <1>1, <2>2 DEF Holds
    <3> QED
      BY <3>1 DEF Tally
  <2>4. /\ c.size = size /\ c.index = b.size - 1 /\ c.max = b.max
        /\ c.values = [i \in 0..(size - 1) |-> IF i < b.size THEN b.values[addToIndex(b, 1 + i)] - b.values[0] ELSE 0]
        /\ c = [size |-> c.size, values |-> c.values, index |-> c.index, max |-> c.max]
    <3> DEFINE values == [i \in 0..(size - 1) |->
                             IF i < b.size THEN b.values[addToIndex(b, 1 + i)] - b.values[0] ELSE 0]
    <3>1. c = [b EXCEPT !.size = size, !.index = b.size - 1, !.values = values]
      BY <2>1, <2>2, Zenon DEF grow
    <3>2. b = [size |-> b.size, values |-> b.values, index |-> b.index, max |-> b.max]
      BY <1>1 DEF IsBuffer
    <3> HIDE DEF c, size, values
    <3>3. c = [size |-> size, values |-> values, index |-> b.size - 1, max |-> b.max]
      BY <3>1, <3>2, Zenon
    <3> QED
      BY <3>3 DEF values
  <2>5. size \in Nat /\ b.size < size /\ size <= b.max
    BY <1>1, <1>4
  <2> HIDE DEF size, c
  <2>6. ASSUME NEW i \in 0..c.index
        PROVE  c.values[i] = Tally(h, Len(h) - (c.index - i))
    <3>1. i \in 0..(size - 1) /\ i < b.size /\ i \in 0..(b.size - 1) /\ i \in 0..b.index
      BY <1>1, <2>2, <2>4, <2>5
    <3>2. addToIndex(b, 1 + i) = i
      BY <1>1, <1>4, <3>1, Indexes
    <3>3. b.values[i] = Tally(h, Len(h) - (b.index - i))
      BY <3>1 DEF Holds
    <3>4. Tally(h, Len(h) - (b.index - i)) \in Int
      BY <1>1, <3>1, TallyType
    <3> QED
      BY <2>2, <2>3, <2>4, <3>1, <3>2, <3>3, <3>4
  <2>7. ASSUME NEW i \in (c.index + 1)..(c.size - 1)
        PROVE  c.values[i] = Tally(h, Len(h) - (c.index + c.size - i))
    <3>1. i \in 0..(size - 1) /\ ~(i < b.size) /\ Len(h) - (c.index + c.size - i) <= 0
      BY <1>1, <2>2, <2>4, <2>5
    <3> QED
      BY <2>4, <3>1 DEF Tally
  <2>8. IsBuffer(c) /\ c.index = Len(h) /\ c.index + 1 < c.size
    <3>1. c.values = [i \in 0..(c.size - 1) |-> c.values[i]]
      BY <2>4
    <3>2. /\ c.size \in Nat \ {0} /\ c.index \in 0..(c.size - 1) /\ c.max \in Nat /\ c.size <= c.max
          /\ c.index = Len(h) /\ c.index + 1 < c.size
      <4>1. c.size = size /\ c.index = b.size - 1 /\ c.max = b.max
        BY <2>4
      <4> QED
        BY <1>1, <2>2, <2>5, <4>1
    <3> QED
      BY <2>4, <3>1, <3>2, Zenon DEF IsBuffer
  <2> QED
    BY <1>1, <2>6, <2>7, <2>8, Zenon DEF Holds, c
<1> QED
  BY <1>3, <1>4

\* Positions relative to the index stay the same when index and length move together.
LEMMA Shifted ==
  \A q, m \in Int : \A p \in Int : (p + 1) - ((q + 1) - m) = p - (q - m)
OBVIOUS

LEMMA ShiftedRound ==
  \A q, l \in Int : \A p, m \in Int : (p + 1) - (q + 1 + l - m) = p - (q + l - m)
OBVIOUS

LEMMA NotLater ==
  \A q, m \in Int : m <= q => \A p \in Int : p - (q - m) \in Int /\ p - (q - m) <= p
OBVIOUS

\* A mark is added to the sums.
LEMMA AddHolds ==
  ASSUME NEW b, NEW h, Holds(b, h), NEW x \in {0, 1}
  PROVE  Holds(Add(b, x), Append(h, x)) /\ Add(b, x).max = b.max
<1> DEFINE r == Grown(Fitted(b))
           c == Add(b, x)
           g == Append(h, x)
           next == addToIndex(r, 1)
<1>1. Fitted(b) = b
  BY FittedIs, Zenon DEF Holds
<1>2. Holds(r, h) /\ (r.size < r.max => r.index + 1 < r.size)
  BY <1>1, GrownHolds
<1>3. r.max = b.max
  BY <1>1 DEF Grown, grow, Holds, IsBuffer
<1>4. c = [r EXCEPT !.index = next, !.values[next] = r.values[r.index] + x]
  BY DEF Add
<1> HIDE DEF r, c, g
<1>5. /\ IsBuffer(r) /\ IsMarks(h) /\ Len(h) \in Nat
      /\ r.size \in Nat \ {0} /\ r.index \in 0..(r.size - 1) /\ r.max \in Nat /\ r.size <= r.max
      /\ r.size < r.max => r.index = Len(h)
  BY <1>2, MarkNumbers DEF Holds, IsBuffer
<1>6. next = IF r.index + 1 = r.size THEN 0 ELSE r.index + 1
  BY <1>5, Indexes
<1> HIDE DEF next
<1>7. next \in 0..(r.size - 1)
  BY <1>5, <1>6
<1>8. /\ c.size = r.size /\ c.index = next /\ c.max = r.max
      /\ c.values = [i \in 0..(r.size - 1) |-> IF i = next THEN r.values[r.index] + x ELSE r.values[i]]
      /\ c = [size |-> c.size, values |-> c.values, index |-> c.index, max |-> c.max]
  <2>1. /\ r = [size |-> r.size, values |-> r.values, index |-> r.index, max |-> r.max]
        /\ r.values = [i \in 0..(r.size - 1) |-> r.values[i]]
    BY <1>5 DEF IsBuffer
  <2>2. [r.values EXCEPT ![next] = r.values[r.index] + x]
           = [i \in 0..(r.size - 1) |-> IF i = next THEN r.values[r.index] + x ELSE r.values[i]]
    BY <1>7, <2>1, Zenon
  <2>3. c = [size |-> r.size, values |-> [r.values EXCEPT ![next] = r.values[r.index] + x], index |-> next, max |-> r.max]
    BY <1>4, <2>1, Zenon
  <2> QED
    BY <2>2, <2>3, Zenon
<1>9. IsBuffer(c)
  BY <1>5, <1>7, <1>8 DEF IsBuffer
<1>10. /\ IsMarks(g) /\ Len(g) = Len(h) + 1 /\ Tally(g, Len(h) + 1) = Tally(h, Len(h)) + x
       /\ \A k \in Int : k <= Len(h) => Tally(g, k) = Tally(h, k)
  BY <1>5, TallyAppend DEF g
<1>11. r.values[r.index] = Tally(h, Len(h))
  <2>1. r.index \in 0..r.index /\ Len(h) - (r.index - r.index) = Len(h)
    BY <1>5
  <2> QED
    BY <1>2, <2>1 DEF Holds
<1>12. ASSUME NEW i \in 0..c.index
       PROVE  c.values[i] = Tally(g, Len(g) - (c.index - i))
  <2>1. i \in 0..(r.size - 1)
    BY <1>5, <1>7, <1>8, <1>12
  <2>2. CASE i = next
    BY <1>5, <1>7, <1>8, <1>10, <1>11, <2>1, <2>2
  <2>3. CASE i # next
    <3> DEFINE k == Len(h) - (r.index - i)
    <3>1. i \in 0..r.index /\ k \in Int /\ k <= Len(h) /\ Len(g) - (c.index - i) = k
      <4>1. c.index = next /\ Len(g) = Len(h) + 1
        BY <1>8, <1>10, Zenon
      <4>2. i \in 0..next /\ i \in Nat /\ next \in Nat /\ i <= next
        BY <1>5, <1>7, <1>12, <4>1
      <4>3. next = r.index + 1
        BY <1>6, <2>3, <4>2
      <4>4. Len(h) \in Int /\ r.index \in Int
        BY <1>5
      <4>5. i <= r.index /\ i \in Int /\ i \in 0..r.index
        BY <2>3, <4>2, <4>3, <4>4
      <4>6. Len(g) - (c.index - i) = (Len(h) + 1) - ((r.index + 1) - i)
        BY <4>1, <4>3, Zenon
      <4>7. \A p \in Int : (p + 1) - ((r.index + 1) - i) = p - (r.index - i)
        BY <4>4, <4>5, Shifted, Zenon
      <4>8. k \in Int /\ k <= Len(h)
        BY <4>4, <4>5, NotLater, Zenon
      <4> QED
        BY <4>4, <4>5, <4>6, <4>7, <4>8, Zenon
    <3>2. r.values[i] = Tally(h, k)
      BY <1>2, <3>1, Zenon DEF Holds
    <3> QED
      BY <1>8, <1>10, <2>1, <2>3, <3>1, <3>2
  <2> QED
    BY <2>2, <2>3
<1>13. ASSUME NEW i \in (c.index + 1)..(c.size - 1)
       PROVE  c.values[i] = Tally(g, Len(g) - (c.index + c.size - i))
  <2>0. c.index = next /\ c.size = r.size /\ Len(g) = Len(h) + 1
    BY <1>8, <1>10
  <2>1. i \in 0..(r.size - 1) /\ i # next /\ c.values[i] = r.values[i]
    BY <1>5, <1>7, <1>8, <1>13
  <2>2. CASE r.index + 1 = r.size
    <3> DEFINE k == Len(h) - (r.index - i)
    <3>1. i \in 0..r.index /\ k \in Int /\ k <= Len(h) /\ Len(g) - (c.index + c.size - i) = k
      <4>1. c.index = 0 /\ r.index = r.size - 1
        BY <1>5, <1>6, <2>0, <2>2
      <4>2. r.index \in Nat /\ r.size \in Nat /\ Len(h) \in Nat /\ i \in Nat /\ i <= r.size - 1
        BY <1>5, <2>1
      <4> QED
        BY <2>0, <4>1, <4>2
    <3>2. r.values[i] = Tally(h, k)
      BY <1>2, <3>1, Zenon DEF Holds
    <3> QED
      BY <1>10, <2>1, <3>1, <3>2, Zenon
  <2>3. CASE r.index + 1 # r.size
    <3> DEFINE k == Len(h) - (r.index + r.size - i)
    <3>1. i \in (r.index + 1)..(r.size - 1) /\ k \in Int /\ k <= Len(h) /\ Len(g) - (c.index + c.size - i) = k
      <4>1. c.index = r.index + 1 /\ i \in ((r.index + 1) + 1)..(r.size - 1)
        BY <1>6, <1>13, <2>0, <2>3, Zenon
      <4>2. r.index \in Nat /\ r.size \in Nat /\ Len(h) \in Nat
        BY <1>5
      <4>3. i \in Nat /\ i >= r.index + 2 /\ i <= r.size - 1
        BY <4>1, <4>2
      <4>4. i \in (r.index + 1)..(r.size - 1) /\ k \in Int /\ k <= Len(h)
        BY <4>2, <4>3
      <4>5. Len(g) - (c.index + c.size - i) = (Len(h) + 1) - (r.index + 1 + r.size - i)
        BY <2>0, <4>1, Zenon
      <4>6. (Len(h) + 1) - (r.index + 1 + r.size - i) = Len(h) - (r.index + r.size - i)
        <5>1. Len(h) \in Int /\ r.index \in Int /\ r.size \in Int /\ i \in Int
          BY <4>2, <4>3
        <5>2. \A p, m \in Int : (p + 1) - (r.index + 1 + r.size - m) = p - (r.index + r.size - m)
          BY <5>1, ShiftedRound, Zenon
        <5> QED
          BY <5>1, <5>2, Zenon
      <4> QED
        BY <4>4, <4>5, <4>6, Zenon
    <3>2. r.values[i] = Tally(h, k)
      BY <1>2, <3>1 DEF Holds
    <3> QED
      BY <1>10, <2>1, <3>1, <3>2, Zenon
  <2> QED
    BY <2>2, <2>3
<1>14. c.size < c.max => c.index = Len(g)
  BY <1>2, <1>5, <1>6, <1>8, <1>10
<1>15. c.max = b.max
  BY <1>3, <1>8, Zenon
<1>16. Holds(c, g)
  BY <1>9, <1>10, <1>12, <1>13, <1>14, Zenon DEF Holds
<1> QED
  BY <1>15, <1>16, Zenon DEF c, g

\* The migration keeps the latest sums.
LEMMA ShrunkHolds ==
  ASSUME NEW b, NEW h, Holds(b, h), b.max = OldMaxSize
  PROVE  Holds(SetMaxSize(b, MaxSize), h) /\ SetMaxSize(b, MaxSize).max = MaxSize
<1> DEFINE a == [b EXCEPT !.max = MaxSize]
           c == SetMaxSize(b, MaxSize)
<1>1. MaxSize \in Nat \ {0} /\ MaxSize <= OldMaxSize /\ OldMaxSize \in Nat
  BY MaintainersAssumption
<1>2. /\ IsBuffer(b) /\ IsMarks(h) /\ Len(h) \in Nat
      /\ b.size \in Nat \ {0} /\ b.index \in 0..(b.size - 1) /\ b.size <= OldMaxSize
      /\ b.size < OldMaxSize => b.index = Len(h)
  BY MarkNumbers DEF Holds, IsBuffer
<1>3. /\ a = [size |-> b.size, values |-> b.values, index |-> b.index, max |-> MaxSize]
      /\ a.size = b.size /\ a.values = b.values /\ a.index = b.index /\ a.max = MaxSize
  BY <1>2 DEF IsBuffer
<1>4. c = Fitted(a)
  BY DEF SetMaxSize
<1> HIDE DEF a, c
<1>5. CASE b.size <= MaxSize
  <2>1. c = a
    BY <1>1, <1>2, <1>3, <1>4, <1>5 DEF Fitted
  <2>2. IsBuffer(c) /\ c.max = MaxSize /\ (c.size < c.max => c.index = Len(h))
    BY <1>1, <1>2, <1>3, <1>5, <2>1 DEF IsBuffer
  <2>3. /\ \A i \in 0..c.index : c.values[i] = Tally(h, Len(h) - (c.index - i))
        /\ \A i \in (c.index + 1)..(c.size - 1) : c.values[i] = Tally(h, Len(h) - (c.index + c.size - i))
    BY <1>3, <2>1, Zenon DEF Holds
  <2> QED
    BY <1>2, <2>2, <2>3, Zenon DEF Holds, c
<1>6. CASE b.size > MaxSize
  <2>1. c = shrink(a)
    BY <1>1, <1>2, <1>3, <1>4, <1>6 DEF Fitted
  <2>2. /\ c.size = MaxSize /\ c.index = MaxSize - 1 /\ c.max = MaxSize
        /\ c.values = [i \in 0..(MaxSize - 1) |-> b.values[addToIndex(b, -(MaxSize - 1 - i))]]
        /\ c = [size |-> c.size, values |-> c.values, index |-> c.index, max |-> c.max]
    <3> DEFINE values == [i \in 0..(MaxSize - 1) |-> b.values[addToIndex(b, -(MaxSize - 1 - i))]]
    <3>1. c = [a EXCEPT !.size = MaxSize, !.index = MaxSize - 1, !.values = values]
      BY <1>3, <2>1 DEF shrink, addToIndex
    <3> HIDE DEF values
    <3>2. c = [size |-> MaxSize, values |-> values, index |-> MaxSize - 1, max |-> MaxSize]
      BY <1>3, <3>1, Zenon
    <3> QED
      BY <3>2 DEF values
  <2>3. IsBuffer(c)
    <3>1. c.values = [i \in 0..(c.size - 1) |-> c.values[i]]
      BY <2>2
    <3> QED
      BY <1>1, <2>2, <3>1 DEF IsBuffer
  <2>4. ASSUME NEW i \in 0..c.index
        PROVE  c.values[i] = Tally(h, Len(h) - (c.index - i))
    <3> DEFINE j == MaxSize - 1 - i
    <3>1. i \in 0..(MaxSize - 1) /\ j \in 0..(b.size - 1) /\ c.index - i = j
      BY <1>1, <1>2, <1>6, <2>2, <2>4
    <3>2. c.values[i] = b.values[addToIndex(b, -j)]
      BY <2>2, <3>1
    <3> HIDE DEF j
    <3>3. addToIndex(b, -j) = IF j <= b.index THEN b.index - j ELSE b.index - j + b.size
      BY <1>2, <3>1, Indexes
    <3>4. CASE j <= b.index
      <4>1. b.index - j \in 0..b.index /\ b.index - (b.index - j) = j
        BY <1>2, <3>1, <3>4
      <4> QED
        BY <3>1, <3>2, <3>3, <3>4, <4>1 DEF Holds
    <3>5. CASE ~(j <= b.index)
      <4>1. b.index - j + b.size \in (b.index + 1)..(b.size - 1) /\ b.index + b.size - (b.index - j + b.size) = j
        BY <1>2, <3>1, <3>5
      <4> QED
        BY <3>1, <3>2, <3>3, <3>5, <4>1, Zenon DEF Holds
    <3> QED
      BY <3>4, <3>5
  <2>5. ~(c.size < c.max) /\ \A i \in (c.index + 1)..(c.size - 1) : FALSE
    BY <1>1, <2>2
  <2> QED
    BY <1>2, <2>2, <2>3, <2>4, <2>5 DEF Holds, c
<1> QED
  BY <1>1, <1>2, <1>5, <1>6

\* The buffer counts the last marks.
LEMMA CountIs ==
  ASSUME NEW b, NEW h, Holds(b, h), b.max \in {MaxSize, OldMaxSize}, NEW w \in 1..(MaxSize - 1)
  PROVE  Count(b, w) = Sum(LastMarks(h, w))
<1>1. /\ IsBuffer(b) /\ IsMarks(h) /\ Len(h) \in Nat
      /\ b.size \in Nat \ {0} /\ b.index \in 0..(b.size - 1) /\ b.size <= b.max /\ b.max \in Nat
      /\ b.size < b.max => b.index = Len(h)
  BY MarkNumbers DEF Holds, IsBuffer
<1>2. MaxSize \in Nat /\ MaxSize <= b.max /\ w \in Nat
  BY <1>1, MaintainersAssumption
<1>3. b.values[b.index] = Tally(h, Len(h))
  <2>1. b.index \in 0..b.index /\ Len(h) - (b.index - b.index) = Len(h)
    BY <1>1
  <2> QED
    BY <2>1 DEF Holds
<1>4. Sum(LastMarks(h, w)) = Tally(h, Len(h)) - Tally(h, Len(h) - w)
  BY <1>1, <1>2, SumOfLast
<1>5. CASE w >= b.size
  <2>1. b.index = Len(h)
    BY <1>1, <1>2, <1>5
  <2>2. addToIndex(b, 1) = IF b.index + 1 = b.size THEN 0 ELSE b.index + 1
    BY <1>1, Indexes
  <2>3. Tally(h, Len(h) - w) = 0
    BY <1>1, <1>2, <1>5, <2>1 DEF Tally
  <2>4. b.values[addToIndex(b, 1)] = 0
    <3>1. CASE b.index + 1 = b.size
      <4>0. 0 \in 0..b.index /\ Len(h) - (b.index - 0) = 0
        BY <1>1, <2>1
      <4>1. b.values[0] = Tally(h, Len(h) - (b.index - 0))
        BY <4>0 DEF Holds
      <4> QED
        BY <2>2, <3>1, <4>0, <4>1 DEF Tally
    <3>2. CASE b.index + 1 # b.size
      <4>1. b.index + 1 \in (b.index + 1)..(b.size - 1)
        BY <1>1, <3>2
      <4>2. b.values[b.index + 1] = Tally(h, Len(h) - (b.index + b.size - (b.index + 1)))
        BY <4>1 DEF Holds
      <4>3. Len(h) - (b.index + b.size - (b.index + 1)) <= 0
        BY <1>1, <2>1, <4>1
      <4> QED
        BY <2>2, <3>2, <4>2, <4>3 DEF Tally
    <3> QED
      BY <3>1, <3>2
  <2> QED
    BY <1>3, <1>4, <1>5, <2>3, <2>4 DEF Count
<1>6. CASE w < b.size
  <2>1. w \in 0..(b.size - 1) /\ ~(w >= b.size)
    BY <1>1, <1>2, <1>6
  <2>2. addToIndex(b, -w) = IF w <= b.index THEN b.index - w ELSE b.index - w + b.size
    BY <1>1, <2>1, Indexes
  <2>3. b.values[addToIndex(b, -w)] = Tally(h, Len(h) - w)
    <3>1. CASE w <= b.index
      <4>1. b.index - w \in 0..b.index /\ b.index - (b.index - w) = w
        BY <1>1, <1>2, <3>1
      <4> QED
        BY <2>2, <3>1, <4>1 DEF Holds
    <3>2. CASE ~(w <= b.index)
      <4>1. b.index - w + b.size \in (b.index + 1)..(b.size - 1) /\ b.index + b.size - (b.index - w + b.size) = w
        <5>1. b.index \in Nat /\ b.size \in Nat /\ w \in Nat /\ w < b.size /\ b.index < w
          BY <1>1, <1>2, <2>1, <3>2
        <5> QED
          BY <5>1
      <4> QED
        BY <2>2, <3>2, <4>1 DEF Holds
    <3> QED
      BY <3>1, <3>2
  <2> QED
    BY <1>3, <1>4, <2>1, <2>3 DEF Count
<1> QED
  BY <1>1, <1>2, <1>5, <1>6

-----------------------------------------------------------------------------
(* The marks of all maintainers.                                           *)

BitmapSize == IF migrated THEN MaxSize ELSE OldMaxSize

\* the bitmaps of a maintainer hold the marks m and w
StateHolds(state, m, w, max) ==
    /\ state = [missing |-> state.missing, incorrect |-> state.incorrect]
    /\ Holds(state.missing, m) /\ state.missing.max = max
    /\ Holds(state.incorrect, w) /\ state.incorrect.max = max

LEMMA StateOf ==
  ASSUME NEW a, NEW b, NEW m, NEW w, NEW max,
         Holds(a, m), a.max = max, Holds(b, w), b.max = max
  PROVE  StateHolds([missing |-> a, incorrect |-> b], m, w, max)
<1> DEFINE state == [missing |-> a, incorrect |-> b]
<1>1. state.missing = a /\ state.incorrect = b
  OBVIOUS
<1> HIDE DEF state
<1>2. state = [missing |-> state.missing, incorrect |-> state.incorrect]
  BY <1>1, Zenon DEF state
<1>3. StateHolds(state, m, w, max)
  BY <1>1, <1>2, Zenon DEF StateHolds
<1> QED
  BY <1>3, Zenon DEF state

\* Whoever is not a maintainer has no marks.
MarksInv ==
    /\ bonded \subseteq Validators /\ DOMAIN maintainers \subseteq Validators
    /\ missed = [v \in Validators |-> missed[v]] /\ wrong = [v \in Validators |-> wrong[v]]
    /\ \A v \in DOMAIN maintainers : StateHolds(maintainers[v], missed[v], wrong[v], BitmapSize)
    /\ \A v \in Validators \ DOMAIN maintainers : missed[v] = <<>> /\ wrong[v] = <<>>

LEMMA RegisterMarks ==
  ASSUME MarksInv, NEW p, RegisterChainMaintainer(p)
  PROVE  MarksInv'
<1> DEFINE v == byProxy[p].validator
<1>1. /\ v \in bonded \ DOMAIN maintainers
      /\ maintainers' = [u \in DOMAIN maintainers \cup {v} |-> IF u = v THEN NewMaintainerState ELSE maintainers[u]]
      /\ UNCHANGED <<bonded, missed, wrong, migrated>>
  BY Zenon DEF RegisterChainMaintainer
<1> HIDE DEF v
<1>2. v \in Validators /\ missed[v] = <<>> /\ wrong[v] = <<>>
  BY <1>1 DEF MarksInv
<1>3. StateHolds(NewMaintainerState, <<>>, <<>>, BitmapSize)
  <2>1. BitmapSize \in {MaxSize, OldMaxSize}
    BY DEF BitmapSize
  <2>2. NewMaintainerState = [missing |-> NewCircularBuffer(BitmapSize), incorrect |-> NewCircularBuffer(BitmapSize)]
    BY DEF NewMaintainerState, BitmapSize
  <2>3. Holds(NewCircularBuffer(BitmapSize), <<>>) /\ NewCircularBuffer(BitmapSize).max = BitmapSize
    BY <2>1, NewHolds, Zenon DEF NewCircularBuffer
  <2> QED
    BY <2>2, <2>3 DEF StateHolds
<1>4. BitmapSize' = BitmapSize
  BY <1>1 DEF BitmapSize
<1>5. \A u \in DOMAIN maintainers' : StateHolds(maintainers'[u], missed'[u], wrong'[u], BitmapSize')
  BY <1>1, <1>2, <1>3, <1>4, Zenon DEF MarksInv
<1>6. DOMAIN maintainers' = DOMAIN maintainers \cup {v}
  BY <1>1
<1> QED
  BY <1>1, <1>2, <1>5, <1>6, Zenon DEF MarksInv

LEMMA RemoveMarks ==
  ASSUME MarksInv, NEW S, RemoveChainMaintainers(S), UNCHANGED <<bonded, migrated>>
  PROVE  MarksInv'
<1>1. /\ DOMAIN maintainers' = DOMAIN maintainers \ S
      /\ \A v \in DOMAIN maintainers' : maintainers'[v] = maintainers[v]
  BY DEF RemoveChainMaintainers, Restrict
<1>2. /\ missed' = [v \in Validators |-> IF v \in S THEN <<>> ELSE missed[v]]
      /\ wrong' = [v \in Validators |-> IF v \in S THEN <<>> ELSE wrong[v]]
      /\ BitmapSize' = BitmapSize
  BY DEF RemoveChainMaintainers, BitmapSize
<1>3. ASSUME NEW v \in DOMAIN maintainers'
      PROVE  StateHolds(maintainers'[v], missed'[v], wrong'[v], BitmapSize')
  <2>1. v \in Validators /\ v \notin S /\ v \in DOMAIN maintainers
    BY <1>1 DEF MarksInv
  <2>2. missed'[v] = missed[v] /\ wrong'[v] = wrong[v]
    BY <1>2, <2>1
  <2> QED
    BY <1>1, <1>2, <2>1, <2>2, Zenon DEF MarksInv
<1>4. ASSUME NEW v \in Validators \ DOMAIN maintainers'
      PROVE  missed'[v] = <<>> /\ wrong'[v] = <<>>
  BY <1>1, <1>2 DEF MarksInv
<1>5. bonded' \subseteq Validators /\ DOMAIN maintainers' \subseteq Validators
  BY <1>1 DEF MarksInv
<1>6. missed' = [v \in Validators |-> missed'[v]] /\ wrong' = [v \in Validators |-> wrong'[v]]
  BY <1>2
<1> QED
  BY <1>3, <1>4, <1>5, <1>6 DEF MarksInv

LEMMA MigrateMarks ==
  ASSUME MarksInv, Migrate8to9
  PROVE  MarksInv'
<1>1. /\ maintainers' = [v \in DOMAIN maintainers |->
                           [missing |-> SetMaxSize(maintainers[v].missing, MaxSize),
                            incorrect |-> SetMaxSize(maintainers[v].incorrect, MaxSize)]]
      /\ UNCHANGED <<bonded, missed, wrong>> /\ BitmapSize = OldMaxSize /\ BitmapSize' = MaxSize
  BY DEF Migrate8to9, shrinkMaintainerStateBitmaps, BitmapSize
<1>2. ASSUME NEW v \in DOMAIN maintainers
      PROVE  StateHolds(maintainers'[v], missed[v], wrong[v], MaxSize)
  <2>1. maintainers'[v] = [missing |-> SetMaxSize(maintainers[v].missing, MaxSize),
                           incorrect |-> SetMaxSize(maintainers[v].incorrect, MaxSize)]
    BY <1>1
  <2>2. StateHolds(maintainers[v], missed[v], wrong[v], OldMaxSize)
    BY <1>1, Zenon DEF MarksInv
  <2>3. Holds(maintainers[v].missing, missed[v]) /\ maintainers[v].missing.max = OldMaxSize
    BY <2>2, Zenon DEF StateHolds
  <2>4. Holds(maintainers[v].incorrect, wrong[v]) /\ maintainers[v].incorrect.max = OldMaxSize
    BY <2>2 DEF StateHolds
  <2>5. Holds(SetMaxSize(maintainers[v].missing, MaxSize), missed[v]) /\ SetMaxSize(maintainers[v].missing, MaxSize).max = MaxSize
    BY <2>3, ShrunkHolds
  <2>6. Holds(SetMaxSize(maintainers[v].incorrect, MaxSize), wrong[v]) /\ SetMaxSize(maintainers[v].incorrect, MaxSize).max = MaxSize
    BY <2>4, ShrunkHolds
  <2>7. StateHolds([missing |-> SetMaxSize(maintainers[v].missing, MaxSize),
                    incorrect |-> SetMaxSize(maintainers[v].incorrect, MaxSize)], missed[v], wrong[v], MaxSize)
    BY <2>5, <2>6, StateOf, Zenon
  <2> QED
    BY <2>1, <2>7, Zenon
<1>3. DOMAIN maintainers' = DOMAIN maintainers
  BY <1>1
<1> QED
  BY <1>1, <1>2, <1>3, Zenon DEF MarksInv

\* A poll that is closed marks the voters who are maintainers.
LEMMA CloseMarks ==
  ASSUME MarksInv, ClosePoll
  PROVE  MarksInv'
<1>1. PICK absent : HandleExpiredPoll(absent) \/ \E incorrect : HandleCompletedPoll(absent, incorrect)
  BY DEF ClosePoll
<1>2. UNCHANGED <<bonded, migrated>> /\ BitmapSize' = BitmapSize
  BY DEF ClosePoll, BitmapSize
<1>3. missed' = [v \in Validators |-> IF v \in Marked THEN Append(missed[v], Bit(v \in absent)) ELSE missed[v]]
  BY <1>1 DEF HandleExpiredPoll, HandleCompletedPoll, MarkMissingVote
<1>4. \A v : Bit(v \in absent) \in {0, 1}
  BY DEF Bit
<1>5. ASSUME NEW v \in DOMAIN maintainers
      PROVE  /\ StateHolds(maintainers[v], missed[v], wrong[v], BitmapSize)
             /\ Holds(maintainers[v].missing, missed[v]) /\ maintainers[v].missing.max = BitmapSize
             /\ Holds(maintainers[v].incorrect, wrong[v]) /\ maintainers[v].incorrect.max = BitmapSize
             /\ maintainers[v] = [missing |-> maintainers[v].missing, incorrect |-> maintainers[v].incorrect]
             /\ Holds(Add(maintainers[v].missing, Bit(v \in absent)), Append(missed[v], Bit(v \in absent)))
             /\ Add(maintainers[v].missing, Bit(v \in absent)).max = BitmapSize
             /\ v \in Validators
  <2>1. StateHolds(maintainers[v], missed[v], wrong[v], BitmapSize) /\ v \in Validators
    BY Zenon DEF MarksInv
  <2>2. /\ Holds(maintainers[v].missing, missed[v]) /\ maintainers[v].missing.max = BitmapSize
        /\ Holds(maintainers[v].incorrect, wrong[v]) /\ maintainers[v].incorrect.max = BitmapSize
        /\ maintainers[v] = [missing |-> maintainers[v].missing, incorrect |-> maintainers[v].incorrect]
    BY <2>1, Zenon DEF StateHolds
  <2> QED
    BY <1>4, <2>1, <2>2, AddHolds, Zenon
<1>6. ASSUME NEW new, DOMAIN maintainers' = DOMAIN maintainers,
             wrong' = [v \in Validators |-> new[v]],
             \A v \in DOMAIN maintainers : StateHolds(maintainers'[v], missed'[v], new[v], BitmapSize),
             \A v \in Validators \ DOMAIN maintainers : new[v] = wrong[v]
      PROVE  MarksInv'
  <2>1. missed' = [v \in Validators |-> missed'[v]] /\ wrong' = [v \in Validators |-> wrong'[v]]
    BY <1>3, <1>6, Zenon
  <2>2. \A v \in Validators \ DOMAIN maintainers : v \notin Marked /\ missed'[v] = missed[v] /\ wrong'[v] = wrong[v]
    BY <1>3, <1>6, Zenon DEF Marked
  <2>3. \A v \in DOMAIN maintainers' : StateHolds(maintainers'[v], missed'[v], wrong'[v], BitmapSize')
    BY <1>2, <1>6 DEF MarksInv
  <2> QED
    BY <1>2, <1>6, <2>1, <2>2, <2>3 DEF MarksInv
<1>7. CASE HandleExpiredPoll(absent)
  <2>1. /\ maintainers' = [v \in DOMAIN maintainers |->
                             IF v \in Marked THEN [maintainers[v] EXCEPT !.missing = Add(@, Bit(v \in absent))]
                             ELSE maintainers[v]]
        /\ wrong' = wrong
    BY <1>7 DEF HandleExpiredPoll
  <2>2. ASSUME NEW v \in DOMAIN maintainers
        PROVE  StateHolds(maintainers'[v], missed'[v], wrong[v], BitmapSize)
    <3>1. CASE v \in Marked
      <4>1. maintainers'[v] = [missing |-> Add(maintainers[v].missing, Bit(v \in absent)), incorrect |-> maintainers[v].incorrect]
        BY <1>5, <2>1, <3>1
      <4>2. missed'[v] = Append(missed[v], Bit(v \in absent))
        BY <1>3, <1>5, <3>1, Zenon
      <4>3. StateHolds([missing |-> Add(maintainers[v].missing, Bit(v \in absent)),
                        incorrect |-> maintainers[v].incorrect],
                       Append(missed[v], Bit(v \in absent)), wrong[v], BitmapSize)
        BY <1>5, StateOf, Zenon
      <4> QED
        BY <4>1, <4>2, <4>3, Zenon
    <3>2. CASE v \notin Marked
      <4>1. maintainers'[v] = maintainers[v] /\ missed'[v] = missed[v]
        BY <1>3, <1>5, <2>1, <3>2
      <4> QED
        BY <1>5, <4>1, Zenon
    <3> QED
      BY <3>1, <3>2, Zenon
  <2>3. wrong' = [v \in Validators |-> wrong[v]]
    BY <2>1 DEF MarksInv
  <2>4. DOMAIN maintainers' = DOMAIN maintainers
    BY <2>1
  <2> QED
    BY <1>6, <2>2, <2>3, <2>4, Zenon
<1>8. ASSUME NEW incorrect, HandleCompletedPoll(absent, incorrect)
      PROVE  MarksInv'
  <2> DEFINE new == [v \in Validators |-> IF v \in Marked THEN Append(wrong[v], Bit(v \in incorrect)) ELSE wrong[v]]
  <2>1. /\ maintainers' = [v \in DOMAIN maintainers |->
                             IF v \in Marked THEN MarkedState(v, absent, incorrect) ELSE maintainers[v]]
        /\ wrong' = new
    BY <1>8 DEF HandleCompletedPoll, MarkIncorrectVote
  <2>2. ASSUME NEW v \in DOMAIN maintainers
        PROVE  StateHolds(maintainers'[v], missed'[v], new[v], BitmapSize)
    <3>1. CASE v \in Marked
      <4>1. maintainers'[v] = [missing |-> Add(maintainers[v].missing, Bit(v \in absent)),
                               incorrect |-> Add(maintainers[v].incorrect, Bit(v \in incorrect))]
        BY <2>1, <3>1, Zenon DEF MarkedState
      <4>2. missed'[v] = Append(missed[v], Bit(v \in absent)) /\ new[v] = Append(wrong[v], Bit(v \in incorrect))
        BY <1>3, <1>5, <3>1, Zenon
      <4>3. /\ Holds(Add(maintainers[v].incorrect, Bit(v \in incorrect)), Append(wrong[v], Bit(v \in incorrect)))
            /\ Add(maintainers[v].incorrect, Bit(v \in incorrect)).max = BitmapSize
        <5>1. Bit(v \in incorrect) \in {0, 1}
          BY DEF Bit
        <5>2. Holds(maintainers[v].incorrect, wrong[v]) /\ maintainers[v].incorrect.max = BitmapSize
          BY <1>5, Zenon
        <5> QED
          BY <5>1, <5>2, AddHolds, Zenon
      <4>4. StateHolds([missing |-> Add(maintainers[v].missing, Bit(v \in absent)),
                        incorrect |-> Add(maintainers[v].incorrect, Bit(v \in incorrect))],
                       Append(missed[v], Bit(v \in absent)), Append(wrong[v], Bit(v \in incorrect)), BitmapSize)
        BY <1>5, <4>3, StateOf, Zenon
      <4> QED
        BY <4>1, <4>2, <4>4, Zenon
    <3>2. CASE v \notin Marked
      <4>1. maintainers'[v] = maintainers[v] /\ missed'[v] = missed[v] /\ new[v] = wrong[v]
        BY <1>3, <1>5, <2>1, <3>2, Zenon
      <4> QED
        BY <1>5, <4>1, Zenon
    <3> QED
      BY <3>1, <3>2, Zenon
  <2>3. wrong' = [v \in Validators |-> new[v]] /\ \A v \in Validators \ DOMAIN maintainers : new[v] = wrong[v]
    BY <2>1, Zenon DEF Marked
  <2>4. DOMAIN maintainers' = DOMAIN maintainers
    BY <2>1
  <2> HIDE DEF new
  <2> QED
    BY <1>6, <2>2, <2>3, <2>4
<1> QED
  BY <1>1, <1>7, <1>8

LEMMA MarksStep ==
  ASSUME MarksInv, [MaintainersNext]_maintainersVars
  PROVE  MarksInv'
<1>1. ASSUME UNCHANGED <<markVars, migrated>>, bonded' \subseteq Validators
      PROVE  MarksInv'
  <2>1. UNCHANGED <<maintainers, missed, wrong>> /\ BitmapSize' = BitmapSize
    BY <1>1 DEF markVars, BitmapSize
  <2> QED
    BY <1>1, <2>1, Zenon DEF MarksInv
<1>2. bonded \subseteq Validators
  BY DEF MarksInv
<1>3. ASSUME NEW v \in Validators, NEW p, RegisterProxy(v, p)
      PROVE  MarksInv'
  BY <1>1, <1>2, <1>3, Zenon DEF RegisterProxy
<1>4. ASSUME NEW v \in Validators, DeactivateProxy(v) \/ Unbond(v) \/ Bond(v)
      PROVE  MarksInv'
  <2>1. bonded' \subseteq Validators
    BY <1>2, <1>4, Zenon DEF DeactivateProxy, Unbond, Bond
  <2>2. UNCHANGED <<markVars, migrated>>
    BY <1>4, Zenon DEF DeactivateProxy, Unbond, Bond
  <2> QED
    BY <1>1, <2>1, <2>2
<1>5. ASSUME NEW p, DeregisterChainMaintainer(p)
      PROVE  MarksInv'
  <2>1. RemoveChainMaintainers({byProxy[p].validator}) /\ UNCHANGED <<bonded, migrated>>
    BY <1>5 DEF DeregisterChainMaintainer
  <2> QED
    BY <2>1, RemoveMarks
<1>6. ASSUME activateChain \/ deactivateChain \/ StartPoll
      PROVE  MarksInv'
  BY <1>1, <1>2, <1>6 DEF activateChain, deactivateChain, StartPoll
<1>7. ASSUME EndBlock
      PROVE  MarksInv'
  <2>1. RemoveChainMaintainers(DOMAIN maintainers \ {v \in DOMAIN maintainers : Keeps(v)}) /\ UNCHANGED <<bonded, migrated>>
    BY <1>7, Zenon DEF EndBlock
  <2> QED
    BY <2>1, RemoveMarks
<1>8. ASSUME UNCHANGED maintainersVars
      PROVE  MarksInv'
  BY <1>1, <1>2, <1>8 DEF maintainersVars
<1> QED
  BY <1>3, <1>4, <1>5, <1>6, <1>7, <1>8, RegisterMarks, CloseMarks, MigrateMarks, Zenon DEF MaintainersNext

LEMMA MarksAlways == MaintainersSpec => []MarksInv
<1>1. MaintainersInit => MarksInv
  BY DEF MaintainersInit, MarksInv
<1> QED
  BY <1>1, MarksStep, PTL DEF MaintainersSpec

LEMMA MarksCounted ==
  ASSUME MarksInv
  PROVE  CountsMatchVotes
<1> SUFFICES ASSUME NEW v \in DOMAIN maintainers, NEW w \in 1..(MaxSize - 1)
             PROVE  /\ Count(maintainers[v].missing, w) = Sum(LastMarks(missed[v], w))
                    /\ Count(maintainers[v].incorrect, w) = Sum(LastMarks(wrong[v], w))
  BY Zenon DEF CountsMatchVotes
<1>1. StateHolds(maintainers[v], missed[v], wrong[v], BitmapSize)
  BY Zenon DEF MarksInv
<1>2. BitmapSize \in {MaxSize, OldMaxSize}
  BY DEF BitmapSize
<1> QED
  BY <1>1, <1>2, CountIs DEF StateHolds

(* CountsMatchVotes, for every instance: the sums that the circular buffer *)
(* keeps (Add, grow, shrink, SetMaxSize) give the marks of the last polls, *)
(* for any sizes, windows, registrations and numbers of polls.             *)
THEOREM CountsAreExact == MaintainersSpec => []CountsMatchVotes
  BY MarksAlways, MarksCounted, PTL

(* RemovedForCause, for every instance: checkChainMaintainers of x/nexus   *)
(* removes exactly those that the votes since the registration condemn.    *)
THEOREM JustRemovals == MaintainersSpec => RemovedForCause
<1> DEFINE Just == EndBlock => \A v \in DOMAIN maintainers :
                      v \in DOMAIN maintainers' <=>
                          /\ v \in DOMAIN byOperator /\ byOperator[v].active
                          /\ Sum(LastMarks(missed[v], Window)) * MissingThreshold.den <= MissingThreshold.num * Window
                          /\ Sum(LastMarks(wrong[v], Window)) * IncorrectThreshold.den <= IncorrectThreshold.num * Window
<1>1. MarksInv => Just
  <2> SUFFICES ASSUME MarksInv, EndBlock, NEW v \in DOMAIN maintainers
               PROVE  v \in DOMAIN maintainers' <=>
                          /\ v \in DOMAIN byOperator /\ byOperator[v].active
                          /\ Sum(LastMarks(missed[v], Window)) * MissingThreshold.den <= MissingThreshold.num * Window
                          /\ Sum(LastMarks(wrong[v], Window)) * IncorrectThreshold.den <= IncorrectThreshold.num * Window
    BY Zenon
  <2>1. Window \in 1..(MaxSize - 1)
    BY MaintainersAssumption
  <2>2. /\ Count(maintainers[v].missing, Window) = Sum(LastMarks(missed[v], Window))
        /\ Count(maintainers[v].incorrect, Window) = Sum(LastMarks(wrong[v], Window))
    BY <2>1, MarksCounted, Zenon DEF CountsMatchVotes
  <2>3. DOMAIN maintainers' = {u \in DOMAIN maintainers : Keeps(u)}
    BY DEF EndBlock, RemoveChainMaintainers, Restrict
  <2>4. v \in DOMAIN maintainers' <=> Keeps(v)
    BY <2>3, Zenon
  <2> QED
    BY <2>2, <2>4, Zenon DEF Keeps, HasProxyActive, IsWithin
<1>2. MaintainersSpec => [][Just]_maintainersVars
  BY <1>1, MarksAlways, PTL
<1> QED
  BY <1>2 DEF RemovedForCause

-----------------------------------------------------------------------------
(* A set of IDs has a first one.                                           *)

Less == {p \in Nat \X Nat : p[1] < p[2]}

\* The order in which the store iterates over IDs is well-founded.
LEMMA LessWellFounded == IsWellFoundedOn(Less, Nat)
  BY NatLessThanWellFounded DEF OpToRel, Less

\* The iterator's first element is an element.
LEMMA MinInSet ==
    ASSUME NEW S \in SUBSET Nat, S # {}
    PROVE  Min(S) \in S
<1>1. PICK x \in S : \A y \in S : ~(<<y, x>> \in Less)
  BY LessWellFounded, WFMin, Zenon
<1>2. \A y, z \in Nat : y < z => <<y, z>> \in Less
  BY Zenon DEF Less
<1>3. \A y \in S : x <= y
  <2> TAKE y \in S
  <2>1. x \in Nat /\ y \in Nat
    OBVIOUS
  <2>2. ~(y < x)
    BY <1>1, <1>2, <2>1, Zenon
  <2> QED
    BY <2>1, <2>2
<1> QED
  BY <1>1, <1>3, Zenon DEF Min

-----------------------------------------------------------------------------
(* Queues.                                                                 *)

\* no ID is queued for two blocks
QueuedOnce(q) ==
    \A m \in Messages : \A i, j \in DOMAIN q : m \in q[i] /\ m \in q[j] => i = j

\* The queue of a store that holds nothing is well formed.
LEMMA EmptyQueueType ==
    /\ QueueType(EmptyQueue)
    /\ QueuedOnce(EmptyQueue)
    /\ \A m \in Messages : ~IsQueued(EmptyQueue, m)
  BY DEF QueueType, QueuedOnce, EmptyQueue, IsQueued

\* BlockHeightKVQueue.Enqueue adds the ID to the current block.
LEMMA EnqueueQueue ==
    ASSUME NEW q, QueueType(q), NEW m \in Messages
    PROVE  /\ QueueType(Enqueue(q, m))
           /\ \A n : IsQueued(Enqueue(q, m), n) <=> IsQueued(q, n) \/ n = m
           /\ QueuedOnce(q) /\ ~IsQueued(q, m) => QueuedOnce(Enqueue(q, m))
<1> DEFINE r == Enqueue(q, m)
           l == Len(q)
<1>1. q \in Seq(SUBSET Messages) /\ l \in Nat /\ l > 0 /\ DOMAIN q = 1..l /\ l \in 1..l
  BY DEF QueueType
<1> HIDE DEF l
<1>2. r = [q EXCEPT ![l] = @ \cup {m}]
  BY DEF Enqueue, l
<1> HIDE DEF r
<1>3. r[l] = q[l] \cup {m} /\ \A i \in 1..l : i # l => r[i] = q[i]
  BY <1>1, <1>2
<1>4. r \in Seq(SUBSET Messages) /\ Len(r) = l /\ DOMAIN r = 1..l
  <2>1. q[l] \cup {m} \in SUBSET Messages
    BY <1>1
  <2>2. r \in [1..l -> SUBSET Messages]
    BY <1>1, <1>2, <2>1
  <2> QED
    BY <1>1, <2>2
<1>5. QueueType(r)
  <2> SUFFICES ASSUME NEW i \in 1..(l - 1) PROVE r[i] # {}
    BY <1>1, <1>4, Zenon DEF QueueType
  <2>1. i \in 1..l /\ i # l
    BY <1>1
  <2>2. q[i] # {}
    BY DEF QueueType, l
  <2> QED
    BY <1>3, <2>1, <2>2
<1>6. ASSUME NEW n PROVE IsQueued(r, n) <=> IsQueued(q, n) \/ n = m
  <2>1. IsQueued(r, n) => IsQueued(q, n) \/ n = m
    BY <1>1, <1>3, <1>4 DEF IsQueued
  <2>2. IsQueued(q, n) => IsQueued(r, n)
    BY <1>1, <1>3, <1>4 DEF IsQueued
  <2>3. IsQueued(r, m)
    BY <1>1, <1>3, <1>4 DEF IsQueued
  <2> QED
    BY <2>1, <2>2, <2>3
<1>7. ASSUME QueuedOnce(q), ~IsQueued(q, m) PROVE QueuedOnce(r)
  <2> SUFFICES ASSUME NEW n \in Messages, NEW i \in 1..l, NEW j \in 1..l,
                      n \in r[i], n \in r[j]
               PROVE  i = j
    BY <1>4 DEF QueuedOnce
  <2>1. \A k \in 1..l : m \notin q[k]
    BY <1>1, <1>7 DEF IsQueued
  <2>2. CASE n = m
    BY <1>3, <2>1, <2>2
  <2>3. CASE n # m
    <3>1. n \in q[i] /\ n \in q[j]
      BY <1>3, <2>3
    <3> QED
      BY <1>1, <1>7, <3>1 DEF QueuedOnce
  <2> QED
    BY <2>2, <2>3
<1> QED
  BY <1>5, <1>6, <1>7 DEF r

\* BlockHeightKVQueue.Dequeue finds an ID when there is one, and removes it.
LEMMA DequeueQueue ==
    ASSUME NEW q, QueueType(q), q # EmptyQueue
    PROVE  /\ FirstOf(q) \in Messages
           /\ IsQueued(q, FirstOf(q))
           /\ QueueType(Dequeue(q))
           /\ QueuedOnce(q) => /\ QueuedOnce(Dequeue(q))
                               /\ \A n : IsQueued(Dequeue(q), n) <=> IsQueued(q, n) /\ n # FirstOf(q)
<1> DEFINE f == FirstOf(q)
           r == Dequeue(q)
<1>1. /\ q \in Seq(SUBSET Messages) /\ Len(q) \in Nat /\ Len(q) > 0
      /\ DOMAIN q = 1..Len(q)
  BY DEF QueueType
<1>2. q[1] # {}
  <2>1. CASE Len(q) > 1
    BY <1>1, <2>1 DEF QueueType
  <2>2. CASE Len(q) = 1
    <3>1. q = <<q[1]>>
      BY <1>1, <2>2
    <3> QED
      BY <3>1 DEF EmptyQueue
  <2> QED
    BY <1>1, <2>1, <2>2
<1>3. f \in q[1]
  <2>1. q[1] \in SUBSET Nat
    BY <1>1, FlowAssumption DEF FlowAssumption
  <2> QED
    BY <1>2, <2>1, MinInSet DEF FirstOf
<1>4. f \in Messages /\ IsQueued(q, f)
  BY <1>1, <1>3 DEF IsQueued
<1> HIDE DEF f
<1>5. CASE q[1] = {f} /\ Len(q) > 1
  <2>1. r = Tail(q)
    BY <1>5 DEF Dequeue, f
  <2>2. /\ r \in Seq(SUBSET Messages) /\ Len(r) = Len(q) - 1 /\ DOMAIN r = 1..(Len(q) - 1)
        /\ \A i \in 1..(Len(q) - 1) : r[i] = q[i + 1]
    BY <1>1, <1>5, <2>1
  <2> HIDE DEF r
  <2>3. QueueType(r)
    <3> SUFFICES ASSUME NEW i \in 1..(Len(r) - 1) PROVE r[i] # {}
      <4>1. Len(r) > 0
        BY <1>1, <1>5, <2>2
      <4> QED
        BY <2>2, <4>1, Zenon DEF QueueType
    <3>1. i \in 1..(Len(q) - 1) /\ i + 1 \in 1..(Len(q) - 1) /\ r[i] = q[i + 1]
      BY <1>1, <2>2
    <3> QED
      BY <3>1 DEF QueueType
  <2>4. ASSUME QueuedOnce(q) PROVE QueuedOnce(r)
    <3> SUFFICES ASSUME NEW n \in Messages, NEW i \in 1..(Len(q) - 1), NEW j \in 1..(Len(q) - 1),
                        n \in r[i], n \in r[j]
                 PROVE  i = j
      BY <2>2 DEF QueuedOnce
    <3>1. i + 1 \in DOMAIN q /\ j + 1 \in DOMAIN q /\ n \in q[i + 1] /\ n \in q[j + 1]
      BY <1>1, <2>2
    <3>2. i + 1 = j + 1
      BY <2>4, <3>1 DEF QueuedOnce
    <3> QED
      BY <1>1, <3>2
  <2>5. ASSUME QueuedOnce(q), NEW n PROVE IsQueued(r, n) <=> IsQueued(q, n) /\ n # f
    <3>1. ASSUME IsQueued(r, n) PROVE IsQueued(q, n) /\ n # f
      <4>1. PICK i \in 1..(Len(q) - 1) : n \in r[i]
        BY <2>2, <3>1 DEF IsQueued
      <4>2. i + 1 \in DOMAIN q /\ n \in q[i + 1] /\ 1 \in DOMAIN q /\ i + 1 # 1
        BY <1>1, <2>2, <4>1
      <4>3. n # f
        BY <1>3, <1>4, <2>5, <4>2 DEF QueuedOnce
      <4> QED
        BY <4>2, <4>3 DEF IsQueued
    <3>2. ASSUME IsQueued(q, n), n # f PROVE IsQueued(r, n)
      <4>1. PICK i \in 1..Len(q) : n \in q[i]
        BY <1>1, <3>2 DEF IsQueued
      <4>2. i # 1
        BY <1>5, <3>2, <4>1
      <4>3. i - 1 \in 1..(Len(q) - 1) /\ r[i - 1] = q[(i - 1) + 1] /\ (i - 1) + 1 = i
        BY <1>1, <2>2, <4>2
      <4> QED
        BY <2>2, <4>1, <4>3, Zenon DEF IsQueued
    <3> QED
      BY <3>1, <3>2
  <2> QED
    BY <1>4, <2>3, <2>4, <2>5 DEF f, r
<1>6. CASE ~(q[1] = {f} /\ Len(q) > 1)
  <2>1. r = [q EXCEPT ![1] = @ \ {f}]
    BY <1>6 DEF Dequeue, f
  <2>2. /\ r \in Seq(SUBSET Messages) /\ Len(r) = Len(q) /\ DOMAIN r = 1..Len(q)
        /\ r[1] = q[1] \ {f}
        /\ \A i \in 1..Len(q) : i # 1 => r[i] = q[i]
    <3>1. 1 \in DOMAIN q /\ q[1] \ {f} \in SUBSET Messages
      BY <1>1
    <3>2. r \in [1..Len(q) -> SUBSET Messages]
      BY <1>1, <2>1, <3>1
    <3>3. r \in Seq(SUBSET Messages) /\ Len(r) = Len(q) /\ DOMAIN r = 1..Len(q)
      BY <1>1, <3>2
    <3>4. r[1] = q[1] \ {f} /\ \A i \in 1..Len(q) : i # 1 => r[i] = q[i]
      BY <1>1, <2>1, <3>1
    <3> QED
      BY <3>3, <3>4
  <2> HIDE DEF r
  <2>3. QueueType(r)
    <3> SUFFICES ASSUME NEW i \in 1..(Len(r) - 1) PROVE r[i] # {}
      BY <1>1, <2>2, Zenon DEF QueueType
    <3>1. CASE i = 1
      <4>1. Len(q) > 1
        BY <1>1, <2>2
      <4>2. q[1] # {f}
        BY <1>6, <4>1
      <4> QED
        BY <1>3, <2>2, <3>1, <4>2
    <3>2. CASE i # 1
      <4>1. i \in 1..(Len(q) - 1) /\ i \in 1..Len(q)
        BY <1>1, <2>2
      <4>2. q[i] # {}
        BY <4>1 DEF QueueType
      <4> QED
        BY <2>2, <3>2, <4>1, <4>2
    <3> QED
      BY <3>1, <3>2
  <2>4. ASSUME QueuedOnce(q) PROVE QueuedOnce(r)
    BY <1>1, <2>2, <2>4 DEF QueuedOnce
  <2>5. ASSUME QueuedOnce(q), NEW n PROVE IsQueued(r, n) <=> IsQueued(q, n) /\ n # f
    <3>1. ASSUME IsQueued(r, n) PROVE IsQueued(q, n) /\ n # f
      <4>1. PICK i \in 1..Len(q) : n \in r[i]
        BY <2>2, <3>1 DEF IsQueued
      <4>2. n \in q[i] /\ (i = 1 => n # f)
        BY <1>1, <2>2, <4>1
      <4>3. i # 1 => n # f
        BY <1>1, <1>3, <1>4, <2>5, <4>2 DEF QueuedOnce
      <4> QED
        BY <1>1, <4>2, <4>3 DEF IsQueued
    <3>2. ASSUME IsQueued(q, n), n # f PROVE IsQueued(r, n)
      BY <1>1, <2>2, <3>2 DEF IsQueued
    <3> QED
      BY <3>1, <3>2
  <2> QED
    BY <1>4, <2>3, <2>4, <2>5 DEF f, r
<1> QED
  BY <1>5, <1>6

\* A new block has nothing queued yet.
LEMMA InNextBlockQueue ==
    ASSUME NEW q, QueueType(q)
    PROVE  /\ QueueType(InNextBlock(q))
           /\ \A n : IsQueued(InNextBlock(q), n) <=> IsQueued(q, n)
           /\ QueuedOnce(q) => QueuedOnce(InNextBlock(q))
<1>1. CASE q[Len(q)] = {}
  BY <1>1 DEF InNextBlock
<1>2. CASE q[Len(q)] # {}
  <2> DEFINE r == Append(q, {})
  <2>1. InNextBlock(q) = r
    BY <1>2 DEF InNextBlock
  <2>2. /\ q \in Seq(SUBSET Messages) /\ Len(q) \in Nat /\ Len(q) > 0 /\ DOMAIN q = 1..Len(q)
        /\ r \in Seq(SUBSET Messages) /\ Len(r) = Len(q) + 1 /\ DOMAIN r = 1..(Len(q) + 1)
        /\ \A i \in 1..(Len(q) + 1) : r[i] = IF i = Len(q) + 1 THEN {} ELSE q[i]
    BY DEF QueueType
  <2> HIDE DEF r
  <2>4. QueueType(r)
    BY <1>2, <2>2 DEF QueueType
  <2>5. \A n : IsQueued(r, n) <=> IsQueued(q, n)
    BY <2>2 DEF IsQueued
  <2>6. QueuedOnce(q) => QueuedOnce(r)
    BY <2>2 DEF QueuedOnce
  <2> QED
    BY <2>1, <2>4, <2>5, <2>6
<1> QED
  BY <1>1, <1>2

-----------------------------------------------------------------------------
(* Types.                                                                  *)

\* Routing keeps the types of the stores, whoever routes.
LEMMA RouteToTypes ==
    ASSUME FlowTypeOK, NEW m \in Messages, NEW payload \in BOOLEAN, RouteTo(m, payload)
    PROVE  /\ message' \in [Messages -> {"none", "approved", "processing", "executed", "failed"}]
           /\ processing' \subseteq Messages
           /\ packets' \in [Messages -> Nat]
  BY DEF FlowTypeOK, RouteTo

\* Every action of the model keeps the types of the stores.
LEMMA TypeStep ==
    ASSUME FlowTypeOK, FlowNext
    PROVE  FlowTypeOK'
<1> USE FlowAssumption DEF FlowAssumption
<1>1. CASE \E m \in Messages : HandleResult(m)
  <2>1. PICK m \in Messages : HandleResult(m)
    BY <1>1
  <2>2. QueueType(eventQueue')
    BY <2>1, EnqueueQueue DEF FlowTypeOK, HandleResult
  <2> QED
    BY <2>1, <2>2 DEF FlowTypeOK, HandleResult, messageVars, chainVars, blockVars
<1>2. CASE \E m \in Messages : RetryFailedEvent(m)
  <2>1. PICK m \in Messages : RetryFailedEvent(m)
    BY <1>2
  <2>2. QueueType(eventQueue')
    BY <2>1, EnqueueQueue DEF FlowTypeOK, RetryFailedEvent
  <2> QED
    BY <2>1, <2>2 DEF FlowTypeOK, RetryFailedEvent, messageVars, chainVars, blockVars
<1>3. CASE processConfirmedEvents
  <2> DEFINE m == FirstOf(eventQueue)
  <2>1. m \in Messages /\ QueueType(eventQueue')
    BY <1>3, DequeueQueue DEF FlowTypeOK, processConfirmedEvents
  <2>2. processConfirmedEvent(m)
    BY <1>3 DEF processConfirmedEvents
  <2> HIDE DEF m
  <2>3. QueueType(routeQueue')
    BY <2>1, <2>2, EnqueueQueue DEF FlowTypeOK, processConfirmedEvent
  <2>4. /\ event' \in [Messages -> {"none", "confirmed", "completed", "failed"}]
        /\ message' \in [Messages -> {"none", "approved", "processing", "executed", "failed"}]
    BY <2>1, <2>2 DEF FlowTypeOK, processConfirmedEvent
  <2> QED
    BY <1>3, <2>1, <2>3, <2>4 DEF FlowTypeOK, processConfirmedEvents, chainVars
<1>4. CASE \E m \in Messages : RouteMessageTx(m)
  <2>1. PICK m \in Messages : RouteMessageTx(m)
    BY <1>4
  <2>2. RouteTo(m, TRUE)
    BY <2>1, Zenon DEF RouteMessageTx, RouteMessage
  <2>3. /\ message' \in [Messages -> {"none", "approved", "processing", "executed", "failed"}]
        /\ processing' \subseteq Messages
        /\ packets' \in [Messages -> Nat]
    BY <2>2, RouteToTypes, Zenon
  <2> QED
    BY <2>1, <2>3 DEF FlowTypeOK, RouteMessageTx, eventVars, chainVars, blockVars
<1>5. CASE \E m \in Messages : RetryFailedMessage(m)
  <2>1. PICK m \in Messages : RetryFailedMessage(m)
    BY <1>5
  <2>2. QueueType(routeQueue')
    BY <2>1, EnqueueQueue DEF FlowTypeOK, RetryFailedMessage
  <2> QED
    BY <2>1, <2>2 DEF FlowTypeOK, RetryFailedMessage, eventVars, messageVars, chainVars, blockVars
<1>6. CASE routeQueuedMessages
  <2> DEFINE m == FirstOf(routeQueue)
  <2>1. m \in Messages /\ QueueType(routeQueue')
    BY <1>6, DequeueQueue DEF FlowTypeOK, routeQueuedMessages
  <2>2. RoutingFails(m) \/ RouteMessage(m, FALSE)
    BY <1>6, Zenon DEF routeQueuedMessages
  <2> HIDE DEF m
  <2>3. /\ message' \in [Messages -> {"none", "approved", "processing", "executed", "failed"}]
        /\ processing' \subseteq Messages
        /\ packets' \in [Messages -> Nat]
    <3>1. CASE RoutingFails(m)
      BY <3>1 DEF FlowTypeOK, RoutingFails
    <3>2. CASE RouteMessage(m, FALSE)
      BY <2>1, <3>2, RouteToTypes, Zenon DEF RouteMessage
    <3> QED
      BY <2>2, <3>1, <3>2, Zenon
  <2> QED
    BY <1>6, <2>1, <2>3 DEF FlowTypeOK, routeQueuedMessages, eventVars, chainVars
<1>7. CASE \E m \in Messages : OnRecvMessage(m)
  BY <1>7 DEF FlowTypeOK, OnRecvMessage, eventVars, chainVars, blockVars
<1>8. CASE \E m \in Messages : DispatchMsg(m)
  BY <1>8 DEF FlowTypeOK, DispatchMsg, eventVars, chainVars, blockVars
<1>9. CASE deliverPendingMessages
  <2> DEFINE m == Min(ToDeliver)
  <2>1. deliverMessage(m)
    BY <1>9 DEF deliverPendingMessages
  <2>2. m \in Messages
    <3>1. ToDeliver \in SUBSET Nat /\ ToDeliver # {} /\ ToDeliver \subseteq Messages
      BY <1>9, Zenon DEF FlowTypeOK, ToDeliver, deliverPendingMessages
    <3> QED
      BY <3>1, MinInSet, Zenon
  <2> HIDE DEF m
  <2>3. /\ message' \in [Messages -> {"none", "approved", "processing", "executed", "failed"}]
        /\ processing' \subseteq Messages
        /\ commands' \subseteq Messages
    BY <2>1, <2>2 DEF FlowTypeOK, deliverMessage, SetMessageStatus
  <2>4. /\ handled' \in Nat
        /\ handled' <= EvmLimit
    BY <1>9 DEF FlowTypeOK, deliverPendingMessages
  <2> QED
    BY <1>9, <2>3, <2>4 DEF FlowTypeOK, deliverPendingMessages, eventVars, chainVars
<1>10. CASE \E m \in Messages : setRoutedPacketCompleted(m) \/ setRoutedPacketFailed(m)
  <2>1. PICK m \in Messages, s \in {"executed", "failed"} : SettlePacket(m, s)
    BY <1>10 DEF setRoutedPacketCompleted, setRoutedPacketFailed
  <2>2. message' \in [Messages -> {"none", "approved", "processing", "executed", "failed"}] /\ processing' \subseteq Messages
    BY <2>1 DEF FlowTypeOK, SettlePacket, SetMessageStatus
  <2>3. packets' \in [Messages -> Nat]
    BY <2>1 DEF FlowTypeOK, SettlePacket
  <2> QED
    BY <2>1, <2>2, <2>3 DEF FlowTypeOK, SettlePacket, eventVars, chainVars, blockVars
<1>11. CASE \E c \in Chains : ActivateChain(c) \/ DeactivateChain(c)
  BY <1>11, Zenon DEF FlowTypeOK, ActivateChain, DeactivateChain, eventVars, messageVars, blockVars
<1>12. CASE \E c \in {"evm1", "evm2"} : applyTokenDeployment(c)
  BY <1>12 DEF FlowTypeOK, applyTokenDeployment, Chains, eventVars, messageVars, blockVars
<1>13. CASE EndBlocker
  <2>1. QueueType(eventQueue') /\ QueueType(routeQueue')
    BY <1>13, InNextBlockQueue DEF FlowTypeOK, EndBlocker
  <2>2. stage' \in DOMAIN NextStage
    BY <1>13 DEF FlowTypeOK, EndBlocker, NextStage
  <2> QED
    BY <1>13, <2>1, <2>2 DEF FlowTypeOK, EndBlocker, messageVars, chainVars
<1> QED
  BY <1>1, <1>2, <1>3, <1>4, <1>5, <1>6, <1>7, <1>8, <1>9, <1>10, <1>11, <1>12, <1>13, Zenon DEF FlowNext

-----------------------------------------------------------------------------
(* The queue of confirmed events.                                          *)

\* Every action of the model keeps the queue of events in step with their
\* status.
LEMMA QueueStep ==
    ASSUME FlowTypeOK, ConfirmedAreQueued, FlowNext
    PROVE  ConfirmedAreQueued'
<1>1. /\ QueuedOnce(eventQueue)
      /\ \A n \in Messages : IsQueued(eventQueue, n) <=> event[n] = "confirmed"
  BY Zenon DEF ConfirmedAreQueued, QueuedOnce
<1>2. SUFFICES /\ QueuedOnce(eventQueue')
               /\ \A n \in Messages : IsQueued(eventQueue', n) <=> event'[n] = "confirmed"
  BY DEF ConfirmedAreQueued, QueuedOnce, IsQueued
<1>3. ASSUME NEW m \in Messages, event[m] # "confirmed",
             event' = [event EXCEPT ![m] = "confirmed"], eventQueue' = Enqueue(eventQueue, m)
      PROVE  ConfirmedAreQueued'
  <2>1. ~IsQueued(eventQueue, m)
    BY <1>1, <1>3
  <2>2. /\ QueuedOnce(eventQueue')
        /\ \A n : IsQueued(eventQueue', n) <=> IsQueued(eventQueue, n) \/ n = m
    BY <1>1, <1>3, <2>1, EnqueueQueue DEF FlowTypeOK
  <2>3. \A n \in Messages : IsQueued(eventQueue', n) <=> event'[n] = "confirmed"
    BY <1>1, <1>3, <2>2, Zenon DEF FlowTypeOK
  <2> QED
    BY <2>2, <2>3 DEF ConfirmedAreQueued, QueuedOnce, IsQueued
<1>4. CASE \E m \in Messages : HandleResult(m) \/ RetryFailedEvent(m)
  <2>1. PICK m \in Messages : HandleResult(m) \/ RetryFailedEvent(m)
    BY <1>4
  <2>2. /\ event[m] # "confirmed"
        /\ event' = [event EXCEPT ![m] = "confirmed"]
        /\ eventQueue' = Enqueue(eventQueue, m)
    BY <2>1 DEF HandleResult, RetryFailedEvent
  <2>3. ConfirmedAreQueued'
    BY <1>3, <2>2, Zenon
  <2> QED
    BY <2>3 DEF ConfirmedAreQueued, QueuedOnce, IsQueued
<1>5. CASE processConfirmedEvents
  <2> DEFINE m == FirstOf(eventQueue)
  <2>1. /\ m \in Messages
        /\ QueuedOnce(eventQueue')
        /\ \A n : IsQueued(eventQueue', n) <=> IsQueued(eventQueue, n) /\ n # m
    BY <1>1, <1>5, DequeueQueue DEF FlowTypeOK, processConfirmedEvents
  <2>2. processConfirmedEvent(m)
    BY <1>5 DEF processConfirmedEvents
  <2> HIDE DEF m
  <2>3. event' = [event EXCEPT ![m] = "completed"] \/ event' = [event EXCEPT ![m] = "failed"]
    BY <2>2 DEF processConfirmedEvent
  <2> QED
    BY <1>1, <2>1, <2>3 DEF FlowTypeOK
<1>6. CASE EndBlocker
  <2>1. event' = event
    BY <1>6 DEF EndBlocker
  <2>2. eventQueue' = eventQueue \/ eventQueue' = InNextBlock(eventQueue)
    BY <1>6 DEF EndBlocker
  <2> QED
    BY <1>1, <2>1, <2>2, InNextBlockQueue DEF FlowTypeOK
<1>7. ASSUME UNCHANGED eventVars
      PROVE  /\ QueuedOnce(eventQueue')
             /\ \A n \in Messages : IsQueued(eventQueue', n) <=> event'[n] = "confirmed"
  BY <1>1, <1>7 DEF eventVars
<1>8. CASE \/ \E m \in Messages : RouteMessageTx(m) \/ RetryFailedMessage(m)
           \/ routeQueuedMessages
           \/ \E m \in Messages : OnRecvMessage(m) \/ DispatchMsg(m)
           \/ deliverPendingMessages
           \/ \E m \in Messages : setRoutedPacketCompleted(m) \/ setRoutedPacketFailed(m)
           \/ \E c \in Chains : ActivateChain(c) \/ DeactivateChain(c)
           \/ \E c \in {"evm1", "evm2"} : applyTokenDeployment(c)
  <2>1. UNCHANGED eventVars
    BY <1>8, Zenon DEF RouteMessageTx, RetryFailedMessage, routeQueuedMessages, OnRecvMessage, DispatchMsg,
                deliverPendingMessages, setRoutedPacketCompleted, setRoutedPacketFailed, SettlePacket,
                ActivateChain, DeactivateChain, applyTokenDeployment
  <2> QED
    BY <1>7, <2>1
<1> QED
  BY <1>4, <1>5, <1>6, <1>8 DEF FlowNext

-----------------------------------------------------------------------------
(* The status of a message.                                                *)

\* what the stores of the modules say of a message
MessageOK(n) ==
    /\ From[n] = "evm1" => (event[n] = "completed" <=> message[n] # "none")
    /\ n \in processing <=> message[n] = "processing"
    /\ n \in commands <=> To[n] = "evm2" /\ message[n] = "executed"
    /\ packets[n] = IF To[n] = "cosmos" /\ message[n] = "processing" THEN 1 ELSE 0

StatusOK == CompletedHasMessage /\ IndexMatchesStatus /\ ExecutedHasCommand /\ OnePacketInFlight

\* The properties of the index, the commands, the packets and the events
\* are properties of every single message.
LEMMA StatusOfEach ==
    ASSUME FlowTypeOK
    PROVE  StatusOK <=> \A n \in Messages : MessageOK(n)
  BY DEF FlowTypeOK, StatusOK, MessageOK, CompletedHasMessage, IndexMatchesStatus, ExecutedHasCommand,
         OnePacketInFlight

\* Routing moves a message that is approved or failed to the state that its
\* destination asks for.
LEMMA RouteMessageStatus ==
    ASSUME FlowTypeOK, NEW m \in Messages, NEW payload \in BOOLEAN, RouteMessage(m, payload),
           UNCHANGED <<event, commands>>, NEW n \in Messages, MessageOK(n)
    PROVE  MessageOK(n)'
<1>1. message[m] \in {"approved", "failed"}
  BY Zenon DEF RouteMessage, CanBeProcessed
<1>2. CASE n # m
  BY <1>2, Zenon DEF FlowTypeOK, RouteMessage, RouteTo, MessageOK
<1>3. CASE n = m /\ To[m] = "evm2"
  BY <1>1, <1>3, Zenon DEF FlowTypeOK, RouteMessage, RouteTo, MessageOK
<1>4. CASE n = m /\ To[m] = "cosmos"
  BY <1>1, <1>4 DEF FlowTypeOK, RouteMessage, RouteTo, MessageOK
<1>5. CASE n = m /\ To[m] = "wasm"
  BY <1>1, <1>5 DEF FlowTypeOK, RouteMessage, RouteTo, MessageOK
<1> QED
  BY <1>2, <1>3, <1>4, <1>5, FlowAssumption DEF FlowAssumption

\* Every action of the model keeps what is said of a message.
LEMMA StatusStep ==
    ASSUME FlowTypeOK, ConfirmedAreQueued, FlowNext, NEW n \in Messages, MessageOK(n)
    PROVE  MessageOK(n)'
<1> USE FlowAssumption DEF FlowAssumption
<1>1. CASE \E m \in Messages : HandleResult(m) \/ RetryFailedEvent(m)
  <2>1. PICK m \in Messages : HandleResult(m) \/ RetryFailedEvent(m)
    BY <1>1
  <2>2. /\ event[m] \in {"none", "failed"}
        /\ event' = [event EXCEPT ![m] = "confirmed"]
        /\ UNCHANGED messageVars
    BY <2>1 DEF HandleResult, RetryFailedEvent
  <2> QED
    BY <2>2 DEF MessageOK, FlowTypeOK, messageVars
<1>2. CASE processConfirmedEvents
  <2> DEFINE m == FirstOf(eventQueue)
  <2>1. m \in Messages /\ IsQueued(eventQueue, m)
    BY <1>2, DequeueQueue DEF FlowTypeOK, processConfirmedEvents
  <2>2. processConfirmedEvent(m) /\ UNCHANGED <<processing, commands, packets>>
    BY <1>2 DEF processConfirmedEvents
  <2> HIDE DEF m
  <2>3. event[m] = "confirmed"
    BY <2>1, Zenon DEF ConfirmedAreQueued
  <2>4. CASE CanBecomeMessage(m)
    <3>1. /\ event' = [event EXCEPT ![m] = "completed"]
          /\ message' = [message EXCEPT ![m] = "approved"]
          /\ message[m] = "none"
      BY <2>2, <2>4 DEF processConfirmedEvent, CanBecomeMessage
    <3> QED
      BY <2>1, <2>2, <3>1 DEF MessageOK, FlowTypeOK
  <2>5. CASE ~CanBecomeMessage(m)
    <3>1. event' = [event EXCEPT ![m] = "failed"] /\ message' = message
      BY <2>2, <2>5 DEF processConfirmedEvent
    <3> QED
      BY <2>1, <2>2, <2>3, <3>1 DEF MessageOK, FlowTypeOK
  <2> QED
    BY <2>4, <2>5
<1>3. CASE \E m \in Messages : RouteMessageTx(m)
  BY <1>3, RouteMessageStatus, Zenon DEF RouteMessageTx, eventVars
<1>4. CASE routeQueuedMessages
  <2> DEFINE m == FirstOf(routeQueue)
  <2>1. m \in Messages
    BY <1>4, DequeueQueue DEF FlowTypeOK, routeQueuedMessages
  <2>2. /\ RoutingFails(m) \/ RouteMessage(m, FALSE)
        /\ UNCHANGED <<event, commands>>
    BY <1>4, Zenon DEF routeQueuedMessages, eventVars
  <2> HIDE DEF m
  <2>3. CASE RoutingFails(m)
    BY <2>2, <2>3 DEF RoutingFails, MessageOK
  <2>4. CASE RouteMessage(m, FALSE)
    BY <2>1, <2>2, <2>4, RouteMessageStatus, Zenon
  <2> QED
    BY <2>2, <2>3, <2>4, Zenon
<1>5. CASE \E m \in Messages : OnRecvMessage(m)
  BY <1>5 DEF OnRecvMessage, MessageOK, FlowTypeOK, eventVars
<1>6. CASE \E m \in Messages : DispatchMsg(m)
  BY <1>6 DEF DispatchMsg, MessageOK, FlowTypeOK, eventVars
<1>7. CASE deliverPendingMessages
  <2> DEFINE m == Min(ToDeliver)
  <2>1. deliverMessage(m) /\ UNCHANGED <<event, packets>>
    BY <1>7 DEF deliverPendingMessages, eventVars
  <2>2. m \in Messages /\ To[m] = "evm2"
    <3>1. ToDeliver \in SUBSET Nat /\ ToDeliver # {} /\ ToDeliver \subseteq Messages
      BY <1>7, Zenon DEF FlowTypeOK, ToDeliver, deliverPendingMessages
    <3>2. m \in ToDeliver
      BY <3>1, MinInSet
    <3> QED
      BY <3>1, <3>2 DEF ToDeliver
  <2> HIDE DEF m
  <2>3. message[m] = "processing" /\ processing' = processing \ {m}
    BY <2>1 DEF deliverMessage, SetMessageStatus
  <2>4. CASE CanBeDelivered(m)
    <3>1. commands' = commands \cup {m} /\ message' = [message EXCEPT ![m] = "executed"]
      BY <2>1, <2>4 DEF deliverMessage, SetMessageStatus
    <3> QED
      BY <2>1, <2>2, <2>3, <3>1 DEF MessageOK, FlowTypeOK
  <2>5. CASE ~CanBeDelivered(m)
    <3>1. commands' = commands /\ message' = [message EXCEPT ![m] = "failed"]
      BY <2>1, <2>5 DEF deliverMessage, SetMessageStatus
    <3> QED
      BY <2>1, <2>2, <2>3, <3>1 DEF MessageOK, FlowTypeOK
  <2> QED
    BY <2>4, <2>5
<1>8. CASE \E m \in Messages : setRoutedPacketCompleted(m) \/ setRoutedPacketFailed(m)
  <2>1. PICK m \in Messages, s \in {"executed", "failed"} : SettlePacket(m, s)
    BY <1>8 DEF setRoutedPacketCompleted, setRoutedPacketFailed
  <2>2. /\ packets[m] > 0 /\ packets' = [packets EXCEPT ![m] = packets[m] - 1]
        /\ message[m] = "processing" /\ message' = [message EXCEPT ![m] = s]
        /\ processing' = processing \ {m} /\ UNCHANGED <<event, commands>>
    BY <2>1 DEF SettlePacket, SetMessageStatus, eventVars
  <2>3. CASE n = m
    <3>1. To[m] = "cosmos" /\ packets[m] = 1
      BY <2>2, <2>3 DEF MessageOK
    <3>2. packets'[m] = 0
      BY <2>2, <3>1 DEF FlowTypeOK
    <3> QED
      BY <2>2, <2>3, <3>1, <3>2 DEF MessageOK, FlowTypeOK
  <2>4. CASE n # m
    BY <2>2, <2>4 DEF MessageOK, FlowTypeOK
  <2> QED
    BY <2>3, <2>4
<1>9. CASE \/ \E m \in Messages : RetryFailedMessage(m)
           \/ \E c \in Chains : ActivateChain(c) \/ DeactivateChain(c)
           \/ \E c \in {"evm1", "evm2"} : applyTokenDeployment(c)
           \/ EndBlocker
  <2>1. UNCHANGED <<event, messageVars>>
    BY <1>9, Zenon DEF RetryFailedMessage, ActivateChain, DeactivateChain, applyTokenDeployment, EndBlocker,
                eventVars
  <2> QED
    BY <2>1 DEF MessageOK, messageVars
<1> QED
  BY <1>1, <1>2, <1>3, <1>4, <1>5, <1>6, <1>7, <1>8, <1>9, Zenon DEF FlowNext

-----------------------------------------------------------------------------
(* Theorems.                                                               *)

FlowInv == FlowTypeOK /\ ConfirmedAreQueued /\ StatusOK

\* The conjunction of the safety properties is inductive.
LEMMA FlowInvariant == FlowSpec => []FlowInv
<1>1. FlowInit => FlowInv
  <2> SUFFICES ASSUME FlowInit PROVE FlowInv
    BY Zenon
  <2>1. FlowTypeOK
    BY EmptyQueueType, FlowAssumption DEF FlowInit, FlowTypeOK, FlowAssumption, NextStage
  <2>2. ConfirmedAreQueued
    BY EmptyQueueType, Zenon DEF FlowInit, ConfirmedAreQueued, QueuedOnce
  <2>3. \A n \in Messages : MessageOK(n)
    BY DEF FlowInit, MessageOK
  <2> QED
    BY <2>1, <2>2, <2>3, StatusOfEach DEF FlowInv
<1>2. FlowInv /\ [FlowNext]_flowVars => FlowInv'
  <2> SUFFICES ASSUME FlowInv, [FlowNext]_flowVars PROVE FlowInv'
    OBVIOUS
  <2>1. CASE FlowNext
    <3>1. FlowTypeOK'
      BY <2>1, TypeStep DEF FlowInv
    <3>2. ConfirmedAreQueued'
      BY <2>1, QueueStep DEF FlowInv
    <3>3. \A n \in Messages : MessageOK(n)
      BY StatusOfEach DEF FlowInv
    <3>4. \A n \in Messages : MessageOK(n)'
      BY <2>1, <3>3, StatusStep, Zenon DEF FlowInv
    <3>5. StatusOK'
      BY <3>1, <3>4 DEF FlowTypeOK, StatusOK, MessageOK, CompletedHasMessage, IndexMatchesStatus,
                        ExecutedHasCommand, OnePacketInFlight
    <3> QED
      BY <3>1, <3>2, <3>5 DEF FlowInv
  <2>2. CASE UNCHANGED flowVars
    BY <2>2, Zenon DEF FlowInv, FlowTypeOK, ConfirmedAreQueued, StatusOK, CompletedHasMessage,
                IndexMatchesStatus, ExecutedHasCommand, OnePacketInFlight, QueueType, IsQueued,
                ToDeliver, flowVars, eventVars, messageVars, chainVars, blockVars
  <2> QED
    BY <2>1, <2>2
<1> QED
  BY <1>1, <1>2, PTL DEF FlowSpec

\* The stores of x/evm and x/nexus keep their types, and the queues theirs.
THEOREM FlowTypeCorrect == FlowSpec => []FlowTypeOK
  BY FlowInvariant, PTL DEF FlowInv

\* SetEventCompleted and SetEventFailed never fail in the end blocker of
\* x/evm: exactly the confirmed events are queued, each once.
THEOREM EventsQueuedOnce == FlowSpec => []ConfirmedAreQueued
  BY FlowInvariant, PTL DEF FlowInv

\* An event is completed exactly when its message exists.
THEOREM EventsBecomeMessages == FlowSpec => []CompletedHasMessage
  BY FlowInvariant, PTL DEF FlowInv, StatusOK

\* SetMessageExecuted and SetMessageFailed never fail for a message of the
\* index: it holds exactly the messages being processed.
THEOREM IndexIsExact == FlowSpec => []IndexMatchesStatus
  BY FlowInvariant, PTL DEF FlowInv, StatusOK

\* Neither end blocker meets an event or message whose status does not agree
\* with the queue or the index it was found in.
THEOREM EndBlockersAgree == FlowSpec => []QueuesMatchStatus
  BY EventsQueuedOnce, IndexIsExact, PTL DEF QueuesMatchStatus

\* A message to an EVM chain has one command exactly when it is executed.
THEOREM OneCommandPerMessage == FlowSpec => []ExecutedHasCommand
  BY FlowInvariant, PTL DEF FlowInv, StatusOK

\* Failed attempts leave nothing behind, and successes are complete.
THEOREM EffectsComplete == FlowSpec => []EffectsMatchStatus
  BY EventsBecomeMessages, OneCommandPerMessage, PTL DEF EffectsMatchStatus

\* A message to a cosmos chain never has two packets in flight, however
\* often it is retried.
THEOREM NoSecondPacket == FlowSpec => []OnePacketInFlight
  BY FlowInvariant, PTL DEF FlowInv, StatusOK

\* No step takes a message out of the executed status: it is never routed,
\* delivered or failed again.
THEOREM ExecutedForGood == FlowSpec => ExecutedIsFinal
<1>1. ASSUME FlowInv, [FlowNext]_flowVars, NEW n \in Messages, message[n] = "executed"
      PROVE  message'[n] = "executed"
  <2>1. CASE \/ \E m \in Messages : HandleResult(m) \/ RetryFailedEvent(m) \/ RetryFailedMessage(m)
             \/ \E c \in Chains : ActivateChain(c) \/ DeactivateChain(c)
             \/ \E c \in {"evm1", "evm2"} : applyTokenDeployment(c)
             \/ EndBlocker
             \/ UNCHANGED flowVars
    <3>1. UNCHANGED messageVars
      BY <2>1, Zenon DEF HandleResult, RetryFailedEvent, RetryFailedMessage, ActivateChain,
                         DeactivateChain, applyTokenDeployment, EndBlocker, flowVars
    <3> QED
      BY <1>1, <3>1 DEF messageVars
  <2>2. ASSUME NEW m, NEW s, message[m] # "executed", message' = [message EXCEPT ![m] = s]
        PROVE  message'[n] = "executed"
    BY <1>1, <2>2 DEF FlowInv, FlowTypeOK
  <2>3. CASE processConfirmedEvents
    <3>1. processConfirmedEvent(FirstOf(eventQueue))
      BY <2>3 DEF processConfirmedEvents
    <3> QED
      BY <1>1, <2>2, <3>1 DEF processConfirmedEvent, CanBecomeMessage
  <2>4. ASSUME NEW m, NEW payload \in BOOLEAN, RouteMessage(m, payload)
        PROVE  message'[n] = "executed"
    BY <2>2, <2>4 DEF RouteMessage, CanBeProcessed, RouteTo
  <2>5. CASE \E m \in Messages : RouteMessageTx(m)
    BY <2>4, <2>5, Zenon DEF RouteMessageTx
  <2>6. CASE routeQueuedMessages
    <3>1. RoutingFails(FirstOf(routeQueue)) \/ RouteMessage(FirstOf(routeQueue), FALSE)
      BY <2>6, Zenon DEF routeQueuedMessages
    <3>2. CASE RoutingFails(FirstOf(routeQueue))
      BY <1>1, <3>2 DEF RoutingFails
    <3>3. CASE RouteMessage(FirstOf(routeQueue), FALSE)
      BY <2>4, <3>3, Zenon
    <3> QED
      BY <3>1, <3>2, <3>3, Zenon
  <2>7. CASE \E m \in Messages : OnRecvMessage(m) \/ DispatchMsg(m)
    BY <2>2, <2>7 DEF OnRecvMessage, DispatchMsg
  <2>8. CASE \/ deliverPendingMessages
             \/ \E m \in Messages : setRoutedPacketCompleted(m) \/ setRoutedPacketFailed(m)
    BY <2>2, <2>8 DEF deliverPendingMessages, deliverMessage, setRoutedPacketCompleted,
                      setRoutedPacketFailed, SettlePacket, SetMessageStatus
  <2> QED
    BY <1>1, <2>1, <2>3, <2>5, <2>6, <2>7, <2>8, Zenon DEF FlowNext
<1>2. FlowInv /\ [FlowNext]_flowVars
         => [\A m \in Messages : message[m] = "executed" => message'[m] = "executed"]_flowVars
  BY <1>1
<1> QED
  BY <1>2, FlowInvariant, PTL DEF FlowSpec, ExecutedIsFinal

=============================================================================
